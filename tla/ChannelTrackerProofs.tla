------------------------ MODULE ChannelTrackerProofs ------------------------
(***************************************************************************)
(* Proofs about the channel tracker: each dump is merged into the channel  *)
(* it was asked for unless the reply to its request came late, an entry of *)
(* pending_dumps waits for something to come unless just that was dropped, *)
(* the map has exactly FreeSWITCH's live channels, and what it says of     *)
(* them is up to date, but for the dumps and for the channels that an      *)
(* event was dropped of.  They hold for every finite set of channels,      *)
(* every queue size and any number of changes.                             *)
(***************************************************************************)
EXTENDS ChannelTracker, SequenceTheorems, FiniteSetTheorems, TLAPS

-----------------------------------------------------------------------------
(***************************************************************************)
(* The type invariant, by the part of the system it is about.              *)
(***************************************************************************)

Item == Event \cup {QueueFull}

SwitchOK ==
    /\ fs \in [Channels -> [life : {"unborn", "live", "gone"}, ver : Nat, leg : BOOLEAN]]
    /\ changes \in 0..MaxChanges
    /\ up \in BOOLEAN /\ subscribed \in BOOLEAN /\ refused \in SUBSET Requests
    /\ jobs \in [Requests -> [state : {"none", "started", "run", "told"}, dump : Dump]]
    /\ listing \in SUBSET (Channels \X Nat)

QueueOK ==
    /\ queue \in Seq(Item) /\ Len(queue) <= QueueSize
    /\ overflow \in BOOLEAN /\ lost \in SUBSET (Channels \cup Requests)

MainOK ==
    /\ pc \in {"begin", "write", "wait", "ready", "closed"}
    /\ todo \in Seq(Channels)
    /\ asked \in Seq({"events", "show"} \cup Channels) /\ Len(asked) \in {0} \cup Requests
    /\ channels \in [Channels -> TrackedChannel \cup {None}]
    /\ pending \in [Requests -> Channels \cup {None}]

ServiceOK ==
    /\ listener \in Requests \cup {None}
    /\ owed \in SUBSET Requests
    /\ reply \in [Requests -> Requests \cup {None}]
    /\ gaveUp \in BOOLEAN

LEMMA TypeIsFour == TypeOK <=> SwitchOK /\ QueueOK /\ MainOK /\ ServiceOK
  BY DEF TypeOK, SwitchOK, QueueOK, MainOK, ServiceOK, Item

\* Requests are numbered from 1.
LEMMA RequestsAreNumbers ==
    /\ Cardinality(Channels) \in Nat
    /\ Requests \subseteq Nat \ {0}
    /\ None \notin Channels /\ None \notin Requests
<1>1. Cardinality(Channels) \in Nat
  BY TrackerAssumption, FS_CardinalityType
<1>2. QED
  BY <1>1, TrackerAssumption DEF Requests

-----------------------------------------------------------------------------
(***************************************************************************)
(* The event queue.                                                        *)
(***************************************************************************)

\* What one dispatch_event adds to the queue is the event, perhaps behind a
\* notification; without room for it, what it tells of is in lost.
LEMMA DispatchAdds ==
    ASSUME QueueOK, NEW e \in Event, Dispatch(e)
    PROVE  /\ QueueOK'
           /\ Len(queue) <= Len(queue')
           /\ \A i \in 1..Len(queue) : queue'[i] = queue[i]
           /\ \A i \in (Len(queue) + 1)..Len(queue') : queue'[i] \in {e, QueueFull}
           /\ lost \subseteq lost'
           /\ Subject(e) \in lost' \/ \E i \in 1..Len(queue') : queue'[i] = e
<1> DEFINE notify == overflow /\ Len(queue) < QueueSize
           told == IF notify THEN Append(queue, QueueFull) ELSE queue
           room == Len(told) < QueueSize
<1>1. queue \in Seq(Item) /\ Len(queue) \in Nat /\ QueueSize \in Nat /\ Len(queue) <= QueueSize
  BY TrackerAssumption DEF QueueOK
<1>2. QueueFull \in Item /\ e \in Item
  BY DEF Item
<1>3. /\ told \in Seq(Item) /\ Len(told) <= QueueSize /\ Len(told) \in Nat
      /\ Len(queue) <= Len(told)
      /\ \A i \in 1..Len(queue) : told[i] = queue[i]
      /\ \A i \in (Len(queue) + 1)..Len(told) : told[i] = QueueFull
  <2>1. CASE notify
    <3>1. /\ told = Append(queue, QueueFull) /\ Len(queue) < QueueSize
      BY <2>1
    <3>2. QED
      BY <1>1, <1>2, <3>1, AppendProperties
  <2>2. CASE ~notify
    BY <1>1, <2>2
  <2>3. QED
    BY <2>1, <2>2
<1>4. /\ queue' = IF room THEN Append(told, e) ELSE told
      /\ overflow' = (~room \/ (overflow /\ ~notify))
      /\ lost' = IF room THEN lost ELSE lost \cup {Subject(e)}
  BY DEF Dispatch
<1>9. Subject(e) \in Channels \cup Requests
  BY DEF Subject, Event, ChannelEvent, JobEvent, Kinds
<1>5. /\ overflow' \in BOOLEAN
      /\ lost' \in SUBSET (Channels \cup Requests) /\ lost \subseteq lost'
  BY <1>4, <1>9 DEF QueueOK
<1>6. CASE room
  <2>1. Len(told) < QueueSize /\ queue' = Append(told, e)
    BY <1>4, <1>6
  <2> HIDE DEF told
  <2>2. /\ queue' \in Seq(Item) /\ Len(queue') = Len(told) + 1
        /\ \A i \in 1..Len(told) : queue'[i] = told[i]
        /\ queue'[Len(told) + 1] = e
    BY <1>2, <1>3, <2>1, AppendProperties
  <2>3. Len(queue') <= QueueSize
    BY <1>1, <1>3, <2>1, <2>2
  <2>4. QED
    BY <1>1, <1>3, <1>5, <2>2, <2>3 DEF QueueOK
<1>7. CASE ~room
  <2>1. queue' = told /\ Subject(e) \in lost'
    BY <1>4, <1>7
  <2> HIDE DEF told
  <2>2. QED
    BY <1>3, <1>5, <2>1 DEF QueueOK
<1>8. QED
  BY <1>6, <1>7

\* recv() takes the first item.
LEMMA NextItemTakes ==
    ASSUME QueueOK, NEW e, NextItem(e)
    PROVE  /\ QueueOK'
           /\ e \in Item /\ queue # << >> /\ e = queue[1]
           /\ \A i \in 1..Len(queue') : queue'[i] = queue[i + 1] /\ i + 1 \in 1..Len(queue)
           /\ \A i \in 2..Len(queue) : i - 1 \in 1..Len(queue') /\ queue'[i - 1] = queue[i]
<1>1. queue \in Seq(Item) /\ queue # << >> /\ queue' = Tail(queue) /\ e = Head(queue)
  BY DEF QueueOK, NextItem
<1>2. /\ Head(queue) \in Item /\ queue' \in Seq(Item) /\ Len(queue') = Len(queue) - 1
      /\ \A i \in 1..Len(queue') : queue'[i] = queue[i + 1]
  BY <1>1, HeadTailProperties
<1>3. Len(queue) \in Nat /\ Len(queue) <= QueueSize /\ QueueSize \in Nat
  BY <1>1, TrackerAssumption DEF QueueOK
<1>4. UNCHANGED <<overflow, lost>>
  BY DEF NextItem
<1>5. QueueOK'
  BY <1>2, <1>3, <1>4 DEF QueueOK
<1>6. QED
  BY <1>1, <1>2, <1>3, <1>5

-----------------------------------------------------------------------------
(***************************************************************************)
(* The map of channels.                                                    *)
(***************************************************************************)

ChannelMap == [Channels -> TrackedChannel \cup {None}]

\* The channels of map m that have data of another channel.
Foreign(m) == {c \in Channels : m[c] # None /\ m[c].foreign}

\* What is made or merged from one event.
LEMMA FreshChannel ==
    ASSUME NEW v \in Nat, NEW l \in BOOLEAN, NEW e, e.ver = v, e.leg = l
    PROVE  Fresh(e) \in TrackedChannel /\ ~Fresh(e).foreign
  BY DEF Fresh, TrackedChannel

LEMMA MergedChannel ==
    ASSUME NEW ch \in TrackedChannel, NEW e, e.ver \in Nat, e.leg \in BOOLEAN
    PROVE  /\ Merged(ch, e) \in TrackedChannel
           /\ Merged(ch, e).foreign = ch.foreign
           /\ [Merged(ch, e) EXCEPT !.leg = FALSE] \in TrackedChannel
           /\ [Merged(ch, e) EXCEPT !.leg = FALSE].foreign = ch.foreign
  BY DEF Merged, TrackedChannel

\* A channel that is changed keeps its mark.
LEMMA ChangedIsOwn ==
    ASSUME NEW m \in ChannelMap, NEW c \in Channels, m[c] # None,
           NEW x \in TrackedChannel, x.foreign = m[c].foreign
    PROVE  /\ [m EXCEPT ![c] = x] \in ChannelMap
           /\ Foreign([m EXCEPT ![c] = x]) \subseteq Foreign(m)
  BY DEF ChannelMap, Foreign

\* process_event keeps the types and takes no data of another channel.
LEMMA ProcessedIsOwn ==
    ASSUME NEW m \in ChannelMap, NEW e \in ChannelEvent
    PROVE  Processed(m, e) \in ChannelMap /\ Foreign(Processed(m, e)) \subseteq Foreign(m)
<1>1. e.of \in Channels /\ e.ver \in Nat /\ e.leg \in BOOLEAN
  BY DEF ChannelEvent
<1>2. CASE e.type = "create"
  <2>1. Processed(m, e) = [m EXCEPT ![e.of] = Fresh(e)]
    BY <1>2 DEF Processed
  <2>2. Fresh(e) \in TrackedChannel /\ ~Fresh(e).foreign
    BY <1>1, FreshChannel
  <2>3. QED
    BY <1>1, <2>1, <2>2 DEF ChannelMap, Foreign
<1>3. CASE e.type # "create" /\ m[e.of] = None
  BY <1>3 DEF Processed
<1>4. CASE e.type = "destroy" /\ m[e.of] # None
  <2>1. Processed(m, e) = [m EXCEPT ![e.of] = None]
    BY <1>4 DEF Processed
  <2>2. QED
    BY <1>1, <2>1 DEF ChannelMap, Foreign
<1>5. CASE e.type = "unbridge" /\ m[e.of] # None
  <2>1. Processed(m, e) = [m EXCEPT ![e.of] = [Merged(m[e.of], e) EXCEPT !.leg = FALSE]]
    BY <1>5 DEF Processed
  <2>2. m[e.of] \in TrackedChannel
    BY <1>1, <1>5 DEF ChannelMap
  <2>3. /\ [Merged(m[e.of], e) EXCEPT !.leg = FALSE] \in TrackedChannel
        /\ [Merged(m[e.of], e) EXCEPT !.leg = FALSE].foreign = m[e.of].foreign
    BY <1>1, <2>2, MergedChannel
  <2>4. QED
    BY <1>1, <1>5, <2>1, <2>3, ChangedIsOwn, ZenonT(30)
<1>6. CASE e.type \notin {"create", "destroy", "unbridge"} /\ m[e.of] # None
  <2>1. Processed(m, e) = [m EXCEPT ![e.of] = Merged(m[e.of], e)]
    BY <1>6 DEF Processed
  <2>2. m[e.of] \in TrackedChannel
    BY <1>1, <1>6 DEF ChannelMap
  <2>3. Merged(m[e.of], e) \in TrackedChannel /\ Merged(m[e.of], e).foreign = m[e.of].foreign
    BY <1>1, <2>2, MergedChannel
  <2>4. QED
    BY <1>1, <1>6, <2>1, <2>3, ChangedIsOwn, ZenonT(30)
<1>7. QED
  BY <1>2, <1>3, <1>4, <1>5, <1>6

\* apply_dump takes data of another channel only from a dump of another, and into
\* no channel but its own.
LEMMA DumpedIsOwn ==
    ASSUME NEW m \in ChannelMap, NEW c \in Channels, NEW e \in JobEvent
    PROVE  /\ Dumped(m, c, e) \in ChannelMap
           /\ Foreign(Dumped(m, c, e)) \subseteq Foreign(m) \cup {c}
           /\ e.of \in {c, None} => Foreign(Dumped(m, c, e)) \subseteq Foreign(m)
<1>1. e.ver \in Nat /\ e.leg \in BOOLEAN
  BY DEF JobEvent
<1>2. CASE m[c] = None \/ e.of = None
  BY <1>2 DEF Dumped
<1>3. CASE m[c] # None /\ e.of # None
  <2>1. Dumped(m, c, e) = [m EXCEPT ![c] = DumpMerged(m[c], c, e)]
    BY <1>3 DEF Dumped
  <2>2. m[c] \in TrackedChannel
    BY <1>3 DEF ChannelMap
  <2>3. Merged(m[c], e) \in TrackedChannel /\ Merged(m[c], e).foreign = m[c].foreign
    BY <1>1, <2>2, MergedChannel
  <2>4. /\ DumpMerged(m[c], c, e) \in TrackedChannel
        /\ DumpMerged(m[c], c, e).foreign = (m[c].foreign \/ e.of # c)
    BY <2>3 DEF DumpMerged, TrackedChannel
  <2>5. QED
    BY <1>3, <2>1, <2>4 DEF ChannelMap, Foreign
<1>4. QED
  BY <1>2, <1>3

\* So does the list of channels.
LEMMA BootstrappedIsOwn ==
    ASSUME SwitchOK, channels \in ChannelMap
    PROVE  Bootstrapped \in ChannelMap /\ Foreign(Bootstrapped) \subseteq Foreign(channels)
<1>1. ASSUME NEW c \in Channels, \E row \in listing : row[1] = c
      PROVE  Bootstrapped[c] \in TrackedChannel /\ ~Bootstrapped[c].foreign
  <2> DEFINE row == CHOOSE row \in listing : row[1] = c
  <2>1. row \in Channels \X Nat
    BY <1>1 DEF SwitchOK
  <2>2. Bootstrapped[c] = FakeCreate(row)
    BY <1>1 DEF Bootstrapped
  <2> HIDE DEF row
  <2>3. row[2] \in Nat
    BY <2>1
  <2>4. FakeCreate(row) \in TrackedChannel /\ ~FakeCreate(row).foreign
    BY <2>3, FreshChannel DEF FakeCreate, Fresh, TrackedChannel
  <2>5. QED
    BY <2>2, <2>4
<1>2. ASSUME NEW c \in Channels, ~\E row \in listing : row[1] = c
      PROVE  Bootstrapped[c] = channels[c]
  BY <1>2 DEF Bootstrapped
<1>3. Bootstrapped \in ChannelMap
  BY <1>1, <1>2 DEF Bootstrapped, ChannelMap
<1>4. QED
  BY <1>1, <1>2, <1>3 DEF Foreign

-----------------------------------------------------------------------------
(***************************************************************************)
(* Type correctness.                                                       *)
(***************************************************************************)

\* A call is made under the number after the last.
LEMMA AskOK ==
    ASSUME MainOK, ServiceOK, NEW x \in {"events", "show"} \cup Channels, Ask(x)
    PROVE  /\ pc' = "write"
           /\ asked' \in Seq({"events", "show"} \cup Channels)
           /\ Len(asked') = Len(asked) + 1 /\ Len(asked') \in Requests
           /\ \A i \in 1..Len(asked) : asked'[i] = asked[i]
           /\ ServiceOK'
           /\ reply[listener'] = None
           /\ UNCHANGED <<owed, reply, gaveUp>>
<1>1. /\ asked' = Append(asked, x) /\ Len(asked) + 1 \in Requests /\ pc' = "write"
      /\ listener' = Len(asked) + 1 /\ reply[Len(asked) + 1] = None
      /\ UNCHANGED <<owed, reply, gaveUp>>
  BY DEF Ask, Call, Service!Listen
<1>2. asked \in Seq({"events", "show"} \cup Channels)
  BY DEF MainOK
<1>3. /\ asked' \in Seq({"events", "show"} \cup Channels)
      /\ Len(asked') = Len(asked) + 1
      /\ \A i \in 1..Len(asked) : asked'[i] = asked[i]
  BY <1>1, <1>2, AppendProperties
<1>4. ServiceOK'
  BY <1>1 DEF ServiceOK
<1>5. QED
  BY <1>1, <1>3, <1>4

\* A change of a channel is an event of that channel.
LEMMA ChangeOK ==
    ASSUME SwitchOK, QueueOK, NEW c \in Channels, NEW t \in Kinds,
           NEW after \in [life : {"unborn", "live", "gone"}, ver : Nat, leg : BOOLEAN],
           Change(c, t, after)
    PROVE  /\ SwitchOK'
           /\ UNCHANGED <<up, subscribed, refused, jobs, listing, pc, todo, asked>>
           /\ UNCHANGED <<tracker, service>>
           /\ UNCHANGED queueVars \/ \E e \in ChannelEvent : Dispatch(e)
<1> DEFINE e == [type |-> t, of |-> c, ver |-> after.ver, leg |-> fs[c].leg \/ after.leg,
                 job |-> 0]
<1>1. (fs[c].leg \/ after.leg) \in BOOLEAN /\ after.ver \in Nat
  OBVIOUS
<1>2. e \in ChannelEvent
  BY <1>1 DEF ChannelEvent
<1>3. /\ changes < MaxChanges /\ changes' = changes + 1
      /\ fs' = [fs EXCEPT ![c] = after]
      /\ IF subscribed THEN Dispatch(e) ELSE UNCHANGED queueVars
      /\ UNCHANGED <<up, subscribed, refused, jobs, listing, pc, todo, asked>>
      /\ UNCHANGED <<tracker, service>>
  BY DEF Change
<1> HIDE DEF e
<1>4. MaxChanges \in Nat
  BY TrackerAssumption
<1>5. SwitchOK'
  BY <1>3, <1>4 DEF SwitchOK
<1>6. QED
  BY <1>2, <1>3, <1>5

\* A channel after a change of its version.
LEMMA ChangedRecord ==
    ASSUME NEW x \in [life : {"unborn", "live", "gone"}, ver : Nat, leg : BOOLEAN],
           NEW l \in BOOLEAN
    PROVE  /\ [x EXCEPT !.ver = @ + 1]
                \in [life : {"unborn", "live", "gone"}, ver : Nat, leg : BOOLEAN]
           /\ [x EXCEPT !.ver = @ + 1, !.leg = l]
                \in [life : {"unborn", "live", "gone"}, ver : Nat, leg : BOOLEAN]
<1>1. x.ver + 1 \in Nat
  OBVIOUS
<1>2. [x EXCEPT !.ver = @ + 1] \in [life : {"unborn", "live", "gone"}, ver : Nat, leg : BOOLEAN]
  BY <1>1
<1>3. [x EXCEPT !.ver = @ + 1, !.leg = l]
        \in [life : {"unborn", "live", "gone"}, ver : Nat, leg : BOOLEAN]
  BY <1>1
<1>4. QED
  BY <1>2, <1>3

\* The changes FreeSWITCH makes.
LEMMA SwitchChanges ==
    ASSUME SwitchOK, QueueOK, FreeSwitch
    PROVE  /\ SwitchOK'
           /\ UNCHANGED <<up, subscribed, refused, jobs, listing, pc, todo, asked>>
           /\ UNCHANGED <<tracker, service>>
           /\ UNCHANGED queueVars \/ \E e \in ChannelEvent : Dispatch(e)
<1>1. PICK c \in Channels : FsCreate(c) \/ FsUpdate(c) \/ FsDestroy(c)
  BY DEF FreeSwitch
<1>2. fs[c] \in [life : {"unborn", "live", "gone"}, ver : Nat, leg : BOOLEAN]
  BY DEF SwitchOK
<1>3. \E t \in Kinds,
         after \in [life : {"unborn", "live", "gone"}, ver : Nat, leg : BOOLEAN] :
           Change(c, t, after)
  <2>1. CASE FsCreate(c)
    <3>1. [life |-> "live", ver |-> 0, leg |-> FALSE]
            \in [life : {"unborn", "live", "gone"}, ver : Nat, leg : BOOLEAN]
      OBVIOUS
    <3>2. "create" \in Kinds
      BY DEF Kinds
    <3>3. QED
      BY <2>1, <3>1, <3>2 DEF FsCreate
  <2>2. CASE FsUpdate(c)
    <3>1. /\ [fs[c] EXCEPT !.ver = @ + 1]
               \in [life : {"unborn", "live", "gone"}, ver : Nat, leg : BOOLEAN]
          /\ [fs[c] EXCEPT !.ver = @ + 1, !.leg = TRUE]
               \in [life : {"unborn", "live", "gone"}, ver : Nat, leg : BOOLEAN]
          /\ [fs[c] EXCEPT !.ver = @ + 1, !.leg = FALSE]
               \in [life : {"unborn", "live", "gone"}, ver : Nat, leg : BOOLEAN]
      BY <1>2, ChangedRecord
    <3>2. {"change", "bridge", "unbridge"} \subseteq Kinds
      BY DEF Kinds
    <3>3. QED
      BY <2>2, <3>1, <3>2 DEF FsUpdate
  <2>3. CASE FsDestroy(c)
    <3>1. [fs[c] EXCEPT !.life = "gone", !.leg = FALSE]
            \in [life : {"unborn", "live", "gone"}, ver : Nat, leg : BOOLEAN]
      BY <1>2
    <3>2. "destroy" \in Kinds
      BY DEF Kinds
    <3>3. QED
      BY <2>3, <3>1, <3>2 DEF FsDestroy
  <2>4. QED
    BY <1>1, <2>1, <2>2, <2>3
<1>4. QED
  BY <1>3, ChangeOK

\* What the job of request r reads is a dump of the channel asked for, or nothing.
LEMMA JobReads ==
    ASSUME SwitchOK, MainOK, NEW r \in Requests, RunJob(r), asked[r] \in Channels
    PROVE  /\ SwitchOK'
           /\ \A q \in Requests : q # r => jobs'[q] = jobs[q]
           /\ jobs[r].state = "started" /\ jobs'[r].state = "run"
           /\ jobs'[r].dump.of \in {asked[r], None}
<1> DEFINE c == asked[r]
           d == IF Live(c) THEN [of |-> c, ver |-> fs[c].ver, leg |-> fs[c].leg] ELSE NoDump
<1>1. d \in Dump /\ d.of \in {c, None}
  BY DEF SwitchOK, Dump, NoDump
<1>2. /\ jobs' = [jobs EXCEPT ![r] = [state |-> "run", dump |-> d]]
      /\ jobs[r].state = "started"
      /\ UNCHANGED <<fs, changes, up, subscribed, refused, listing>>
  BY DEF RunJob
<1> HIDE DEF d
<1>3. [state |-> "run", dump |-> d]
        \in [state : {"none", "started", "run", "told"}, dump : Dump]
  BY <1>1
<1>4. QED
  BY <1>1, <1>2, <1>3 DEF SwitchOK

\* What it tells is what it read.
LEMMA JobTells ==
    ASSUME SwitchOK, NEW r \in Requests, EndJob(r)
    PROVE  /\ SwitchOK'
           /\ \A q \in Requests : /\ q # r => jobs'[q] = jobs[q]
                                  /\ jobs'[q].dump = jobs[q].dump
           /\ jobs[r].state = "run" /\ jobs'[r].state = "told"
           /\ \E e \in JobEvent : e.job = r /\ e.of = jobs[r].dump.of /\ Dispatch(e)
<1> DEFINE d == jobs[r].dump
           e == [type |-> "job", of |-> d.of, ver |-> d.ver, leg |-> d.leg, job |-> r]
<1>1. d \in Dump
  BY DEF SwitchOK
<1>2. e \in JobEvent
  BY <1>1 DEF Dump, JobEvent
<1>3. /\ jobs' = [jobs EXCEPT ![r].state = "told"]
      /\ jobs[r].state = "run" /\ Dispatch(e)
      /\ UNCHANGED <<fs, changes, up, subscribed, refused, listing>>
  BY DEF EndJob
<1>4. e.job = r /\ e.of = jobs[r].dump.of
  OBVIOUS
<1> HIDE DEF e
<1>5. QED
  BY <1>2, <1>3, <1>4 DEF SwitchOK

-----------------------------------------------------------------------------
(***************************************************************************)
(* The invariant.                                                          *)
(***************************************************************************)

\* Everything that happens to a request happens after it was made.
OrderInv ==
    /\ pc \in {"write", "wait"} => Call \in Requests
    /\ \A r \in owed : r <= Call
    /\ \A r \in Requests : reply[r] # None => reply[r] <= Call
    /\ \A r \in Requests : jobs[r].state # "none" => r <= Call /\ asked[r] \in Channels
    /\ \A r \in Requests : pending[r] # None => r <= Call
    /\ \A i \in 1..Len(queue) : queue[i].type = "job" => queue[i].job <= Call

\* Every answer is handed to one call at most, and to a call that has none.
ReplyInv ==
    /\ \A a, b \in Requests : reply[a] # None /\ reply[a] = reply[b] => a = b
    /\ \A r \in owed : \A b \in Requests : reply[b] # r
    /\ listener # None => reply[listener] = None

\* The answer to request r was handed to a call that asks for x.
Handed(r, x) == \E k \in 1..Call : reply[k] = r /\ asked[k] = x

\* A call that asks for x was handed a late answer, to another.
Late(x) == \E k \in 1..Call : asked[k] = x /\ reply[k] \notin {k, None}

(***************************************************************************)
(* The channel a dump is asked for goes with it: into the job, its event   *)
(* and the map.  The entry of pending_dumps has the channel of the call    *)
(* that was handed the answer.                                             *)
(***************************************************************************)
OwnInv ==
    /\ \A r \in Requests : pending[r] # None => Handed(r, pending[r])
    /\ \A r \in Requests :
           IF jobs[r].state = "none" THEN jobs[r].dump.of = None
           ELSE jobs[r].dump.of \in {asked[r], None}
    /\ \A i \in 1..Len(queue) :
           queue[i].type = "job" => queue[i].of \in {asked[queue[i].job], None}
    /\ \A c \in Foreign(channels) : Late(c)

\* The event of request r is still to come, or is queued.
Promised(r) ==
    \/ jobs[r].state \in {"started", "run"}
    \/ \E i \in 1..Len(queue) : queue[i].type = "job" /\ queue[i].job = r

(***************************************************************************)
(* Between the answer to a bgapi and its entry in pending_dumps nothing is *)
(* received: its event cannot be looked at too early.                      *)
(***************************************************************************)
OwedInv ==
    /\ \A r \in Requests \ lost : pending[r] # None /\ reply[r] = r => Promised(r)
    /\ pc = "wait" /\ Call \notin lost /\ reply[Call] = Call /\ NamesJob(Call) =>
           Promised(Call)

TrackerInv ==
    /\ SwitchOK /\ QueueOK /\ MainOK /\ ServiceOK
    /\ OrderInv /\ ReplyInv /\ OwnInv /\ OwedInv

-----------------------------------------------------------------------------
(***************************************************************************)
(* The steps of main.                                                      *)
(***************************************************************************)

LEMMA TrackerInit ==
    ASSUME Init
    PROVE  TrackerInv
<1>0. MaxChanges \in Nat /\ QueueSize \in Nat
  BY TrackerAssumption
<1>1. SwitchOK
  <2>1. fs \in [Channels -> [life : {"unborn", "live", "gone"}, ver : Nat, leg : BOOLEAN]]
    <3>1. [life : {"unborn"}, ver : {0}, leg : {FALSE}]
            \cup [life : {"live"}, ver : {0}, leg : BOOLEAN]
          \subseteq [life : {"unborn", "live", "gone"}, ver : Nat, leg : BOOLEAN]
      <4>1. ASSUME NEW x \in [life : {"unborn"}, ver : {0}, leg : {FALSE}]
            PROVE  x \in [life : {"unborn", "live", "gone"}, ver : Nat, leg : BOOLEAN]
        <5>1. x = [life |-> "unborn", ver |-> 0, leg |-> FALSE]
          OBVIOUS
        <5>2. QED
          BY <5>1
      <4>2. ASSUME NEW x \in [life : {"live"}, ver : {0}, leg : BOOLEAN]
            PROVE  x \in [life : {"unborn", "live", "gone"}, ver : Nat, leg : BOOLEAN]
        OBVIOUS
      <4>3. QED
        BY <4>1, <4>2
    <3>2. QED
      BY <3>1 DEF Init
  <2>2. NoDump \in Dump
    BY DEF NoDump, Dump
  <2>3. jobs \in [Requests -> [state : {"none", "started", "run", "told"}, dump : Dump]]
    BY <2>2 DEF Init
  <2>4. /\ up \in BOOLEAN /\ subscribed \in BOOLEAN /\ refused = {}
        /\ changes = 0 /\ listing = {}
    BY DEF Init
  <2>5. QED
    BY <1>0, <2>1, <2>3, <2>4 DEF SwitchOK
<1>2. QueueOK
  <2>1. queue = << >> /\ overflow \in BOOLEAN /\ lost = {}
    BY DEF Init
  <2>2. QED
    BY <1>0, <2>1, EmptySeq DEF QueueOK
<1> USE RequestsAreNumbers DEF Init, Service!Init
<1>3. MainOK
  BY DEF MainOK
<1>4. ServiceOK
  BY DEF ServiceOK
<1>5. OrderInv /\ ReplyInv /\ OwnInv /\ OwedInv
  BY DEF OrderInv, ReplyInv, OwnInv, OwedInv, Foreign, NoDump
<1>6. QED
  BY <1>1, <1>2, <1>3, <1>4, <1>5 DEF TrackerInv

\* What is queued as a job's event is one, and names a request.
LEMMA JobsAreRequests ==
    ASSUME QueueOK, NEW i \in 1..Len(queue), queue[i].type = "job"
    PROVE  queue[i] \in JobEvent
<1>1. queue[i] \in ChannelEvent \cup JobEvent \cup {QueueFull}
  BY DEF QueueOK, Item, Event
<1>2. QED
  BY <1>1 DEF ChannelEvent, QueueFull, Kinds

\* Every call made is a request.
LEMMA CallsAreRequests ==
    ASSUME MainOK, NEW k \in 1..Call
    PROVE  k \in Requests
  BY RequestsAreNumbers DEF MainOK, Call, Requests

\* What was handed to a call stays with it.
LEMMA HandedStays ==
    ASSUME MainOK, ServiceOK, Len(asked') \in Nat, Len(asked) <= Len(asked'),
           \A i \in 1..Len(asked) : asked'[i] = asked[i],
           \A k \in Requests : reply[k] # None => reply'[k] = reply[k]
    PROVE  /\ \A r \in Requests, x \in Channels : Handed(r, x) => Handed(r, x)'
           /\ \A x \in Channels : Late(x) => Late(x)'
<1>1. Len(asked) \in Nat
  BY DEF MainOK
<1>2. \A k \in 1..Len(asked) : k \in Requests /\ k \in 1..Len(asked')
  BY <1>1, RequestsAreNumbers DEF MainOK, Requests
<1>3. ASSUME NEW r \in Requests, NEW x \in Channels, Handed(r, x)
      PROVE  Handed(r, x)'
  <2>1. PICK k \in 1..Len(asked) : reply[k] = r /\ asked[k] = x
    BY <1>3 DEF Handed, Call
  <2>2. k \in 1..Len(asked') /\ reply'[k] = r /\ asked'[k] = x
    BY <1>2, <1>3, <2>1, RequestsAreNumbers
  <2>3. QED
    BY <2>2 DEF Handed, Call
<1>4. ASSUME NEW x \in Channels, Late(x)
      PROVE  Late(x)'
  <2>1. PICK k \in 1..Len(asked) : asked[k] = x /\ reply[k] \notin {k, None}
    BY <1>4 DEF Late, Call
  <2>2. k \in 1..Len(asked') /\ asked'[k] = x /\ reply'[k] \notin {k, None}
    BY <1>2, <2>1
  <2>3. QED
    BY <2>2 DEF Late, Call
<1>5. QED
  BY <1>3, <1>4

\* A new call leaves all that was asked before where it is.
LEMMA AskStep ==
    ASSUME TrackerInv, NEW x \in {"events", "show"} \cup Channels, Ask(x),
           UNCHANGED <<switchVars, queueVars, tracker>>, todo' \in Seq(Channels)
    PROVE  TrackerInv'
<1>1. /\ SwitchOK /\ QueueOK /\ MainOK /\ ServiceOK
      /\ OrderInv /\ ReplyInv /\ OwnInv /\ OwedInv
  BY DEF TrackerInv
<1>2. /\ pc' = "write"
      /\ asked' \in Seq({"events", "show"} \cup Channels)
      /\ Len(asked') = Len(asked) + 1 /\ Len(asked') \in Requests
      /\ \A i \in 1..Len(asked) : asked'[i] = asked[i]
      /\ ServiceOK'
      /\ reply[listener'] = None
      /\ UNCHANGED <<owed, reply, gaveUp>>
  BY <1>1, AskOK
<1>3. /\ UNCHANGED <<fs, changes, up, subscribed, refused, jobs, listing>>
      /\ UNCHANGED <<queue, overflow, lost, channels, pending>>
  BY DEF switchVars, queueVars, tracker
<1>4. SwitchOK' /\ QueueOK'
  BY <1>1, <1>3 DEF SwitchOK, QueueOK
<1>5. MainOK'
  BY <1>1, <1>2, <1>3 DEF MainOK
<1>6. /\ Len(asked) \in Nat /\ Requests \subseteq Nat \ {0} /\ owed \subseteq Requests
  BY <1>1, RequestsAreNumbers DEF MainOK, ServiceOK
<1>12. \A r \in Requests : reply[r] # None => reply[r] \in Nat
  BY <1>1, RequestsAreNumbers DEF ServiceOK
<1>7. \A i \in 1..Len(queue) : queue[i].type = "job" => queue[i].job \in Requests
  BY <1>1, JobsAreRequests DEF JobEvent
<1>8. OrderInv'
  <2>1. \A r \in Requests : r <= Len(asked) => r <= Len(asked') /\ asked'[r] = asked[r]
    <3>1. SUFFICES ASSUME NEW r \in Requests, r <= Len(asked)
                   PROVE  r <= Len(asked') /\ asked'[r] = asked[r]
      OBVIOUS
    <3>2. r \in Nat \ {0} /\ Len(asked) \in Nat /\ Len(asked') = Len(asked) + 1
      BY <1>2, <1>6
    <3>3. r \in 1..Len(asked)
      BY <3>1, <3>2
    <3>4. asked'[r] = asked[r]
      BY <1>2, <3>3
    <3>5. r <= Len(asked')
      BY <3>1, <3>2
    <3>6. QED
      BY <3>4, <3>5
  <2>2. /\ \A r \in owed' : r <= Len(asked')
        /\ \A r \in Requests : pending'[r] # None => r <= Len(asked')
        /\ \A r \in Requests :
               jobs'[r].state # "none" => r <= Len(asked') /\ asked'[r] \in Channels
    BY <1>1, <1>2, <1>3, <1>6, <2>1 DEF OrderInv, Call
  <2>3. \A r \in Requests : reply'[r] # None => reply'[r] <= Len(asked')
    BY <1>1, <1>2, <1>6, <1>12 DEF OrderInv, Call
  <2>4. \A i \in 1..Len(queue') : queue'[i].type = "job" => queue'[i].job <= Len(asked')
    BY <1>1, <1>2, <1>3, <1>7, <2>1 DEF OrderInv, Call
  <2>5. QED
    BY <1>2, <2>2, <2>3, <2>4 DEF OrderInv, Call
<1>9. OwnInv'
  <2>1. /\ \A r \in Requests, c \in Channels : Handed(r, c) => Handed(r, c)'
        /\ \A c \in Channels : Late(c) => Late(c)'
    <3>1. Len(asked') \in Nat /\ Len(asked) <= Len(asked')
      BY <1>2, <1>6
    <3>2. QED
      BY <1>1, <1>2, <3>1, HandedStays
  <2>2. \A r \in Requests : r <= Len(asked) => asked'[r] = asked[r]
    <3>1. \A r \in Requests : r <= Len(asked) => r \in 1..Len(asked)
      BY <1>6
    <3>2. QED
      BY <1>2, <3>1
  <2>3. ASSUME NEW r \in Requests, pending[r] # None
        PROVE  Handed(r, pending[r])'
    <3>1. pending[r] \in Channels /\ Handed(r, pending[r])
      BY <1>1, <2>3 DEF OwnInv, MainOK
    <3>2. PICK ch \in Channels : ch = pending[r] /\ ch = pending'[r]
      BY <1>3, <3>1
    <3>3. Handed(r, ch)'
      BY <2>1, <3>1, <3>2
    <3>4. QED
      BY <3>2, <3>3 DEF Handed
  <2>4. \A c \in Foreign(channels') : Late(c)'
    BY <1>1, <1>3, <2>1 DEF OwnInv, Foreign
  <2>5. /\ \A r \in Requests :
               IF jobs'[r].state = "none" THEN jobs'[r].dump.of = None
               ELSE jobs'[r].dump.of \in {asked'[r], None}
        /\ \A i \in 1..Len(queue') :
               queue'[i].type = "job" => queue'[i].of \in {asked'[queue'[i].job], None}
    BY <1>1, <1>3, <1>7, <2>2 DEF OwnInv, OrderInv, Call
  <2>6. QED
    BY <1>3, <2>3, <2>4, <2>5 DEF OwnInv
<1>10. OwedInv' /\ ReplyInv'
  BY <1>1, <1>2, <1>3 DEF OwedInv, ReplyInv, Promised
<1>11. QED
  BY <1>2, <1>4, <1>5, <1>8, <1>9, <1>10 DEF TrackerInv

\* The steps of a call that change the command channel and main's place only.
LEMMA CallingStep ==
    ASSUME TrackerInv,
           \/ Write \/ CallFails \/ CallTimesOut
           \/ SubscribeDone \/ CallRefused \/ ReceiveEnd
    PROVE  TrackerInv'
<1>1. /\ SwitchOK /\ QueueOK /\ MainOK /\ ServiceOK
      /\ OrderInv /\ ReplyInv /\ OwnInv /\ OwedInv
  BY DEF TrackerInv
<1>2. /\ UNCHANGED <<fs, changes, up, subscribed, refused, jobs, listing>>
      /\ UNCHANGED <<queue, overflow, lost, todo, asked, channels, pending>>
  BY DEF Write, CallFails, CallTimesOut, SubscribeDone, CallRefused, ReceiveEnd, switchVars,
         queueVars, tracker
<1>3. SwitchOK' /\ QueueOK'
  BY <1>1, <1>2 DEF SwitchOK, QueueOK
<1>4. Len(asked) \in Nat /\ Requests \subseteq Nat \ {0}
  BY <1>1, RequestsAreNumbers DEF MainOK
<1>5. CASE Write
  <2>1. /\ pc = "write" /\ pc' = "wait" /\ owed' = owed \cup {Call}
        /\ \A b \in Requests : reply[b] # Call
        /\ UNCHANGED <<listener, reply, gaveUp>>
    BY <1>5 DEF Write, Service!Send
  <2>2. Call \in Requests
    BY <1>1, <2>1 DEF OrderInv
  <2>3. MainOK' /\ ServiceOK'
    BY <1>1, <1>2, <2>1, <2>2 DEF MainOK, ServiceOK
  <2>4. OrderInv'
    BY <1>1, <1>2, <1>4, <2>1, <2>2 DEF OrderInv, Call
  <2>5. OwnInv'
    BY <1>1, <1>2, <2>1 DEF OwnInv, Foreign, Handed, Late, Call
  <2>6. OwedInv' /\ ReplyInv'
    BY <1>1, <1>2, <2>1, <2>2 DEF OwedInv, ReplyInv, Promised, Call
  <2>7. QED
    BY <1>3, <2>3, <2>4, <2>5, <2>6 DEF TrackerInv
<1>6. CASE CallFails \/ SubscribeDone \/ CallRefused \/ ReceiveEnd
  <2>1. /\ pc' \in {"begin", "ready", "closed"}
        /\ listener' \in {listener, None} /\ UNCHANGED <<owed, reply, gaveUp>>
    BY <1>6 DEF CallFails, SubscribeDone, CallRefused, ReceiveEnd, AfterCall, AfterError,
                Service!Fail, service
  <2>2. MainOK' /\ ServiceOK'
    BY <1>1, <1>2, <2>1 DEF MainOK, ServiceOK
  <2>3. OrderInv'
    BY <1>1, <1>2, <2>1 DEF OrderInv, Call
  <2>4. OwnInv'
    BY <1>1, <1>2, <2>1 DEF OwnInv, Foreign, Handed, Late, Call
  <2>5. OwedInv' /\ ReplyInv'
    BY <1>1, <1>2, <2>1 DEF OwedInv, ReplyInv, Promised
  <2>6. QED
    BY <1>3, <2>2, <2>3, <2>4, <2>5 DEF TrackerInv
<1>7. CASE CallTimesOut
  <2>1. /\ pc' \in {"ready", "closed"} /\ gaveUp' \in BOOLEAN /\ listener' = None
        /\ UNCHANGED <<owed, reply>>
    BY <1>7 DEF CallTimesOut, AfterError, Service!GiveUp
  <2>2. MainOK' /\ ServiceOK'
    BY <1>1, <1>2, <2>1 DEF MainOK, ServiceOK
  <2>3. OrderInv'
    BY <1>1, <1>2, <2>1 DEF OrderInv, Call
  <2>4. OwnInv'
    BY <1>1, <1>2, <2>1 DEF OwnInv, Foreign, Handed, Late, Call
  <2>5. OwedInv' /\ ReplyInv'
    BY <1>1, <1>2, <2>1 DEF OwedInv, ReplyInv, Promised
  <2>6. QED
    BY <1>3, <2>2, <2>3, <2>4, <2>5 DEF TrackerInv
<1>8. QED
  BY <1>5, <1>6, <1>7

\* bootstrap: the rows are channels, and their data their own.
LEMMA ShowStep ==
    ASSUME TrackerInv, ShowDone
    PROVE  TrackerInv'
<1>1. /\ SwitchOK /\ QueueOK /\ MainOK /\ ServiceOK
      /\ OrderInv /\ ReplyInv /\ OwnInv /\ OwedInv
  BY DEF TrackerInv
<1>2. /\ pc' \in {"begin", "ready"} /\ channels' = Bootstrapped
      /\ todo' \in SetToSeqs({row[1] : row \in listing})
      /\ UNCHANGED <<fs, changes, up, subscribed, refused, jobs, listing>>
      /\ UNCHANGED <<queue, overflow, lost, asked, pending, listener, owed, reply, gaveUp>>
  BY DEF ShowDone, AfterCall, switchVars, queueVars, service
<1>3. channels \in ChannelMap
  BY <1>1 DEF MainOK, ChannelMap
<1>4. channels' \in ChannelMap /\ Foreign(channels') \subseteq Foreign(channels)
  BY <1>1, <1>2, <1>3, BootstrappedIsOwn
<1>5. todo' \in Seq(Channels)
  <2> DEFINE S == {row[1] : row \in listing}
  <2>1. S \subseteq Channels
    BY <1>1 DEF SwitchOK
  <2>2. Cardinality(S) \in Nat
    BY <2>1, TrackerAssumption, FS_Subset, FS_CardinalityType
  <2>3. todo' \in [1..Cardinality(S) -> S]
    BY <1>2 DEF SetToSeqs
  <2> HIDE DEF S
  <2>4. todo' \in [1..Cardinality(S) -> Channels]
    BY <2>1, <2>3
  <2>5. QED
    BY <2>2, <2>4, SeqDef
<1>6. SwitchOK' /\ QueueOK' /\ ServiceOK'
  BY <1>1, <1>2 DEF SwitchOK, QueueOK, ServiceOK
<1>7. MainOK'
  BY <1>1, <1>2, <1>4, <1>5 DEF MainOK, ChannelMap
<1>8. OrderInv'
  BY <1>1, <1>2 DEF OrderInv, Call
<1>9. OwnInv'
  BY <1>1, <1>2, <1>4 DEF OwnInv, Handed, Late, Call
<1>10. OwedInv' /\ ReplyInv'
  BY <1>1, <1>2 DEF OwedInv, ReplyInv, Promised
<1>11. QED
  BY <1>6, <1>7, <1>8, <1>9, <1>10 DEF TrackerInv

\* request_dump: the job in the reply is the one asked for unless it came late, and
\* its event is still to come.
LEMMA DumpStartedStep ==
    ASSUME TrackerInv, DumpStarted, pc = "wait"
    PROVE  TrackerInv'
<1>1. /\ SwitchOK /\ QueueOK /\ MainOK /\ ServiceOK
      /\ OrderInv /\ ReplyInv /\ OwnInv /\ OwedInv
  BY DEF TrackerInv
<1>2. PICK r \in Requests :
          /\ reply[Call] = r
          /\ pending' = IF NamesJob(r) THEN [pending EXCEPT ![r] = asked[Call]]
                        ELSE pending
  BY DEF DumpStarted, Returned
<1>3. /\ asked[Call] \in Channels /\ pc' \in {"begin", "ready"}
      /\ UNCHANGED <<fs, changes, up, subscribed, refused, jobs, listing>>
      /\ UNCHANGED <<queue, overflow, lost, todo, asked, channels, listener, owed, reply, gaveUp>>
  BY DEF DumpStarted, AfterCall, switchVars, queueVars, service
<1>4. Call \in Requests
  BY <1>1 DEF OrderInv
<1>5. r # None /\ r <= Call
  BY <1>1, <1>2, <1>4, RequestsAreNumbers DEF OrderInv
<1>6. SwitchOK' /\ QueueOK' /\ ServiceOK'
  BY <1>1, <1>3 DEF SwitchOK, QueueOK, ServiceOK
<1>7. \A q \in Requests : q # r => pending'[q] = pending[q]
  BY <1>1, <1>2 DEF MainOK
<1>8. /\ pending'[r] = IF NamesJob(r) THEN asked[Call] ELSE pending[r]
      /\ Call \in 1..Call
  BY <1>1, <1>2, <1>4, RequestsAreNumbers DEF MainOK
<1>9. MainOK'
  BY <1>1, <1>2, <1>3 DEF MainOK
<1>10. OrderInv'
  BY <1>1, <1>3, <1>5, <1>7 DEF OrderInv, Call
<1>11. reply[r] = r => r = Call
  BY <1>1, <1>2, <1>4, <1>5 DEF ReplyInv
<1>12. OwnInv'
  <2>1. \A q \in Requests : pending'[q] # None => Handed(q, pending'[q])
    BY <1>1, <1>2, <1>7, <1>8 DEF OwnInv, Handed
  <2>2. QED
    BY <1>1, <1>3, <2>1 DEF OwnInv, Foreign, Call, Handed, Late
<1>13. OwedInv' /\ ReplyInv'
  <2>1. SUFFICES ASSUME NEW q \in Requests \ lost, pending'[q] # None, reply[q] = q
                 PROVE  Promised(q)
    BY <1>1, <1>3 DEF OwedInv, ReplyInv, Promised
  <2>2. CASE q = r /\ NamesJob(r)
    BY <1>1, <1>2, <1>11, <2>1, <2>2 DEF OwedInv
  <2>3. CASE ~(q = r /\ NamesJob(r))
    BY <1>1, <1>7, <1>8, <2>1, <2>3 DEF OwedInv
  <2>4. QED
    BY <2>2, <2>3
<1>14. QED
  BY <1>6, <1>9, <1>10, <1>12, <1>13 DEF TrackerInv

\* What an item received leaves alone: the entries that wait are owed an event that
\* is not the one just taken.
LEMMA TakenStep ==
    ASSUME TrackerInv, NEW e, NextItem(e), MainOK',
           \A r \in Requests : pending'[r] \in {pending[r], None},
           e.type = "job" => pending'[e.job] = None,
           \A c \in Foreign(channels') : Late(c)
    PROVE  TrackerInv'
<1>1. /\ SwitchOK /\ QueueOK /\ MainOK /\ ServiceOK
      /\ OrderInv /\ ReplyInv /\ OwnInv /\ OwedInv
  BY DEF TrackerInv
<1>2. /\ QueueOK'
      /\ e = queue[1]
      /\ \A i \in 1..Len(queue') : queue'[i] = queue[i + 1] /\ i + 1 \in 1..Len(queue)
      /\ \A i \in 2..Len(queue) : i - 1 \in 1..Len(queue') /\ queue'[i - 1] = queue[i]
  BY <1>1, NextItemTakes
<1>3. /\ pc = "ready" /\ pc' = "ready"
      /\ UNCHANGED <<fs, changes, up, subscribed, refused, jobs, listing>>
      /\ UNCHANGED <<lost, asked, listener, owed, reply, gaveUp>>
  BY DEF NextItem, switchVars, service
<1>4. SwitchOK' /\ ServiceOK'
  BY <1>1, <1>3 DEF SwitchOK, ServiceOK
<1>5. OrderInv'
  BY <1>1, <1>2, <1>3 DEF OrderInv, Call
<1>6. OwnInv'
  <2>1. \A r \in Requests : pending'[r] # None => pending'[r] = pending[r]
    OBVIOUS
  <2>2. \A i \in 1..Len(queue') :
            queue'[i].type = "job" => queue'[i].of \in {asked'[queue'[i].job], None}
    BY <1>1, <1>2, <1>3 DEF OwnInv
  <2>3. QED
    BY <1>1, <1>3, <2>1, <2>2 DEF OwnInv, Handed, Late, Call
<1>7. OwedInv' /\ ReplyInv'
  <2>1. SUFFICES ASSUME NEW r \in Requests \ lost, pending'[r] # None, reply[r] = r
                 PROVE  Promised(r)'
    BY <1>1, <1>3 DEF OwedInv, ReplyInv
  <2>2. Promised(r)
    BY <1>1, <2>1 DEF OwedInv
  <2>3. CASE jobs[r].state \in {"started", "run"}
    BY <1>3, <2>3 DEF Promised
  <2>4. CASE \E i \in 1..Len(queue) : queue[i].type = "job" /\ queue[i].job = r
    <3>1. PICK i \in 1..Len(queue) : queue[i].type = "job" /\ queue[i].job = r
      BY <2>4
    <3>2. i # 1
      BY <1>2, <2>1, <3>1
    <3>3. i \in 2..Len(queue)
      BY <3>1, <3>2
    <3>4. QED
      BY <1>2, <3>1, <3>3 DEF Promised
  <2>5. QED
    BY <2>2, <2>3, <2>4 DEF Promised
<1>8. QED
  BY <1>2, <1>4, <1>5, <1>6, <1>7 DEF TrackerInv

\* main receives an error.
LEMMA ReceiveErrorStep ==
    ASSUME TrackerInv, ReceiveError
    PROVE  TrackerInv'
<1>1. /\ SwitchOK /\ QueueOK /\ MainOK /\ ServiceOK
      /\ OrderInv /\ ReplyInv /\ OwnInv /\ OwedInv
  BY DEF TrackerInv
<1>2. NextItem(QueueFull) /\ UNCHANGED <<todo, channels, pending>>
  BY DEF ReceiveError, tracker
<1>3. UNCHANGED <<pc, asked, gaveUp>>
  BY <1>2 DEF NextItem, service
<1>4. MainOK'
  BY <1>1, <1>2, <1>3 DEF MainOK
<1>5. QueueFull.type # "job"
  BY DEF QueueFull
<1>6. \A c \in Foreign(channels') : Late(c)
  BY <1>1, <1>2 DEF OwnInv
<1>7. \A r \in Requests : pending'[r] \in {pending[r], None}
  BY <1>2
<1>8. QED
  BY <1>2, <1>4, <1>5, <1>6, <1>7, TakenStep

\* main receives an event of a channel, or a dump.
LEMMA ReceiveStep ==
    ASSUME TrackerInv, NEW e, e # QueueFull, ReceiveChannel(e) \/ ReceiveJob(e)
    PROVE  TrackerInv'
<1>1. /\ SwitchOK /\ QueueOK /\ MainOK /\ ServiceOK
      /\ OrderInv /\ ReplyInv /\ OwnInv /\ OwedInv
  BY DEF TrackerInv
<1>2. NextItem(e)
  BY DEF ReceiveChannel, ReceiveJob
<1>3. /\ e \in Item /\ queue # << >> /\ e = queue[1]
  BY <1>1, <1>2, NextItemTakes
<1>4. UNCHANGED <<pc, asked, gaveUp>>
  BY <1>2 DEF NextItem, service
<1>5. channels \in ChannelMap
  BY <1>1 DEF MainOK, ChannelMap
<1>6. CASE ReceiveChannel(e)
  <2>1. /\ e.type \in Kinds /\ channels' = Processed(channels, e)
        /\ todo' = IF e.type = "create" THEN <<e.of>> ELSE << >>
        /\ UNCHANGED pending
    BY <1>6 DEF ReceiveChannel
  <2>2. e \in ChannelEvent
    BY <1>3, <1>6, <2>1 DEF Item, Event, JobEvent, Kinds
  <2>3. e.of \in Channels /\ e.type # "job"
    BY <2>1, <2>2 DEF ChannelEvent, Kinds
  <2>4. channels' \in ChannelMap /\ Foreign(channels') \subseteq Foreign(channels)
    BY <1>5, <2>1, <2>2, ProcessedIsOwn
  <2>5. MainOK'
    BY <1>1, <1>4, <2>1, <2>3, <2>4 DEF MainOK, ChannelMap
  <2>6. /\ \A c \in Foreign(channels') : Late(c)
        /\ \A r \in Requests : pending'[r] \in {pending[r], None}
    BY <1>1, <2>1, <2>4 DEF OwnInv
  <2>7. QED
    BY <1>2, <2>3, <2>5, <2>6, TakenStep
<1>7. CASE ReceiveJob(e)
  <2>1. /\ e.type = "job"
        /\ pending' = [pending EXCEPT ![e.job] = None]
        /\ channels' = IF pending[e.job] = None THEN channels
                       ELSE Dumped(channels, pending[e.job], e)
        /\ UNCHANGED todo
    BY <1>7 DEF ReceiveJob
  <2>2. e \in JobEvent /\ e.job \in Requests
    BY <1>3, <1>7, <2>1 DEF Item, Event, ChannelEvent, JobEvent, Kinds
  <2>3. /\ \A r \in Requests : pending'[r] \in {pending[r], None}
        /\ pending'[e.job] = None
    BY <1>1, <2>1, <2>2 DEF MainOK
  <2>4. channels' \in ChannelMap
    BY <1>1, <1>5, <2>1, <2>2, DumpedIsOwn DEF MainOK
  <2>5. MainOK'
    BY <1>1, <1>4, <2>1, <2>2, <2>4 DEF MainOK, ChannelMap
  <2>6. \A c \in Foreign(channels') : Late(c)
    <3>1. SUFFICES ASSUME pending[e.job] # None
                   PROVE  \A c \in Foreign(channels') : Late(c)
      BY <1>1, <2>1 DEF OwnInv
    <3>2. e.of \in {asked[e.job], None}
      <4>1. 1 \in 1..Len(queue)
        BY <1>1, <1>3 DEF QueueOK
      <4>2. QED
        BY <1>1, <1>3, <2>1, <4>1 DEF OwnInv
    <3>3. pending[e.job] \in Channels
      BY <1>1, <2>2, <3>1 DEF MainOK
    <3>4. PICK k \in 1..Call : reply[k] = e.job /\ asked[k] = pending[e.job]
      BY <1>1, <2>2, <3>1 DEF OwnInv, Handed
    <3>5. CASE k = e.job
      <4>1. Foreign(Dumped(channels, pending[e.job], e)) \subseteq Foreign(channels)
        BY <1>5, <2>2, <3>2, <3>3, <3>4, <3>5, DumpedIsOwn
      <4>2. QED
        BY <1>1, <2>1, <3>1, <4>1 DEF OwnInv
    <3>6. CASE k # e.job
      <4>1. Foreign(Dumped(channels, pending[e.job], e))
              \subseteq Foreign(channels) \cup {pending[e.job]}
        BY <1>5, <2>2, <3>3, DumpedIsOwn
      <4>2. Late(pending[e.job])
        BY <2>2, <3>4, <3>6, RequestsAreNumbers DEF Late
      <4>3. QED
        BY <1>1, <2>1, <3>1, <4>1, <4>2 DEF OwnInv
    <3>7. QED
      BY <3>5, <3>6
  <2>7. QED
    BY <1>2, <2>1, <2>3, <2>5, <2>6, TakenStep
<1>8. QED
  BY <1>6, <1>7

-----------------------------------------------------------------------------
(***************************************************************************)
(* The steps of FreeSWITCH.                                                *)
(***************************************************************************)

\* An event that is dispatched joins the queue, or what it tells of joins lost.
LEMMA DispatchStep ==
    ASSUME TrackerInv, SwitchOK',
           NEW e \in Event, Dispatch(e),
           UNCHANGED <<pc, todo, asked, channels, pending, listener, owed, reply, gaveUp>>,
           UNCHANGED refused,
           e.type = "job" => e.job <= Call /\ e.of \in {asked[e.job], None},
           \A r \in Requests :
               /\ jobs'[r].state = "none" <=> jobs[r].state = "none"
               /\ jobs'[r].dump.of = jobs[r].dump.of
               /\ jobs[r].state \in {"started", "run"} =>
                      \/ jobs'[r].state \in {"started", "run"}
                      \/ e.type = "job" /\ e.job = r
    PROVE  TrackerInv'
<1>1. /\ SwitchOK /\ QueueOK /\ MainOK /\ ServiceOK
      /\ OrderInv /\ ReplyInv /\ OwnInv /\ OwedInv
  BY DEF TrackerInv
<1>2. /\ QueueOK'
      /\ Len(queue) <= Len(queue')
      /\ \A i \in 1..Len(queue) : queue'[i] = queue[i]
      /\ \A i \in (Len(queue) + 1)..Len(queue') : queue'[i] \in {e, QueueFull}
      /\ lost \subseteq lost'
      /\ Subject(e) \in lost' \/ \E i \in 1..Len(queue') : queue'[i] = e
  BY <1>1, DispatchAdds
<1>3. MainOK' /\ ServiceOK'
  BY <1>1 DEF MainOK, ServiceOK
<1>4. Len(queue) \in Nat /\ Len(queue') \in Nat
  BY <1>1, <1>2 DEF QueueOK
<1>5. \A i \in 1..Len(queue') :
          \/ i \in 1..Len(queue) /\ queue'[i] = queue[i]
          \/ queue'[i] = e
          \/ queue'[i].type # "job"
  BY <1>2, <1>4 DEF QueueFull
<1>6. OrderInv'
  BY <1>1, <1>5 DEF OrderInv, Call
<1>7. OwnInv'
  <2>1. \A i \in 1..Len(queue') :
            queue'[i].type = "job" => queue'[i].of \in {asked'[queue'[i].job], None}
    BY <1>1, <1>5 DEF OwnInv
  <2>2. QED
    BY <1>1, <2>1 DEF OwnInv, Foreign, Handed, Late, Call
<1>8. ASSUME NEW r \in Requests \ lost', Promised(r)
      PROVE  Promised(r)'
  <2>1. CASE jobs[r].state \in {"started", "run"}
    <3>1. SUFFICES ASSUME e.type = "job", e.job = r
                   PROVE  Promised(r)'
      BY <1>8, <2>1 DEF Promised
    <3>2. Subject(e) \notin lost'
      BY <1>8, <3>1 DEF Subject
    <3>3. QED
      BY <1>2, <3>1, <3>2 DEF Promised
  <2>2. CASE \E i \in 1..Len(queue) : queue[i].type = "job" /\ queue[i].job = r
    <3>1. PICK i \in 1..Len(queue) : queue[i].type = "job" /\ queue[i].job = r
      BY <2>2
    <3>2. i \in 1..Len(queue') /\ queue'[i] = queue[i]
      BY <1>2, <1>4
    <3>3. QED
      BY <3>1, <3>2 DEF Promised
  <2>3. QED
    BY <1>8, <2>1, <2>2 DEF Promised
<1>9. OwedInv' /\ ReplyInv'
  <2>1. pc \in {"write", "wait"} => Call \in Requests
    BY <1>1 DEF OrderInv
  <2>2. \A r \in Requests \ lost' : pending[r] # None /\ reply[r] = r => Promised(r)'
    BY <1>1, <1>2, <1>8 DEF OwedInv
  <2>3. ASSUME pc = "wait", Call \notin lost', reply[Call] = Call, NamesJob(Call)
        PROVE  Promised(Call)'
    <3>1. PICK k \in Requests : k = Call /\ k = Call'
      BY <2>1, <2>3 DEF Call
    <3>2. Promised(k)
      BY <1>1, <1>2, <2>3, <3>1 DEF OwedInv
    <3>3. Promised(k)'
      BY <1>8, <2>3, <3>1, <3>2
    <3>4. QED
      BY <3>1, <3>3 DEF Promised
  <2>4. Call' = Call /\ (NamesJob(Call))' = NamesJob(Call)
    BY DEF NamesJob, Call
  <2>5. QED
    BY <1>1, <2>2, <2>3, <2>4 DEF OwedInv, ReplyInv
<1>10. QED
  BY <1>2, <1>3, <1>6, <1>7, <1>9 DEF TrackerInv

\* A change of a channel.
LEMMA FreeSwitchStep ==
    ASSUME TrackerInv, FreeSwitch
    PROVE  TrackerInv'
<1>1. /\ SwitchOK /\ QueueOK /\ MainOK /\ ServiceOK
      /\ OrderInv /\ ReplyInv /\ OwnInv /\ OwedInv
  BY DEF TrackerInv
<1>2. /\ SwitchOK'
      /\ UNCHANGED <<up, subscribed, refused, jobs, listing, pc, todo, asked>>
      /\ UNCHANGED <<tracker, service>>
      /\ UNCHANGED queueVars \/ \E e \in ChannelEvent : Dispatch(e)
  BY <1>1, SwitchChanges
<1>3. /\ UNCHANGED <<jobs, refused, pc, todo, asked, channels, pending>>
      /\ UNCHANGED <<listener, owed, reply, gaveUp>>
  BY <1>2 DEF tracker, service
<1>4. CASE \E e \in ChannelEvent : Dispatch(e)
  <2>1. PICK e \in ChannelEvent : Dispatch(e)
    BY <1>4
  <2>2. e \in Event /\ e.type # "job"
    BY <2>1 DEF Event, ChannelEvent, Kinds
  <2>3. QED
    BY <1>2, <1>3, <2>1, <2>2, DispatchStep
<1>5. CASE UNCHANGED queueVars
  <2>1. UNCHANGED <<queue, overflow, lost>>
    BY <1>5 DEF queueVars
  <2>2. QueueOK' /\ MainOK' /\ ServiceOK'
    BY <1>1, <1>3, <2>1 DEF QueueOK, MainOK, ServiceOK
  <2>3. OrderInv' /\ ReplyInv' /\ OwnInv' /\ OwedInv'
    BY <1>1, <1>3, <2>1 DEF OrderInv, ReplyInv, OwnInv, OwedInv, Promised, NamesJob, Call,
         Foreign, Handed, Late
  <2>4. QED
    BY <1>2, <2>2, <2>3 DEF TrackerInv
<1>6. QED
  BY <1>2, <1>4, <1>5

\* Where an answer goes: to the listener, which had none, or nowhere.
LEMMA AnswerHanded ==
    ASSUME MainOK, ServiceOK, OrderInv, ReplyInv, NEW r, Service!Answer(r), UNCHANGED asked
    PROVE  /\ r \in Requests /\ r # None /\ r <= Call
           /\ ServiceOK' /\ ReplyInv'
           /\ owed' = owed \ {r}
           /\ \A q \in Requests : /\ reply[q] # r
                                  /\ reply[q] # None => reply'[q] = reply[q]
                                  /\ reply'[q] \in {reply[q], r}
           /\ \A q \in Requests, x \in Channels : Handed(q, x) => Handed(q, x)'
           /\ \A x \in Channels : Late(x) => Late(x)'
<1>1. /\ r \in owed
      /\ owed' = owed \ {r}
      /\ reply' = IF listener = None THEN reply ELSE [reply EXCEPT ![listener] = r]
      /\ listener' = None
      /\ UNCHANGED gaveUp
  BY DEF Service!Answer
<1>2. r \in Requests /\ r # None /\ r <= Call
  BY <1>1, RequestsAreNumbers DEF ServiceOK, OrderInv
<1>3. ServiceOK'
  BY <1>1, <1>2 DEF ServiceOK
<1>4. \A q \in Requests : /\ reply[q] # r
                          /\ reply[q] # None => reply'[q] = reply[q]
                          /\ reply'[q] \in {reply[q], r}
  BY <1>1, <1>2 DEF ServiceOK, ReplyInv
<1>5. ReplyInv'
  <2>1. ASSUME NEW a \in Requests, NEW b \in Requests, reply'[a] # None, reply'[a] = reply'[b]
        PROVE  a = b
    BY <1>1, <1>4, <2>1 DEF ServiceOK, ReplyInv
  <2>2. ASSUME NEW q \in owed', NEW b \in Requests
        PROVE  reply'[b] # q
    BY <1>1, <1>4, <2>2 DEF ReplyInv
  <2>3. QED
    BY <1>1, <2>1, <2>2 DEF ReplyInv
<1>6. Len(asked) \in Nat
  BY DEF MainOK
<1>7. /\ \A q \in Requests, x \in Channels : Handed(q, x) => Handed(q, x)'
      /\ \A x \in Channels : Late(x) => Late(x)'
  BY <1>4, <1>6, HandedStays
<1>8. QED
  BY <1>1, <1>2, <1>3, <1>4, <1>5, <1>7

\* An answer: that of a bgapi starts its job.
LEMMA AnswerStep ==
    ASSUME TrackerInv, Answer
    PROVE  TrackerInv'
<1>1. /\ SwitchOK /\ QueueOK /\ MainOK /\ ServiceOK
      /\ OrderInv /\ ReplyInv /\ OwnInv /\ OwedInv
  BY DEF TrackerInv
<1> DEFINE rows == {<<c, fs[c].ver>> : c \in {d \in Channels : Live(d)}}
<1>2. PICK r :
          /\ Service!Answer(r)
          /\ subscribed' = (subscribed \/ asked[r] = "events")
          /\ listing' = IF asked[r] = "show" THEN rows ELSE listing
          /\ jobs' = IF asked[r] \in Channels THEN [jobs EXCEPT ![r].state = "started"] ELSE jobs
          /\ UNCHANGED <<fs, changes, up, refused, queue, overflow, lost, pc, todo, asked>>
          /\ UNCHANGED <<channels, pending>>
  BY DEF Answer, queueVars, tracker
<1>3. rows \in SUBSET (Channels \X Nat)
  BY <1>1 DEF SwitchOK
<1> HIDE DEF rows
<1>4. /\ r \in Requests /\ r # None /\ r <= Call
      /\ ServiceOK' /\ ReplyInv'
      /\ owed' = owed \ {r}
      /\ \A q \in Requests : /\ reply[q] # r
                             /\ reply[q] # None => reply'[q] = reply[q]
                             /\ reply'[q] \in {reply[q], r}
      /\ \A q \in Requests, x \in Channels : Handed(q, x) => Handed(q, x)'
      /\ \A x \in Channels : Late(x) => Late(x)'
  BY <1>1, <1>2, AnswerHanded
<1>5. /\ jobs' \in [Requests -> [state : {"none", "started", "run", "told"}, dump : Dump]]
      /\ \A q \in Requests : q # r => jobs'[q] = jobs[q]
      /\ jobs'[r].dump = jobs[r].dump
      /\ asked[r] \in Channels => jobs'[r].state = "started"
      /\ asked[r] \notin Channels => jobs'[r] = jobs[r]
  BY <1>1, <1>2, <1>4 DEF SwitchOK
<1>6. SwitchOK' /\ QueueOK' /\ MainOK'
  BY <1>1, <1>2, <1>3, <1>5 DEF SwitchOK, QueueOK, MainOK
<1>7. OrderInv'
  BY <1>1, <1>2, <1>4, <1>5 DEF OrderInv, Call
<1>8. OwnInv'
  <2>1. \A q \in Requests :
            IF jobs'[q].state = "none" THEN jobs'[q].dump.of = None
            ELSE jobs'[q].dump.of \in {asked'[q], None}
    BY <1>1, <1>2, <1>5 DEF OwnInv
  <2>2. ASSUME NEW q \in Requests, pending[q] # None
        PROVE  Handed(q, pending[q])'
    <3>1. pending[q] \in Channels /\ Handed(q, pending[q])
      BY <1>1, <2>2 DEF OwnInv, MainOK
    <3>2. PICK x \in Channels : x = pending[q] /\ x = pending'[q]
      BY <1>2, <3>1
    <3>3. Handed(q, x)'
      BY <1>4, <3>1, <3>2
    <3>4. QED
      BY <3>2, <3>3 DEF Handed
  <2>3. \A c \in Foreign(channels') : Late(c)'
    BY <1>1, <1>2, <1>4 DEF OwnInv, Foreign
  <2>4. QED
    BY <1>1, <1>2, <2>1, <2>2, <2>3 DEF OwnInv
<1>9. OwedInv'
  <2>1. ASSUME NEW q \in Requests, Promised(q)
        PROVE  Promised(q)'
    BY <1>2, <1>5, <2>1 DEF Promised
  <2>2. asked[r] \in Channels => Promised(r)'
    BY <1>5 DEF Promised
  <2>3. ASSUME NEW q \in Requests \ lost, pending[q] # None, reply'[q] = q
        PROVE  Promised(q)'
    <3>1. q # r
      <4>1. PICK k \in 1..Call : reply[k] = q
        BY <1>1, <2>3 DEF OwnInv, Handed
      <4>2. k \in Requests
        BY <1>1, CallsAreRequests
      <4>3. QED
        BY <1>4, <4>1, <4>2
    <3>2. reply[q] = q
      BY <1>4, <2>3, <3>1
    <3>3. QED
      BY <1>1, <2>1, <2>3, <3>2 DEF OwedInv
  <2>4. ASSUME pc = "wait", Call \notin lost, reply'[Call] = Call, NamesJob(Call)
        PROVE  Promised(Call)'
    <3>1. Call \in Requests
      BY <1>1, <2>4 DEF OrderInv
    <3>2. PICK k \in Requests : k = Call /\ k = Call'
      BY <1>2, <3>1 DEF Call
    <3>3. CASE reply[k] = k
      <4>1. Promised(k)
        BY <1>1, <2>4, <3>2, <3>3 DEF OwedInv
      <4>2. Promised(k)'
        BY <2>1, <4>1
      <4>3. QED
        BY <3>2, <4>2 DEF Promised
    <3>4. CASE reply[k] # k
      <4>1. k = r /\ asked[r] \in Channels
        BY <1>4, <2>4, <3>2, <3>4 DEF NamesJob
      <4>2. Promised(k)'
        BY <2>2, <4>1
      <4>3. QED
        BY <3>2, <4>2 DEF Promised
    <3>5. QED
      BY <3>3, <3>4
  <2>5. Call' = Call /\ (NamesJob(Call))' = NamesJob(Call)
    BY <1>2 DEF NamesJob, Call
  <2>6. QED
    BY <1>2, <2>3, <2>4, <2>5 DEF OwedInv
<1>10. QED
  BY <1>4, <1>6, <1>7, <1>8, <1>9 DEF TrackerInv

\* A rejection: it names no job.
LEMMA RefuseStep ==
    ASSUME TrackerInv, Refuse
    PROVE  TrackerInv'
<1>1. /\ SwitchOK /\ QueueOK /\ MainOK /\ ServiceOK
      /\ OrderInv /\ ReplyInv /\ OwnInv /\ OwedInv
  BY DEF TrackerInv
<1>2. PICK r :
          /\ Service!Answer(r)
          /\ refused' = refused \cup {r}
          /\ UNCHANGED <<fs, changes, up, subscribed, jobs, listing, queue, overflow, lost>>
          /\ UNCHANGED <<pc, todo, asked, channels, pending>>
  BY DEF Refuse, queueVars, tracker
<1>3. /\ r \in Requests /\ r # None /\ r <= Call
      /\ ServiceOK' /\ ReplyInv'
      /\ owed' = owed \ {r}
      /\ \A q \in Requests : /\ reply[q] # r
                             /\ reply[q] # None => reply'[q] = reply[q]
                             /\ reply'[q] \in {reply[q], r}
      /\ \A q \in Requests, x \in Channels : Handed(q, x) => Handed(q, x)'
      /\ \A x \in Channels : Late(x) => Late(x)'
  BY <1>1, <1>2, AnswerHanded
<1>4. SwitchOK' /\ QueueOK' /\ MainOK'
  BY <1>1, <1>2, <1>3 DEF SwitchOK, QueueOK, MainOK
<1>5. OrderInv'
  BY <1>1, <1>2, <1>3 DEF OrderInv, Call
<1>6. OwnInv'
  <2>1. ASSUME NEW q \in Requests, pending[q] # None
        PROVE  Handed(q, pending[q])'
    <3>1. pending[q] \in Channels /\ Handed(q, pending[q])
      BY <1>1, <2>1 DEF OwnInv, MainOK
    <3>2. PICK x \in Channels : x = pending[q] /\ x = pending'[q]
      BY <1>2, <3>1
    <3>3. Handed(q, x)'
      BY <1>3, <3>1, <3>2
    <3>4. QED
      BY <3>2, <3>3 DEF Handed
  <2>2. \A c \in Foreign(channels') : Late(c)'
    BY <1>1, <1>2, <1>3 DEF OwnInv, Foreign
  <2>3. QED
    BY <1>1, <1>2, <2>1, <2>2 DEF OwnInv
<1>7. OwedInv'
  <2>1. \A q \in Requests : Promised(q)' = Promised(q)
    BY <1>2 DEF Promised
  <2>2. ASSUME NEW q \in Requests \ lost, pending[q] # None, reply'[q] = q
        PROVE  Promised(q)'
    <3>1. q # r
      <4>1. PICK k \in 1..Call : reply[k] = q
        BY <1>1, <2>2 DEF OwnInv, Handed
      <4>2. k \in Requests
        BY <1>1, CallsAreRequests
      <4>3. QED
        BY <1>3, <4>1, <4>2
    <3>2. reply[q] = q
      BY <1>3, <2>2, <3>1
    <3>3. QED
      BY <1>1, <2>1, <2>2, <3>2 DEF OwedInv
  <2>3. ASSUME pc = "wait", Call \notin lost, reply'[Call] = Call, (NamesJob(Call))'
        PROVE  Promised(Call)'
    <3>1. Call \in Requests /\ Call' = Call
      BY <1>1, <1>2, <2>3 DEF OrderInv, Call
    <3>2. Call # r /\ NamesJob(Call)
      BY <1>2, <2>3, <3>1 DEF NamesJob
    <3>3. reply[Call] = Call
      BY <1>3, <2>3, <3>1, <3>2
    <3>4. QED
      BY <1>1, <2>1, <2>3, <3>1, <3>2, <3>3 DEF OwedInv
  <2>4. Call' = Call
    BY <1>2 DEF Call
  <2>5. QED
    BY <1>2, <2>2, <2>3, <2>4 DEF OwedInv
<1>8. QED
  BY <1>3, <1>4, <1>5, <1>6, <1>7 DEF TrackerInv

\* A job reads its channel, or tells what it has read.
LEMMA JobStep ==
    ASSUME TrackerInv, NEW r \in Requests, RunJob(r) \/ EndJob(r)
    PROVE  TrackerInv'
<1>1. /\ SwitchOK /\ QueueOK /\ MainOK /\ ServiceOK
      /\ OrderInv /\ ReplyInv /\ OwnInv /\ OwedInv
  BY DEF TrackerInv
<1>2. /\ UNCHANGED <<pc, todo, asked, channels, pending, listener, owed, reply, gaveUp>>
      /\ UNCHANGED refused
  BY DEF RunJob, EndJob, tracker, service
<1>3. CASE RunJob(r)
  <2>1. jobs[r].state = "started" /\ UNCHANGED <<queue, overflow, lost>>
    BY <1>3 DEF RunJob, queueVars
  <2>2. asked[r] \in Channels
    BY <1>1, <2>1 DEF OrderInv
  <2>3. /\ SwitchOK'
        /\ \A q \in Requests : q # r => jobs'[q] = jobs[q]
        /\ jobs'[r].state = "run"
        /\ jobs'[r].dump.of \in {asked[r], None}
    BY <1>1, <1>3, <2>2, JobReads
  <2>4. QueueOK' /\ MainOK' /\ ServiceOK'
    BY <1>1, <1>2, <2>1 DEF QueueOK, MainOK, ServiceOK
  <2>5. OrderInv'
    BY <1>1, <1>2, <2>1, <2>3 DEF OrderInv, Call
  <2>6. OwnInv'
    BY <1>1, <1>2, <2>1, <2>3 DEF OwnInv, Foreign, Handed, Late, Call
  <2>7. \A q \in Requests : Promised(q) => Promised(q)'
    BY <2>1, <2>3 DEF Promised
  <2>8. pc = "wait" => Call \in Requests
    BY <1>1 DEF OrderInv
  <2>9. OwedInv' /\ ReplyInv'
    BY <1>1, <1>2, <2>1, <2>7, <2>8 DEF OwedInv, ReplyInv, NamesJob, Call
  <2>10. QED
    BY <2>3, <2>4, <2>5, <2>6, <2>9 DEF TrackerInv
<1>4. CASE EndJob(r)
  <2>1. /\ SwitchOK'
        /\ \A q \in Requests : /\ q # r => jobs'[q] = jobs[q]
                               /\ jobs'[q].dump = jobs[q].dump
        /\ jobs[r].state = "run" /\ jobs'[r].state = "told"
        /\ \E e \in JobEvent : e.job = r /\ e.of = jobs[r].dump.of /\ Dispatch(e)
    BY <1>1, <1>4, JobTells
  <2>2. PICK e \in JobEvent : e.job = r /\ e.of = jobs[r].dump.of /\ Dispatch(e)
    BY <2>1
  <2>3. e \in Event /\ e.type = "job"
    BY <2>2 DEF Event, JobEvent
  <2>4. e.job <= Call /\ e.of \in {asked[e.job], None}
    BY <1>1, <2>1, <2>2 DEF OrderInv, OwnInv
  <2>5. \A q \in Requests :
            /\ jobs'[q].state = "none" <=> jobs[q].state = "none"
            /\ jobs'[q].dump.of = jobs[q].dump.of
            /\ jobs[q].state \in {"started", "run"} =>
                   \/ jobs'[q].state \in {"started", "run"}
                   \/ e.type = "job" /\ e.job = q
    BY <2>1, <2>2, <2>3
  <2>6. QED
    BY <1>2, <2>1, <2>2, <2>3, <2>4, <2>5, DispatchStep
<1>5. QED
  BY <1>3, <1>4

\* The connection is lost.
LEMMA DisconnectStep ==
    ASSUME TrackerInv, Disconnect
    PROVE  TrackerInv'
<1>1. /\ SwitchOK /\ QueueOK /\ MainOK /\ ServiceOK
      /\ OrderInv /\ ReplyInv /\ OwnInv /\ OwedInv
  BY DEF TrackerInv
<1>2. /\ up' = FALSE /\ owed' = {}
      /\ UNCHANGED <<fs, changes, subscribed, refused, jobs, listing, queue, overflow, lost>>
      /\ UNCHANGED <<pc, todo, asked, channels, pending, listener, reply, gaveUp>>
  BY DEF Disconnect, Service!Lose, queueVars, tracker
<1>3. SwitchOK' /\ QueueOK' /\ MainOK' /\ ServiceOK'
  BY <1>1, <1>2 DEF SwitchOK, QueueOK, MainOK, ServiceOK
<1>4. OrderInv' /\ ReplyInv' /\ OwnInv' /\ OwedInv'
  BY <1>1, <1>2 DEF OrderInv, ReplyInv, OwnInv, OwedInv, Promised, NamesJob, Call,
         Foreign, Handed, Late
<1>5. QED
  BY <1>3, <1>4 DEF TrackerInv

-----------------------------------------------------------------------------
(***************************************************************************)
(* The theorems.                                                           *)
(***************************************************************************)

LEMMA TrackerStep ==
    ASSUME TrackerInv, [Next]_vars
    PROVE  TrackerInv'
<1>1. /\ SwitchOK /\ QueueOK /\ MainOK /\ ServiceOK
      /\ OrderInv /\ ReplyInv /\ OwnInv /\ OwedInv
  BY DEF TrackerInv
<1>2. CASE Subscribe \/ Show
  <2>1. PICK x \in {"events", "show"} : Ask(x) /\ UNCHANGED <<switchVars, queueVars, todo, tracker>>
    BY <1>2 DEF Subscribe, Show
  <2>2. todo' \in Seq(Channels) /\ UNCHANGED <<switchVars, queueVars, tracker>>
    BY <1>1, <2>1 DEF MainOK
  <2>3. QED
    BY <2>1, <2>2, AskStep
<1>3. CASE RequestDump
  <2>1. /\ todo # << >> /\ todo' = Tail(todo) /\ Ask(Head(todo))
        /\ UNCHANGED <<switchVars, queueVars, tracker>>
    BY <1>3 DEF RequestDump
  <2>2. Head(todo) \in Channels /\ todo' \in Seq(Channels)
    BY <1>1, <2>1, HeadTailProperties DEF MainOK
  <2>3. QED
    BY <2>1, <2>2, AskStep
<1>4. CASE \/ Write \/ CallFails \/ CallTimesOut
           \/ SubscribeDone \/ CallRefused \/ ReceiveEnd
  BY <1>4, CallingStep
<1>5. CASE ShowDone
  BY <1>5, ShowStep
<1>6. CASE pc = "wait" /\ DumpStarted
  BY <1>6, DumpStartedStep
<1>7. CASE ReceiveError
  BY <1>7, ReceiveErrorStep
<1>8. CASE \E e : e # QueueFull /\ (ReceiveChannel(e) \/ ReceiveJob(e))
  BY <1>8, ReceiveStep
<1>9. CASE FreeSwitch
  BY <1>9, FreeSwitchStep
<1>10. CASE Answer
  BY <1>10, AnswerStep
<1>11. CASE Job
  BY <1>11, JobStep DEF Job
<1>12. CASE Disconnect
  BY <1>12, DisconnectStep
<1>13. CASE UNCHANGED vars
  <2>1. /\ UNCHANGED <<fs, changes, up, subscribed, refused, jobs, listing, queue, overflow, lost>>
        /\ UNCHANGED <<pc, todo, asked, channels, pending, listener, owed, reply, gaveUp>>
    BY <1>13 DEF vars, switchVars, queueVars, tracker, service
  <2>2. SwitchOK' /\ QueueOK' /\ MainOK' /\ ServiceOK'
    BY <1>1, <2>1 DEF SwitchOK, QueueOK, MainOK, ServiceOK
  <2>3. OrderInv' /\ ReplyInv' /\ OwnInv' /\ OwedInv'
    BY <1>1, <2>1 DEF OrderInv, ReplyInv, OwnInv, OwedInv, Promised, NamesJob, Call,
         Foreign, Handed, Late
  <2>4. QED
    BY <2>2, <2>3 DEF TrackerInv
<1>14. CASE Refuse
  BY <1>14, RefuseStep
<1>15. QED
  BY <1>2, <1>3, <1>4, <1>5, <1>6, <1>7, <1>8, <1>9, <1>10, <1>11, <1>12, <1>13, <1>14
  DEF Next, Main, Calling, Receive

\* The inductive invariant of the tracker, its calls and FreeSWITCH's jobs.
THEOREM TrackerInvariant == Spec => []TrackerInv
  BY TrackerInit, TrackerStep, PTL DEF Spec

\* Type correctness: the maps of channels and of pending dumps hold what they
\* should, and the event queue keeps its bound.
THEOREM TrackerTypeCorrect == Spec => []TypeOK
<1>1. TrackerInv => TypeOK
  BY TypeIsFour DEF TrackerInv
<1>2. QED
  BY <1>1, TrackerInvariant, PTL

\* request_dump, handle_background_job and apply_dump: a job whose reply reached its
\* own call is recorded for the channel it dumps, and no channel is given the data
\* of another unless its own request_dump was handed a late reply.
THEOREM DumpsReachTheirChannel == Spec => []DumpsAreOwn
<1>1. ASSUME TrackerInv
      PROVE  DumpsAreOwn
  <2>1. MainOK /\ ServiceOK /\ ReplyInv /\ OwnInv
    BY <1>1 DEF TrackerInv
  <2>2. ASSUME NEW r \in Requests, pending[r] # None, reply[r] = r
        PROVE  pending[r] = asked[r]
    <3>1. PICK k \in 1..Call : reply[k] = r /\ asked[k] = pending[r]
      BY <2>1, <2>2 DEF OwnInv, Handed
    <3>2. k \in Requests
      BY <2>1, CallsAreRequests
    <3>3. k = r
      BY <2>1, <2>2, <3>1, <3>2, RequestsAreNumbers DEF ReplyInv
    <3>4. QED
      BY <3>1, <3>3
  <2>3. QED
    BY <2>1, <2>2 DEF OwnInv, DumpsAreOwn, Foreign, Late
<1>2. QED
  BY <1>1, TrackerInvariant, PTL

\* pending_dumps: an entry whose reply reached its own call waits for a job that
\* runs or an event that is queued, unless that event was dropped.
THEOREM NoEntryWaitsForNothing == Spec => []PendingIsOwed
<1>1. TrackerInv => PendingIsOwed
  BY DEF TrackerInv, OwedInv, PendingIsOwed, Promised
<1>2. QED
  BY <1>1, TrackerInvariant, PTL

-----------------------------------------------------------------------------
(***************************************************************************)
(* The queue, read for one channel.                                        *)
(***************************************************************************)

\* Where the events of some types about channel c are in queue q.
About(q, c, types) == {i \in 1..Len(q) : q[i].type \in types /\ q[i].of = c}

Types == Kinds \cup {"job"}

\* r is q with e at its end, perhaps behind a notification.
Appended(q, r, e) ==
    /\ Len(q) < Len(r)
    /\ r[Len(r)] = e
    /\ \A i \in 1..(Len(r) - 1) : IF i <= Len(q) THEN r[i] = q[i] ELSE r[i] = QueueFull

\* r is q without its first item e.
Taken(q, r, e) ==
    /\ Len(q) = Len(r) + 1
    /\ q[1] = e
    /\ \A i \in 1..Len(r) : r[i] = q[i + 1]

\* What an event does that is dropped: it may still let a notification in.
Dropped(q, r) == r = q \/ Appended(q, r, QueueFull)

\* dispatch_event either loses an event or puts it behind the others.
LEMMA DispatchAppends ==
    ASSUME QueueOK, NEW e \in Event, Dispatch(e)
    PROVE  /\ QueueOK' /\ lost \subseteq lost'
           /\ \/ Appended(queue, queue', e) /\ lost' = lost
              \/ Dropped(queue, queue') /\ lost' = lost \cup {Subject(e)}
<1>1. QueueOK' /\ lost \subseteq lost'
  BY DispatchAdds
<1> DEFINE notify == overflow /\ Len(queue) < QueueSize
           told == IF notify THEN Append(queue, QueueFull) ELSE queue
           room == Len(told) < QueueSize
<1>2. queue \in Seq(Item) /\ Len(queue) \in Nat /\ QueueFull \in Item /\ e \in Item
  BY DEF QueueOK, Item
<1>3. /\ told \in Seq(Item) /\ Len(told) \in Nat /\ Len(queue) <= Len(told)
      /\ \A i \in 1..Len(told) : IF i <= Len(queue) THEN told[i] = queue[i]
                                 ELSE told[i] = QueueFull
  <2>1. CASE notify
    <3>1. told = Append(queue, QueueFull)
      BY <2>1
    <3>2. QED
      BY <1>2, <3>1, AppendProperties
  <2>2. CASE ~notify
    BY <1>2, <2>2
  <2>3. QED
    BY <2>1, <2>2
<1>4. /\ queue' = IF room THEN Append(told, e) ELSE told
      /\ lost' = IF room THEN lost ELSE lost \cup {Subject(e)}
  BY DEF Dispatch
<1>5. CASE room
  <2>1. queue' = Append(told, e) /\ lost' = lost
    BY <1>4, <1>5
  <2> HIDE DEF told
  <2>2. /\ Len(queue') = Len(told) + 1 /\ queue'[Len(told) + 1] = e
        /\ \A i \in 1..Len(told) : queue'[i] = told[i]
    BY <1>2, <1>3, <2>1, AppendProperties
  <2>3. Len(queue) < Len(queue') /\ Len(queue') - 1 = Len(told)
    BY <1>2, <1>3, <2>2
  <2>4. queue'[Len(queue')] = e
    BY <2>2
  <2>5. Appended(queue, queue', e)
    BY <1>3, <2>2, <2>3, <2>4 DEF Appended
  <2>6. QED
    BY <1>1, <2>1, <2>5
<1>6. CASE ~room
  <2>1. queue' = told /\ lost' = lost \cup {Subject(e)}
    BY <1>4, <1>6
  <2>2. CASE notify
    <3>1. queue' = Append(queue, QueueFull)
      BY <2>1, <2>2
    <3>2. /\ Len(queue') = Len(queue) + 1 /\ queue'[Len(queue')] = QueueFull
          /\ \A i \in 1..Len(queue) : queue'[i] = queue[i]
      BY <1>2, <3>1, AppendProperties
    <3>3. Appended(queue, queue', QueueFull)
      BY <1>2, <3>2 DEF Appended
    <3>4. QED
      BY <1>1, <2>1, <3>3 DEF Dropped
  <2>3. CASE ~notify
    BY <1>1, <2>1, <2>3 DEF Dropped
  <2>4. QED
    BY <2>2, <2>3
<1>7. QED
  BY <1>5, <1>6

\* recv() takes the first item.
LEMMA NextItemIsTaken ==
    ASSUME QueueOK, NEW e, NextItem(e)
    PROVE  QueueOK' /\ e \in Item /\ Taken(queue, queue', e)
<1>1. QueueOK' /\ e \in Item /\ queue # << >> /\ e = queue[1]
  BY NextItemTakes
<1>2. queue \in Seq(Item) /\ queue' = Tail(queue)
  BY DEF QueueOK, NextItem
<1>3. Len(queue') = Len(queue) - 1 /\ \A i \in 1..Len(queue') : queue'[i] = queue[i + 1]
  BY <1>1, <1>2, HeadTailProperties
<1>4. Len(queue) \in Nat
  BY <1>2
<1>5. QED
  BY <1>1, <1>3, <1>4 DEF Taken

\* What is queued about a channel after an event was put in ...
LEMMA AboutAppended ==
    ASSUME NEW q \in Seq(Item), NEW r \in Seq(Item), NEW e, Appended(q, r, e),
           NEW c, NEW types \in SUBSET Types
    PROVE  /\ About(r, c, types) = About(q, c, types)
                 \cup (IF e.type \in types /\ e.of = c THEN {Len(r)} ELSE {})
           /\ \A i \in About(q, c, types) : i \in Nat /\ i < Len(r) /\ r[i] = q[i]
           /\ Len(r) \in Nat /\ r[Len(r)] = e
<1>1. Len(q) \in Nat /\ Len(r) \in Nat /\ Len(q) < Len(r) /\ r[Len(r)] = e
  BY DEF Appended
<1>2. QueueFull.type \notin types
  BY DEF QueueFull, Types, Kinds
<1>3. \A i \in 1..Len(q) : i < Len(r) /\ i \in 1..Len(r) /\ r[i] = q[i]
  BY <1>1 DEF Appended
<1>4. \A i \in 1..Len(r) : i \in 1..Len(q) \/ i = Len(r) \/ r[i] = QueueFull
  BY <1>1 DEF Appended
<1>5. \A i : i \in About(r, c, types)
             <=> i \in About(q, c, types) \/ (i = Len(r) /\ e.type \in types /\ e.of = c)
  <2>1. TAKE i
  <2>2. CASE i \in 1..Len(q)
    <3>1. i # Len(r) /\ i \in 1..Len(r) /\ r[i] = q[i]
      BY <1>1, <1>3, <2>2
    <3>2. QED
      BY <2>2, <3>1 DEF About
  <2>3. CASE i = Len(r)
    <3>1. i \notin 1..Len(q) /\ i \in 1..Len(r)
      BY <1>1, <2>3
    <3>2. QED
      BY <1>1, <2>3, <3>1 DEF About
  <2>4. CASE i \notin 1..Len(q) /\ i # Len(r)
    BY <1>2, <1>4, <2>4 DEF About
  <2>5. QED
    BY <2>2, <2>3, <2>4
<1>6. QED
  BY <1>1, <1>3, <1>5 DEF About

\* ... and after the first item was taken.
LEMMA AboutTaken ==
    ASSUME NEW q \in Seq(Item), NEW r \in Seq(Item), NEW e, Taken(q, r, e),
           NEW c, NEW types
    PROVE  /\ \A i \in About(r, c, types) :
                  i \in Nat /\ i + 1 \in About(q, c, types) /\ r[i] = q[i + 1]
           /\ \A i \in About(q, c, types) :
                  /\ i \in Nat
                  /\ i # 1 => i - 1 \in About(r, c, types) /\ r[i - 1] = q[i] /\ i > 1
           /\ e.type \in types /\ e.of = c <=> 1 \in About(q, c, types)
           /\ q[1] = e
<1>1. /\ Len(q) \in Nat /\ Len(r) \in Nat /\ Len(q) = Len(r) + 1 /\ q[1] = e
      /\ \A i \in 1..Len(r) : r[i] = q[i + 1]
  BY DEF Taken
<1>2. \A i \in 1..Len(r) : i \in Nat /\ i + 1 \in 1..Len(q)
  BY <1>1
<1>3. \A i \in About(r, c, types) :
          i \in Nat /\ i + 1 \in About(q, c, types) /\ r[i] = q[i + 1]
  BY <1>1, <1>2 DEF About
<1>4. ASSUME NEW i \in About(q, c, types), i # 1
      PROVE  i - 1 \in About(r, c, types) /\ r[i - 1] = q[i] /\ i > 1
  <2>1. i \in 1..Len(q)
    BY DEF About
  <2>2. i - 1 \in 1..Len(r) /\ (i - 1) + 1 = i /\ i > 1
    BY <1>1, <1>4, <2>1
  <2>3. r[i - 1] = q[i]
    BY <1>1, <2>2
  <2>4. QED
    BY <2>2, <2>3 DEF About
<1>5. e.type \in types /\ e.of = c <=> 1 \in About(q, c, types)
  BY <1>1 DEF About
<1>6. \A i \in About(q, c, types) : i \in Nat
  BY DEF About
<1>7. QED
  BY <1>1, <1>3, <1>4, <1>5, <1>6

-----------------------------------------------------------------------------
(***************************************************************************)
(* What the queue, an entry ch of the map and a dump d may say about       *)
(* channel c while FreeSWITCH has it in state now.                         *)
(***************************************************************************)

FsChannel == [life : {"unborn", "live", "gone"}, ver : Nat, leg : BOOLEAN]

Entry == TrackedChannel \cup {None}

News == {"create", "destroy"}

LastAbout(q, c, types, i) == \A j \in About(q, c, types) : j <= i

\* The last of the news says whether the channel is live.
NewsOK(q, c, live) ==
    \A i \in About(q, c, News) : LastAbout(q, c, News, i) => (q[i].type = "create") = live

\* The versions go up to the present one, and who is told to be bridged is, or
\* will be told not to be.
EventsOK(q, c, now) ==
    /\ \A i \in About(q, c, Kinds) :
           /\ q[i].ver <= now.ver
           /\ \A j \in About(q, c, Kinds) : i < j => q[i].ver <= q[j].ver
           /\ LastAbout(q, c, Kinds, i) => q[i].ver = now.ver
    /\ \A i \in About(q, c, Kinds \ {"unbridge"}) :
           q[i].leg => now.leg \/ \E j \in About(q, c, {"unbridge"}) : j > i

\* No older dump was merged over the entry, and no dump of another channel.
Sound(ch) == ch # None /\ ~ch.old /\ ~ch.foreign

EntryOK(q, c, ch, now) ==
    Sound(ch) =>
        /\ About(q, c, Kinds) = {} => ch.ver = now.ver
        /\ About(q, c, {"unbridge"}) = {} => (ch.leg => now.leg)

\* Merging d into the entry, when its turn comes, will count as old.
Overtaken(q, c, ch, d) ==
    \/ \E j \in About(q, c, {"unbridge"}) : q[j].ver > d.ver
    \/ /\ Sound(ch) => ch.ver > d.ver
       /\ \A j \in About(q, c, Kinds) : q[j].ver > d.ver

\* A dump is of a version that was, and if it tells of a bridge that is no more, the
\* end of that bridge has overtaken it.
DumpOK(q, c, ch, now, d) ==
    /\ d.ver <= now.ver
    /\ d.leg /\ ~now.leg => d.ver < now.ver /\ Overtaken(q, c, ch, d)

\* Events have versions.
LEMMA AboutTypes ==
    ASSUME NEW q \in Seq(Item), NEW c, NEW types \in SUBSET Kinds, NEW i \in About(q, c, types)
    PROVE  /\ i \in Nat /\ i \in About(q, c, Kinds)
           /\ q[i] \in ChannelEvent /\ q[i].ver \in Nat /\ q[i].leg \in BOOLEAN
           /\ q[i].type \in types /\ q[i].of = c
<1>1. i \in 1..Len(q) /\ i \in Nat /\ q[i].type \in types /\ q[i].of = c
  BY DEF About
<1>2. q[i] \in ChannelEvent \cup JobEvent \cup {QueueFull}
  BY <1>1 DEF Item, Event
<1>3. q[i].type # "job" /\ q[i].type # "QueueFull" /\ q[i].type \in Kinds
  BY <1>1 DEF Kinds
<1>4. q[i] \in ChannelEvent
  BY <1>2, <1>3 DEF JobEvent, QueueFull
<1>5. QED
  BY <1>1, <1>3, <1>4 DEF About, ChannelEvent

-----------------------------------------------------------------------------
(***************************************************************************)
(* An event joins the queue.                                               *)
(***************************************************************************)

\* One that is not of the channel changes nothing for it, nor does one that is not
\* let in.
LEMMA OthersAppended ==
    ASSUME NEW q \in Seq(Item), NEW r \in Seq(Item), NEW e, r = q \/ Appended(q, r, e),
           NEW c, ~(e.type \in Kinds /\ e.of = c)
    PROVE  /\ \A live : NewsOK(q, c, live) => NewsOK(r, c, live)
           /\ About(r, c, News) = About(q, c, News)
           /\ About(r, c, Kinds) = About(q, c, Kinds)
           /\ \A now : EventsOK(q, c, now) => EventsOK(r, c, now)
           /\ \A ch, now : EntryOK(q, c, ch, now) => EntryOK(r, c, ch, now)
           /\ \A ch, now, d : DumpOK(q, c, ch, now, d) => DumpOK(r, c, ch, now, d)
<1>1. \A types \in SUBSET Kinds :
          /\ About(r, c, types) = About(q, c, types)
          /\ \A i \in About(q, c, types) : r[i] = q[i]
  <2>1. TAKE types \in SUBSET Kinds
  <2>2. types \in SUBSET Types
    BY DEF Types
  <2>3. ~(e.type \in types /\ e.of = c)
    OBVIOUS
  <2>4. SUFFICES ASSUME Appended(q, r, e)
                 PROVE  /\ About(r, c, types) = About(q, c, types)
                        /\ \A i \in About(q, c, types) : r[i] = q[i]
    OBVIOUS
  <2>5. /\ About(r, c, types) = About(q, c, types)
              \cup (IF e.type \in types /\ e.of = c THEN {Len(r)} ELSE {})
        /\ \A i \in About(q, c, types) : r[i] = q[i]
    BY <2>2, <2>4, AboutAppended
  <2>6. QED
    BY <2>3, <2>5
<1>2. /\ News \in SUBSET Kinds /\ Kinds \in SUBSET Kinds /\ {"unbridge"} \in SUBSET Kinds
      /\ Kinds \ {"unbridge"} \in SUBSET Kinds
  BY DEF News, Kinds
<1>3. \A live : NewsOK(q, c, live) => NewsOK(r, c, live)
  BY <1>1, <1>2 DEF NewsOK, LastAbout
<1>4. \A now : EventsOK(q, c, now) => EventsOK(r, c, now)
  BY <1>1, <1>2 DEF EventsOK, LastAbout
<1>5. \A ch, now : EntryOK(q, c, ch, now) => EntryOK(r, c, ch, now)
  BY <1>1, <1>2 DEF EntryOK
<1>6. \A ch, now, d : DumpOK(q, c, ch, now, d) => DumpOK(r, c, ch, now, d)
  BY <1>1, <1>2 DEF DumpOK, Overtaken
<1>7. QED
  BY <1>1, <1>2, <1>3, <1>4, <1>5, <1>6

\* The news of the channel.
LEMMA NewsAppended ==
    ASSUME NEW q \in Seq(Item), NEW r \in Seq(Item), NEW e, Appended(q, r, e),
           NEW c, e.type \in Kinds, e.of = c, NEW live, NEW soon,
           NewsOK(q, c, live),
           IF e.type \in News THEN (e.type = "create") = soon ELSE live = soon
    PROVE  /\ NewsOK(r, c, soon)
           /\ About(r, c, News) = {} => About(q, c, News) = {} /\ e.type \notin News
<1>1. News \in SUBSET Types
  BY DEF News, Types, Kinds
<1>2. /\ About(r, c, News) = About(q, c, News) \cup (IF e.type \in News THEN {Len(r)} ELSE {})
      /\ \A i \in About(q, c, News) : i \in Nat /\ i < Len(r) /\ r[i] = q[i]
      /\ Len(r) \in Nat /\ r[Len(r)] = e
  BY <1>1, AboutAppended
<1>3. CASE e.type \in News
  <2>1. Len(r) \in About(r, c, News)
    BY <1>2, <1>3
  <2>2. \A i \in About(r, c, News) : LastAbout(r, c, News, i) => i = Len(r)
    BY <1>2, <2>1 DEF LastAbout
  <2>3. QED
    BY <1>2, <1>3, <2>1, <2>2 DEF NewsOK
<1>4. CASE e.type \notin News
  <2>1. About(r, c, News) = About(q, c, News)
    BY <1>2, <1>4
  <2>2. QED
    BY <1>2, <1>4, <2>1 DEF NewsOK, LastAbout
<1>5. QED
  BY <1>3, <1>4

\* The event of a change of the channel from state now to state next.
ChangeOf(e, c, now, next) ==
    /\ e \in ChannelEvent /\ e.of = c /\ e.type # "destroy"
    /\ e.ver = next.ver /\ e.leg = (now.leg \/ next.leg)
    /\ IF e.type = "create" THEN next.ver = now.ver ELSE next.ver = now.ver + 1
    /\ e.type # "unbridge" /\ now.leg => next.leg

LEMMA EventsAppended ==
    ASSUME NEW q \in Seq(Item), NEW r \in Seq(Item), NEW e, Appended(q, r, e),
           NEW c, NEW now \in FsChannel, NEW next \in FsChannel,
           ChangeOf(e, c, now, next), EventsOK(q, c, now)
    PROVE  EventsOK(r, c, next)
<1>1. e.type \in Kinds /\ e.of = c /\ e.ver \in Nat
  BY DEF ChangeOf, ChannelEvent
<1>2. /\ Kinds \in SUBSET Types /\ {"unbridge"} \in SUBSET Types
      /\ Kinds \ {"unbridge"} \in SUBSET Types
      /\ {"unbridge"} \in SUBSET Kinds /\ Kinds \ {"unbridge"} \in SUBSET Kinds
  BY DEF Types, Kinds
<1>3. /\ About(r, c, Kinds) = About(q, c, Kinds) \cup {Len(r)}
      /\ \A i \in About(q, c, Kinds) : i \in Nat /\ i < Len(r) /\ r[i] = q[i]
      /\ Len(r) \in Nat /\ r[Len(r)] = e
  <2>1. About(r, c, Kinds) = About(q, c, Kinds)
            \cup (IF e.type \in Kinds /\ e.of = c THEN {Len(r)} ELSE {})
    BY <1>2, AboutAppended
  <2>2. /\ \A i \in About(q, c, Kinds) : i \in Nat /\ i < Len(r) /\ r[i] = q[i]
        /\ Len(r) \in Nat /\ r[Len(r)] = e
    BY <1>2, AboutAppended
  <2>3. QED
    BY <1>1, <2>1, <2>2
<1>4. \A i \in About(q, c, Kinds) : q[i].ver \in Nat /\ q[i].leg \in BOOLEAN
  BY AboutTypes
<1>5. now.ver \in Nat /\ next.ver \in Nat /\ now.ver <= next.ver /\ e.ver = next.ver
  BY DEF FsChannel, ChangeOf
<1>6. ASSUME NEW i \in About(r, c, Kinds)
      PROVE  /\ r[i].ver <= next.ver
             /\ \A j \in About(r, c, Kinds) : i < j => r[i].ver <= r[j].ver
             /\ LastAbout(r, c, Kinds, i) => r[i].ver = next.ver
  <2>1. CASE i = Len(r)
    BY <1>3, <1>5, <2>1
  <2>2. CASE i \in About(q, c, Kinds)
    <3>1. r[i] = q[i] /\ q[i].ver \in Nat /\ q[i].ver <= now.ver
      BY <1>3, <1>4, <2>2 DEF EventsOK
    <3>2. r[i].ver <= next.ver
      BY <1>5, <3>1
    <3>3. \A j \in About(q, c, Kinds) : i < j => r[i].ver <= r[j].ver
      BY <1>3, <2>2 DEF EventsOK
    <3>4. ~LastAbout(r, c, Kinds, i)
      BY <1>3, <2>2 DEF LastAbout
    <3>5. QED
      BY <1>3, <1>5, <3>2, <3>3, <3>4
  <2>3. QED
    BY <1>3, <2>1, <2>2
<1>7. ASSUME NEW i \in About(r, c, Kinds \ {"unbridge"}), r[i].leg
      PROVE  next.leg \/ \E j \in About(r, c, {"unbridge"}) : j > i
  <2>1. About(r, c, Kinds \ {"unbridge"}) = About(q, c, Kinds \ {"unbridge"})
            \cup (IF e.type \in Kinds \ {"unbridge"} /\ e.of = c THEN {Len(r)} ELSE {})
    BY <1>2, AboutAppended
  <2>2. About(r, c, {"unbridge"}) = About(q, c, {"unbridge"})
            \cup (IF e.type \in {"unbridge"} /\ e.of = c THEN {Len(r)} ELSE {})
    BY <1>2, AboutAppended
  <2>3. next.leg \in BOOLEAN /\ now.leg \in BOOLEAN
    BY DEF FsChannel
  <2>4. CASE i \in About(q, c, Kinds \ {"unbridge"})
    <3>1. i \in About(q, c, Kinds)
      BY <2>4 DEF About
    <3>2. r[i] = q[i] /\ i < Len(r)
      BY <1>3, <3>1
    <3>3. now.leg \/ \E j \in About(q, c, {"unbridge"}) : j > i
      BY <1>7, <2>4, <3>2 DEF EventsOK
    <3>4. CASE e.type = "unbridge"
      BY <1>1, <2>2, <3>2, <3>4, <1>3
    <3>5. CASE e.type # "unbridge"
      BY <2>2, <3>3, <3>5 DEF ChangeOf
    <3>6. QED
      BY <3>4, <3>5
  <2>5. CASE i \notin About(q, c, Kinds \ {"unbridge"})
    <3>1. i = Len(r) /\ e.type # "unbridge"
      BY <2>1, <2>5
    <3>2. now.leg \/ next.leg
      BY <1>3, <1>7, <3>1 DEF ChangeOf
    <3>3. QED
      BY <2>3, <3>1, <3>2 DEF ChangeOf
  <2>6. QED
    BY <2>4, <2>5
<1>8. QED
  BY <1>6, <1>7 DEF EventsOK

LEMMA EntryAppended ==
    ASSUME NEW q \in Seq(Item), NEW r \in Seq(Item), NEW e, Appended(q, r, e),
           NEW c, NEW now \in FsChannel, NEW next \in FsChannel, NEW ch \in Entry,
           ChangeOf(e, c, now, next), EntryOK(q, c, ch, now)
    PROVE  EntryOK(r, c, ch, next)
<1>1. e.type \in Kinds /\ e.of = c
  BY DEF ChangeOf, ChannelEvent
<1>2. Kinds \in SUBSET Types /\ {"unbridge"} \in SUBSET Types
  BY DEF Types, Kinds
<1>3. About(r, c, Kinds) # {}
  BY <1>1, <1>2, AboutAppended
<1>4. About(r, c, {"unbridge"}) = {} =>
          About(q, c, {"unbridge"}) = {} /\ e.type # "unbridge"
  BY <1>1, <1>2, AboutAppended
<1>5. now.leg /\ e.type # "unbridge" => next.leg
  BY DEF ChangeOf
<1>6. QED
  BY <1>3, <1>4, <1>5 DEF EntryOK

LEMMA DumpAppended ==
    ASSUME NEW q \in Seq(Item), NEW r \in Seq(Item), NEW e, Appended(q, r, e),
           NEW c, NEW now \in FsChannel, NEW next \in FsChannel, NEW ch \in Entry,
           NEW d, d.ver \in Nat,
           ChangeOf(e, c, now, next), e.type # "create", DumpOK(q, c, ch, now, d)
    PROVE  DumpOK(r, c, ch, next, d)
<1>1. e.type \in Kinds /\ e.of = c
  BY DEF ChangeOf, ChannelEvent
<1>2. Kinds \in SUBSET Types /\ {"unbridge"} \in SUBSET Types
  BY DEF Types, Kinds
<1>3. /\ now.ver \in Nat /\ next.ver = now.ver + 1 /\ e.ver = next.ver
      /\ now.leg \in BOOLEAN /\ next.leg \in BOOLEAN
  BY DEF FsChannel, ChangeOf
<1>4. d.ver <= now.ver /\ d.ver < next.ver /\ e.ver > d.ver
  BY <1>3 DEF DumpOK
<1>5. /\ About(r, c, Kinds) = About(q, c, Kinds) \cup {Len(r)}
      /\ \A i \in About(q, c, Kinds) : r[i] = q[i]
      /\ r[Len(r)] = e
  BY <1>1, <1>2, AboutAppended
<1>6. /\ About(r, c, {"unbridge"}) = About(q, c, {"unbridge"})
            \cup (IF e.type \in {"unbridge"} /\ e.of = c THEN {Len(r)} ELSE {})
      /\ \A i \in About(q, c, {"unbridge"}) : r[i] = q[i]
  BY <1>2, AboutAppended
<1>7. ASSUME d.leg, ~next.leg
      PROVE  Overtaken(r, c, ch, d)
  <2>1. CASE e.type = "unbridge"
    BY <1>1, <1>4, <1>5, <1>6, <2>1 DEF Overtaken
  <2>2. CASE e.type # "unbridge"
    <3>1. ~now.leg
      BY <1>7, <2>2 DEF ChangeOf
    <3>2. Overtaken(q, c, ch, d)
      BY <1>7, <3>1 DEF DumpOK
    <3>3. CASE \E j \in About(q, c, {"unbridge"}) : q[j].ver > d.ver
      BY <1>6, <3>3 DEF Overtaken
    <3>4. CASE /\ Sound(ch) => ch.ver > d.ver
               /\ \A j \in About(q, c, Kinds) : q[j].ver > d.ver
      BY <1>4, <1>5, <3>4 DEF Overtaken
    <3>5. QED
      BY <3>2, <3>3, <3>4 DEF Overtaken
  <2>3. QED
    BY <2>1, <2>2
<1>8. QED
  BY <1>3, <1>4, <1>7 DEF DumpOK

-----------------------------------------------------------------------------
(***************************************************************************)
(* The first item is taken from the queue.                                 *)
(***************************************************************************)

\* What is said of the last event goes on to be said of it.
LEMMA LastTaken ==
    ASSUME NEW q \in Seq(Item), NEW r \in Seq(Item), NEW e, Taken(q, r, e),
           NEW c, NEW types, NEW i \in About(r, c, types), LastAbout(r, c, types, i)
    PROVE  LastAbout(q, c, types, i + 1)
<1>1. i \in Nat
  BY AboutTaken
<1>2. SUFFICES ASSUME NEW j \in About(q, c, types)
               PROVE  j <= i + 1
  BY DEF LastAbout
<1>3. j \in Nat /\ (j # 1 => j - 1 \in About(r, c, types))
  BY AboutTaken
<1>4. CASE j = 1
  BY <1>1, <1>4
<1>5. CASE j # 1
  <2>1. j - 1 <= i
    BY <1>3, <1>5 DEF LastAbout
  <2>2. QED
    BY <1>1, <1>3, <2>1
<1>6. QED
  BY <1>4, <1>5

LEMMA NewsTaken ==
    ASSUME NEW q \in Seq(Item), NEW r \in Seq(Item), NEW e, Taken(q, r, e),
           NEW c, NEW live, NewsOK(q, c, live)
    PROVE  NewsOK(r, c, live)
<1>1. SUFFICES ASSUME NEW i \in About(r, c, News), LastAbout(r, c, News, i)
               PROVE  (r[i].type = "create") = live
  BY DEF NewsOK
<1>2. i + 1 \in About(q, c, News) /\ r[i] = q[i + 1]
  BY AboutTaken
<1>3. LastAbout(q, c, News, i + 1)
  BY <1>1, LastTaken
<1>4. QED
  BY <1>2, <1>3 DEF NewsOK

LEMMA EventsTaken ==
    ASSUME NEW q \in Seq(Item), NEW r \in Seq(Item), NEW e, Taken(q, r, e),
           NEW c, NEW now \in FsChannel, EventsOK(q, c, now)
    PROVE  EventsOK(r, c, now)
<1>1. \A i \in About(r, c, Kinds) :
          i \in Nat /\ i + 1 \in About(q, c, Kinds) /\ r[i] = q[i + 1]
  BY AboutTaken
<1>2. ASSUME NEW i \in About(r, c, Kinds)
      PROVE  /\ r[i].ver <= now.ver
             /\ \A j \in About(r, c, Kinds) : i < j => r[i].ver <= r[j].ver
             /\ LastAbout(r, c, Kinds, i) => r[i].ver = now.ver
  <2>1. r[i].ver <= now.ver
    BY <1>1 DEF EventsOK
  <2>2. ASSUME NEW j \in About(r, c, Kinds), i < j
        PROVE  r[i].ver <= r[j].ver
    <3>1. i + 1 < j + 1
      BY <1>1, <2>2
    <3>2. QED
      BY <1>1, <3>1 DEF EventsOK
  <2>3. LastAbout(r, c, Kinds, i) => r[i].ver = now.ver
    BY <1>1, LastTaken DEF EventsOK
  <2>4. QED
    BY <2>1, <2>2, <2>3
<1>3. ASSUME NEW i \in About(r, c, Kinds \ {"unbridge"}), r[i].leg
      PROVE  now.leg \/ \E j \in About(r, c, {"unbridge"}) : j > i
  <2>1. /\ i \in Nat
        /\ i + 1 \in About(q, c, Kinds \ {"unbridge"}) /\ r[i] = q[i + 1]
    BY AboutTaken
  <2>2. now.leg \/ \E j \in About(q, c, {"unbridge"}) : j > i + 1
    BY <1>3, <2>1 DEF EventsOK
  <2>3. ASSUME NEW j \in About(q, c, {"unbridge"}), j > i + 1
        PROVE  j - 1 \in About(r, c, {"unbridge"}) /\ j - 1 > i
    <3>1. j \in Nat /\ (j # 1 => j - 1 \in About(r, c, {"unbridge"}))
      BY AboutTaken
    <3>2. j # 1 /\ j - 1 > i
      BY <2>1, <2>3, <3>1
    <3>3. QED
      BY <3>1, <3>2
  <2>4. QED
    BY <2>2, <2>3
<1>4. QED
  BY <1>2, <1>3 DEF EventsOK

\* An entry x that replaces ch is at least as new, if it can be relied on.
Newer(x, ch) == Sound(x) => Sound(ch) /\ x.ver >= ch.ver

\* An item that is no event of the channel moves the others up.
LEMMA OthersTaken ==
    ASSUME NEW q \in Seq(Item), NEW r \in Seq(Item), NEW e, Taken(q, r, e),
           NEW c, ~(e.type \in Kinds /\ e.of = c), NEW types, types \subseteq Kinds
    PROVE  /\ \A j \in About(q, c, types) : j - 1 \in About(r, c, types) /\ r[j - 1] = q[j]
           /\ \A i \in About(r, c, types) : i + 1 \in About(q, c, types) /\ r[i] = q[i + 1]
<1>1. 1 \notin About(q, c, types)
  BY AboutTaken
<1>2. \A j \in About(q, c, types) : j - 1 \in About(r, c, types) /\ r[j - 1] = q[j]
  BY <1>1, AboutTaken
<1>3. \A i \in About(r, c, types) : i + 1 \in About(q, c, types) /\ r[i] = q[i + 1]
  BY AboutTaken
<1>4. QED
  BY <1>2, <1>3

LEMMA DumpTaken ==
    ASSUME NEW q \in Seq(Item), NEW r \in Seq(Item), NEW e, Taken(q, r, e),
           NEW c, ~(e.type \in Kinds /\ e.of = c),
           NEW now \in FsChannel, NEW ch \in Entry, NEW x \in Entry, Newer(x, ch),
           NEW d, d.ver \in Nat, DumpOK(q, c, ch, now, d)
    PROVE  DumpOK(r, c, x, now, d)
<1>1. {"unbridge"} \subseteq Kinds /\ Kinds \subseteq Kinds
  BY DEF Kinds
<1>2. /\ \A j \in About(q, c, {"unbridge"}) :
             j - 1 \in About(r, c, {"unbridge"}) /\ r[j - 1] = q[j]
      /\ \A i \in About(r, c, Kinds) : i + 1 \in About(q, c, Kinds) /\ r[i] = q[i + 1]
  <2>1. \A j \in About(q, c, {"unbridge"}) :
            j - 1 \in About(r, c, {"unbridge"}) /\ r[j - 1] = q[j]
    BY <1>1, OthersTaken, SMTT(30)
  <2>2. \A i \in About(r, c, Kinds) : i + 1 \in About(q, c, Kinds) /\ r[i] = q[i + 1]
    BY <1>1, OthersTaken
  <2>3. QED
    BY <2>1, <2>2
<1>3. ASSUME Overtaken(q, c, ch, d)
      PROVE  Overtaken(r, c, x, d)
  <2>1. CASE \E j \in About(q, c, {"unbridge"}) : q[j].ver > d.ver
    BY <1>2, <2>1 DEF Overtaken
  <2>2. CASE /\ Sound(ch) => ch.ver > d.ver
             /\ \A j \in About(q, c, Kinds) : q[j].ver > d.ver
    <3>1. ASSUME Sound(x)
          PROVE  x.ver > d.ver
      <4>1. Sound(ch) /\ x.ver >= ch.ver /\ ch.ver > d.ver
        BY <2>2, <3>1 DEF Newer
      <4>2. x.ver \in Nat /\ ch.ver \in Nat
        BY <3>1, <4>1 DEF Sound, Entry, TrackedChannel
      <4>3. QED
        BY <4>1, <4>2
    <3>2. \A j \in About(r, c, Kinds) : r[j].ver > d.ver
      BY <1>2, <2>2
    <3>3. QED
      BY <3>1, <3>2 DEF Overtaken
  <2>3. QED
    BY <1>3, <2>1, <2>2 DEF Overtaken
<1>4. QED
  BY <1>3 DEF DumpOK

LEMMA EntryTaken ==
    ASSUME NEW q \in Seq(Item), NEW r \in Seq(Item), NEW e, Taken(q, r, e),
           NEW c, ~(e.type \in Kinds /\ e.of = c),
           NEW now, NEW ch, EntryOK(q, c, ch, now)
    PROVE  EntryOK(r, c, ch, now)
<1>1. {"unbridge"} \subseteq Kinds /\ Kinds \subseteq Kinds
  BY DEF Kinds
<1>2. /\ About(r, c, {"unbridge"}) = {} <=> About(q, c, {"unbridge"}) = {}
      /\ About(r, c, Kinds) = {} <=> About(q, c, Kinds) = {}
  <2>1. About(r, c, {"unbridge"}) = {} <=> About(q, c, {"unbridge"}) = {}
    <3>1. \A j \in About(q, c, {"unbridge"}) : j - 1 \in About(r, c, {"unbridge"})
      BY <1>1, OthersTaken
    <3>2. \A i \in About(r, c, {"unbridge"}) : i + 1 \in About(q, c, {"unbridge"})
      BY <1>1, OthersTaken
    <3>3. QED
      BY <3>1, <3>2
  <2>2. About(r, c, Kinds) = {} <=> About(q, c, Kinds) = {}
    <3>1. \A j \in About(q, c, Kinds) : j - 1 \in About(r, c, Kinds)
      BY <1>1, OthersTaken
    <3>2. \A i \in About(r, c, Kinds) : i + 1 \in About(q, c, Kinds)
      BY <1>1, OthersTaken
    <3>3. QED
      BY <3>1, <3>2
  <2>3. QED
    BY <2>1, <2>2
<1>3. QED
  BY <1>2 DEF EntryOK

-----------------------------------------------------------------------------
(***************************************************************************)
(* What the tracker makes of an item: its entry ch becomes x.              *)
(***************************************************************************)

\* After the channel's own event e.
Follows(x, ch, e) ==
    /\ e.type = "create" => x # None
    /\ e.type = "destroy" => x = None
    /\ e.type \notin News => (x = None <=> ch = None)
    /\ Sound(x) =>
           /\ x.ver = e.ver
           /\ x.leg => e.type # "unbridge" /\ (e.leg \/ (Sound(ch) /\ ch.leg))

LEMMA MergedFields ==
    ASSUME NEW ch \in TrackedChannel, NEW e, e.ver \in Nat, e.leg \in BOOLEAN
    PROVE  /\ Merged(ch, e) \in TrackedChannel /\ Merged(ch, e).ver = e.ver
           /\ Merged(ch, e).leg = (ch.leg \/ e.leg)
           /\ Merged(ch, e).old = ch.old /\ Merged(ch, e).foreign = ch.foreign
  BY DEF Merged, TrackedChannel

LEMMA ProcessedEntry ==
    ASSUME NEW m \in ChannelMap, NEW e \in ChannelEvent, e.type \in Kinds
    PROVE  /\ Processed(m, e) \in ChannelMap
           /\ \A d \in Channels : d # e.of => Processed(m, e)[d] = m[d]
           /\ Follows(Processed(m, e)[e.of], m[e.of], e)
<1> DEFINE x == Processed(m, e)[e.of]
<1>1. e.of \in Channels /\ e.ver \in Nat /\ e.leg \in BOOLEAN
  BY DEF ChannelEvent
<1>2. Processed(m, e) \in ChannelMap
  BY ProcessedIsOwn
<1>3. None \notin TrackedChannel
  BY UntrackedAssumption
<1>4. CASE e.type = "create"
  <2>1. Processed(m, e) = [m EXCEPT ![e.of] = Fresh(e)]
    BY <1>4 DEF Processed
  <2>2. x = Fresh(e) /\ \A d \in Channels : d # e.of => Processed(m, e)[d] = m[d]
    BY <1>1, <2>1 DEF ChannelMap
  <2>3. /\ Fresh(e) \in TrackedChannel /\ Fresh(e).ver = e.ver /\ Fresh(e).leg = e.leg
    BY <1>1 DEF Fresh, TrackedChannel
  <2>4. x # None
    BY <1>3, <2>2, <2>3
  <2>5. QED
    BY <1>2, <1>4, <2>2, <2>3, <2>4 DEF Follows, News
<1>5. CASE e.type # "create" /\ m[e.of] = None
  <2>1. Processed(m, e) = m
    BY <1>5 DEF Processed
  <2>2. QED
    BY <1>2, <1>5, <2>1 DEF Follows, Sound, News
<1>6. CASE e.type = "destroy" /\ m[e.of] # None
  <2>1. Processed(m, e) = [m EXCEPT ![e.of] = None]
    BY <1>6 DEF Processed
  <2>2. x = None /\ \A d \in Channels : d # e.of => Processed(m, e)[d] = m[d]
    BY <1>1, <2>1 DEF ChannelMap
  <2>3. QED
    BY <1>2, <1>6, <2>2 DEF Follows, Sound, News
<1>7. CASE e.type \notin News /\ m[e.of] # None
  <2> DEFINE new == IF e.type = "unbridge" THEN [Merged(m[e.of], e) EXCEPT !.leg = FALSE]
                    ELSE Merged(m[e.of], e)
  <2>1. Processed(m, e) = [m EXCEPT ![e.of] = new]
    BY <1>7 DEF Processed, News
  <2>2. m[e.of] \in TrackedChannel
    BY <1>1, <1>7 DEF ChannelMap
  <2>3. /\ Merged(m[e.of], e) \in TrackedChannel /\ Merged(m[e.of], e).ver = e.ver
        /\ Merged(m[e.of], e).leg = (m[e.of].leg \/ e.leg)
        /\ Merged(m[e.of], e).old = m[e.of].old /\ Merged(m[e.of], e).foreign = m[e.of].foreign
    BY <1>1, <2>2, MergedFields
  <2>4. /\ new \in TrackedChannel /\ new.ver = e.ver
        /\ new.leg => e.type # "unbridge" /\ (e.leg \/ m[e.of].leg)
        /\ new.old = m[e.of].old /\ new.foreign = m[e.of].foreign
    BY <2>3 DEF TrackedChannel
  <2> HIDE DEF new
  <2>5. x = new /\ \A d \in Channels : d # e.of => Processed(m, e)[d] = m[d]
    BY <1>1, <2>1 DEF ChannelMap
  <2>6. x # None
    BY <1>3, <2>4, <2>5
  <2>7. Sound(x) => Sound(m[e.of])
    BY <1>7, <2>4, <2>5 DEF Sound
  <2>8. e.type # "create" /\ e.type # "destroy"
    BY <1>7 DEF News
  <2>9. Follows(x, m[e.of], e)
    BY <1>7, <2>4, <2>5, <2>6, <2>7, <2>8 DEF Follows
  <2>10. QED
    BY <1>2, <2>5, <2>9
<1>8. QED
  BY <1>4, <1>5, <1>6, <1>7 DEF News

\* When the last of the news was taken, the map has the channel if that was its
\* creation.
LEMMA OwnNewsTaken ==
    ASSUME NEW q \in Seq(Item), NEW r \in Seq(Item), NEW e, Taken(q, r, e),
           NEW c, e.type \in Kinds, e.of = c, NEW ch, NEW x, Follows(x, ch, e),
           About(r, c, News) = {}
    PROVE  /\ About(q, c, News) = {} => (x = None <=> ch = None)
           /\ About(q, c, News) # {} =>
                  /\ 1 \in About(q, c, News) /\ LastAbout(q, c, News, 1)
                  /\ q[1].type = "create" <=> x # None
<1>1. \A i \in About(q, c, News) : i = 1
  BY AboutTaken
<1>2. q[1] = e /\ (e.type \in News <=> 1 \in About(q, c, News))
  BY AboutTaken
<1>3. CASE e.type \in News
  <2>1. 1 \in About(q, c, News) /\ LastAbout(q, c, News, 1)
    BY <1>1, <1>2, <1>3 DEF LastAbout
  <2>2. e.type = "create" <=> x # None
    BY <1>3 DEF Follows, News
  <2>3. QED
    BY <1>2, <2>1, <2>2
<1>4. CASE e.type \notin News
  BY <1>1, <1>2, <1>4 DEF Follows
<1>5. QED
  BY <1>3, <1>4

LEMMA OwnEntryTaken ==
    ASSUME NEW q \in Seq(Item), NEW r \in Seq(Item), NEW e, Taken(q, r, e),
           NEW c, e.type \in Kinds, e.of = c, NEW ch, NEW x, Follows(x, ch, e),
           NEW now \in FsChannel, EventsOK(q, c, now), EntryOK(q, c, ch, now)
    PROVE  EntryOK(r, c, x, now)
<1>1. SUFFICES ASSUME Sound(x)
               PROVE  /\ About(r, c, Kinds) = {} => x.ver = now.ver
                      /\ About(r, c, {"unbridge"}) = {} => (x.leg => now.leg)
  BY DEF EntryOK
<1>2. 1 \in About(q, c, Kinds) /\ q[1] = e
  BY AboutTaken
<1>3. x.ver = e.ver /\ (x.leg => e.type # "unbridge" /\ (e.leg \/ (Sound(ch) /\ ch.leg)))
  BY <1>1 DEF Follows
<1>4. ASSUME About(r, c, Kinds) = {}
      PROVE  x.ver = now.ver
  <2>1. \A i \in About(q, c, Kinds) : i = 1
    BY <1>4, AboutTaken
  <2>2. LastAbout(q, c, Kinds, 1)
    BY <2>1 DEF LastAbout
  <2>3. QED
    BY <1>2, <1>3, <2>2 DEF EventsOK
<1>5. ASSUME About(r, c, {"unbridge"}) = {}, x.leg
      PROVE  now.leg
  <2>1. e.type # "unbridge"
    BY <1>3, <1>5
  <2>2. 1 \notin About(q, c, {"unbridge"})
    BY <2>1, AboutTaken
  <2>3. \A j \in About(q, c, {"unbridge"}) : j = 1
    BY <1>5, AboutTaken
  <2>4. About(q, c, {"unbridge"}) = {}
    BY <2>2, <2>3
  <2>5. CASE e.leg
    <3>1. 1 \in About(q, c, Kinds \ {"unbridge"})
      BY <1>2, <2>1 DEF About
    <3>2. QED
      BY <1>2, <2>4, <2>5, <3>1 DEF EventsOK
  <2>6. CASE Sound(ch) /\ ch.leg
    BY <2>4, <2>6 DEF EntryOK
  <2>7. QED
    BY <1>3, <1>5, <2>5, <2>6
<1>6. QED
  BY <1>4, <1>5

LEMMA OwnDumpTaken ==
    ASSUME NEW q \in Seq(Item), NEW r \in Seq(Item), NEW e, Taken(q, r, e),
           NEW c, e.type \in Kinds, e.of = c, NEW ch, NEW x, Follows(x, ch, e),
           NEW now \in FsChannel, EventsOK(q, c, now),
           NEW d, d.ver \in Nat, DumpOK(q, c, ch, now, d)
    PROVE  DumpOK(r, c, x, now, d)
<1>1. 1 \in About(q, c, Kinds) /\ q[1] = e
  BY AboutTaken
<1>2. Sound(x) => x.ver = e.ver
  BY DEF Follows
<1>3. \A i \in About(r, c, Kinds) :
          i \in Nat /\ i + 1 \in About(q, c, Kinds) /\ r[i] = q[i + 1]
  BY AboutTaken
<1>4. \A i \in About(q, c, Kinds) : q[i].ver \in Nat
  BY AboutTypes
<1>5. ASSUME e.ver > d.ver
      PROVE  Overtaken(r, c, x, d)
  <2>1. ASSUME NEW i \in About(r, c, Kinds)
        PROVE  r[i].ver > d.ver
    <3>1. i + 1 \in About(q, c, Kinds) /\ r[i] = q[i + 1] /\ i \in Nat
      BY <1>3
    <3>2. 1 < i + 1
      BY <3>1 DEF About
    <3>3. e.ver <= r[i].ver
      BY <1>1, <3>1, <3>2 DEF EventsOK
    <3>4. e.ver \in Nat /\ r[i].ver \in Nat
      BY <1>1, <1>3, <1>4
    <3>5. QED
      BY <1>5, <3>3, <3>4
  <2>2. QED
    BY <1>2, <1>5, <2>1 DEF Overtaken
<1>6. ASSUME Overtaken(q, c, ch, d)
      PROVE  Overtaken(r, c, x, d)
  <2>1. CASE \E j \in About(q, c, {"unbridge"}) : q[j].ver > d.ver
    <3>1. PICK j \in About(q, c, {"unbridge"}) : q[j].ver > d.ver
      BY <2>1
    <3>2. j # 1 => j - 1 \in About(r, c, {"unbridge"}) /\ r[j - 1] = q[j]
      BY AboutTaken
    <3>3. CASE j = 1
      BY <1>1, <1>5, <3>1, <3>3
    <3>4. CASE j # 1
      BY <3>1, <3>2, <3>4 DEF Overtaken
    <3>5. QED
      BY <3>3, <3>4
  <2>2. CASE \A j \in About(q, c, Kinds) : q[j].ver > d.ver
    BY <1>1, <1>5, <2>2
  <2>3. QED
    BY <1>6, <2>1, <2>2 DEF Overtaken
<1>7. QED
  BY <1>6 DEF DumpOK

\* After a dump: one that is merged and leaves the entry sound is of the channel,
\* and no older than the entry.
LEMMA DumpedEntry ==
    ASSUME NEW m \in ChannelMap, NEW c \in Channels, NEW e \in JobEvent
    PROVE  /\ Dumped(m, c, e) \in ChannelMap
           /\ \A d \in Channels : d # c => Dumped(m, c, e)[d] = m[d]
           /\ Dumped(m, c, e)[c] = None <=> m[c] = None
           /\ Newer(Dumped(m, c, e)[c], m[c])
           /\ Dumped(m, c, e)[c] = m[c]
              \/ /\ Sound(Dumped(m, c, e)[c]) => e.of = c /\ m[c].ver <= e.ver
                 /\ Dumped(m, c, e)[c].ver = e.ver
                 /\ Dumped(m, c, e)[c].leg => m[c].leg \/ e.leg
<1>1. e.ver \in Nat /\ e.leg \in BOOLEAN
  BY DEF JobEvent
<1>2. Dumped(m, c, e) \in ChannelMap
  BY DumpedIsOwn
<1>3. CASE m[c] = None \/ e.of = None
  <2>1. Dumped(m, c, e) = m
    BY <1>3 DEF Dumped
  <2>2. Newer(m[c], m[c])
    <3>1. Sound(m[c]) => m[c].ver \in Nat
      BY DEF Sound, ChannelMap, TrackedChannel
    <3>2. QED
      BY <3>1 DEF Newer
  <2>3. QED
    BY <1>2, <2>1, <2>2
<1>4. CASE m[c] # None /\ e.of # None
  <2> DEFINE x == DumpMerged(m[c], c, e)
  <2>1. Dumped(m, c, e) = [m EXCEPT ![c] = x]
    BY <1>4 DEF Dumped
  <2>2. m[c] \in TrackedChannel
    BY <1>4 DEF ChannelMap
  <2>3. /\ Merged(m[c], e) \in TrackedChannel /\ Merged(m[c], e).ver = e.ver
        /\ Merged(m[c], e).leg = (m[c].leg \/ e.leg)
        /\ Merged(m[c], e).old = m[c].old /\ Merged(m[c], e).foreign = m[c].foreign
    BY <1>1, <2>2, MergedFields
  <2>4. /\ x \in TrackedChannel /\ x.ver = e.ver /\ x.leg = (m[c].leg \/ e.leg)
        /\ x.old = (m[c].old \/ (e.of = c /\ e.ver < m[c].ver))
        /\ x.foreign = (m[c].foreign \/ e.of # c)
    BY <2>3 DEF DumpMerged, TrackedChannel
  <2> HIDE DEF x
  <2>5. Dumped(m, c, e)[c] = x /\ \A d \in Channels : d # c => Dumped(m, c, e)[d] = m[d]
    BY <2>1 DEF ChannelMap
  <2>6. x # None
    BY <2>4, UntrackedAssumption
  <2>7. m[c].ver \in Nat
    BY <2>2 DEF TrackedChannel
  <2>8. ASSUME Sound(x)
        PROVE  Sound(m[c]) /\ e.of = c /\ m[c].ver <= e.ver
    <3>1. ~x.old /\ ~x.foreign
      BY <2>8 DEF Sound
    <3>2. e.of = c /\ ~m[c].foreign
      BY <2>4, <3>1
    <3>3. ~m[c].old /\ ~(e.ver < m[c].ver)
      BY <2>4, <3>1, <3>2
    <3>4. QED
      BY <1>1, <1>4, <2>7, <3>2, <3>3 DEF Sound
  <2>9. Newer(x, m[c])
    BY <1>1, <2>4, <2>7, <2>8 DEF Newer
  <2>10. QED
    BY <1>2, <1>4, <2>4, <2>5, <2>6, <2>8, <2>9
<1>5. QED
  BY <1>3, <1>4

LEMMA MergedEntryTaken ==
    ASSUME NEW q \in Seq(Item), NEW r \in Seq(Item), NEW e, Taken(q, r, e),
           NEW c, e.type = "job", e.ver \in Nat, NEW now \in FsChannel,
           NEW ch \in Entry, NEW x \in Entry, Newer(x, ch),
           \/ x = ch
           \/ /\ Sound(x) => e.of = c /\ ch.ver <= e.ver
              /\ x.ver = e.ver
              /\ x.leg => ch.leg \/ e.leg,
           EntryOK(q, c, ch, now), e.of = c => DumpOK(q, c, ch, now, e)
    PROVE  EntryOK(r, c, x, now)
<1>0. e.type \notin Kinds
  BY DEF Kinds
<1>1. EntryOK(r, c, ch, now)
  BY <1>0, EntryTaken
<1>2. CASE x = ch
  BY <1>1, <1>2
<1>3. CASE x # ch
  <2>1. SUFFICES ASSUME Sound(x)
                 PROVE  /\ About(r, c, Kinds) = {} => x.ver = now.ver
                        /\ About(r, c, {"unbridge"}) = {} => (x.leg => now.leg)
    BY DEF EntryOK
  <2>2. /\ e.of = c /\ ch.ver <= e.ver /\ x.ver = e.ver /\ Sound(ch)
        /\ x.leg => ch.leg \/ e.leg
    BY <1>3, <2>1 DEF Newer
  <2>3. DumpOK(r, c, ch, now, e)
    <3>1. Newer(ch, ch)
      <4>1. Sound(ch) => ch.ver \in Nat
        BY DEF Sound, Entry, TrackedChannel
      <4>2. QED
        BY <4>1 DEF Newer
    <3>2. QED
      BY <1>0, <2>2, <3>1, DumpTaken
  <2>4. ch.ver \in Nat /\ now.ver \in Nat
    BY <2>2 DEF Sound, Entry, TrackedChannel, FsChannel
  <2>5. ASSUME About(r, c, Kinds) = {}
        PROVE  x.ver = now.ver
    <3>1. ch.ver = now.ver /\ e.ver <= now.ver
      BY <1>1, <2>2, <2>3, <2>5 DEF EntryOK, DumpOK
    <3>2. QED
      BY <2>2, <2>4, <3>1
  <2>6. ASSUME About(r, c, {"unbridge"}) = {}, x.leg, ~now.leg
        PROVE  FALSE
    <3>1. ~ch.leg
      BY <1>1, <2>2, <2>6 DEF EntryOK
    <3>2. Overtaken(r, c, ch, e)
      BY <2>2, <2>3, <2>6, <3>1 DEF DumpOK
    <3>3. ch.ver > e.ver
      BY <2>2, <2>6, <3>2 DEF Overtaken
    <3>4. QED
      BY <2>2, <2>4, <3>3
  <2>7. QED
    BY <2>5, <2>6
<1>4. QED
  BY <1>2, <1>3

-----------------------------------------------------------------------------
(***************************************************************************)
(* The invariant.                                                          *)
(***************************************************************************)

\* main has the list of the channels, or is about to read it.
Listing == Call = 2 /\ pc = "wait" /\ reply[2] = 2 /\ 2 \notin refused

\* main has not read the list yet.
Early == Call < 2 \/ (Call = 2 /\ pc \in {"write", "wait"})

(***************************************************************************)
(* The order of main's calls: first it subscribes, then it lists, and only *)
(* then it asks for dumps.  An answer is taken before the next call.       *)
(***************************************************************************)
CallInv ==
    /\ Call >= 1 => asked[1] = "events"
    /\ Call >= 2 => asked[2] = "show"
    /\ \A i \in 3..Call : asked[i] \in Channels
    /\ pc = "begin" => Call <= 1
    /\ pc = "ready" => Call >= 2
    /\ Call >= 2 \/ (pc = "begin" /\ Call = 1) => subscribed
    /\ \A r \in Requests : reply[r] = 1 => subscribed \/ 1 \in refused
    /\ \A r \in Requests : reply[r] # None => r <= Call
    /\ listener # None =>
           listener = Call /\ pc \in {"write", "wait"} /\ reply[listener] = None
    /\ pc = "write" => Call \notin owed /\ \A r \in Requests : reply[r] # Call
    /\ Early => \A c \in Channels : channels[c] = None
    /\ ~subscribed => queue = << >>
    /\ \A i \in 1..Len(queue) : queue[i].type = "job" => asked[queue[i].job] \in Channels

\* Nothing is known of a channel before it is created.
UnbornInv ==
    \A c \in Channels : fs[c].life = "unborn" =>
        /\ fs[c].ver = 0 /\ ~fs[c].leg
        /\ About(queue, c, Types) = {}
        /\ channels[c] = None
        /\ \A r \in Requests : jobs[r].dump.of # c
        /\ \A row \in listing : row[1] # c

\* The dumps of channel c that were read and not yet taken by main.
Dumps(c) ==
    {jobs[r].dump : r \in {s \in Requests : jobs[s].state = "run" /\ jobs[s].dump.of = c}}
    \cup {queue[i] : i \in About(queue, c, {"job"})}

\* The map, or the list it is made of, has channel c if it is live, unless there
\* is news of it.
LiveOK(c) ==
    /\ NewsOK(queue, c, Live(c))
    /\ About(queue, c, News) = {} =>
           /\ channels[c] # None => Live(c)
           /\ Listed => (channels[c] # None) = Live(c)
           /\ Listing => (\E row \in listing : row[1] = c) = Live(c)

\* What is queued, kept, listed and dumped of a live channel agrees with it.
DataOK(c) ==
    /\ EventsOK(queue, c, fs[c])
    /\ EntryOK(queue, c, channels[c], fs[c])
    /\ Listing /\ About(queue, c, Kinds) = {} =>
           \A row \in listing : row[1] = c => row[2] = fs[c].ver
    /\ \A d \in Dumps(c) : DumpOK(queue, c, channels[c], fs[c], d)

\* This is so of the channels that lost no event.
MapInv == \A c \in Channels \ lost : LiveOK(c) /\ (Live(c) => DataOK(c))

-----------------------------------------------------------------------------
(***************************************************************************)
(* The order of main's calls.                                              *)
(***************************************************************************)

\* Only a bgapi has a job.
LEMMA JobsAreLate ==
    ASSUME TrackerInv, CallInv
    PROVE  /\ Call \in Nat /\ 1 \in Requests /\ 2 \in Requests
           /\ \A r \in Requests : jobs[r].state # "none" => r > 2 /\ Call > 2
           /\ \A i \in 1..Len(queue) : queue[i].type = "job" => Call > 2
<1>1. SwitchOK /\ QueueOK /\ MainOK /\ OrderInv
  BY DEF TrackerInv
<1>2. Call \in Nat /\ Cardinality(Channels) \in Nat
  BY <1>1, RequestsAreNumbers DEF MainOK, Call
<1>3. 1 \in Requests /\ 2 \in Requests
  BY <1>2 DEF Requests
<1>4. ASSUME NEW r \in Requests, r <= Call, asked[r] \in Channels
      PROVE  r > 2 /\ Call > 2
  <2>1. r \in Nat /\ r # 0
    BY RequestsAreNumbers
  <2>2. r # 1 /\ r # 2
    BY <1>2, <1>4, TrackerAssumption DEF CallInv
  <2>3. r > 2
    BY <2>1, <2>2
  <2>4. QED
    BY <1>2, <1>4, <2>1, <2>3
<1>5. \A r \in Requests : jobs[r].state # "none" => r > 2 /\ Call > 2
  BY <1>1, <1>4 DEF OrderInv
<1>6. ASSUME NEW i \in 1..Len(queue), queue[i].type = "job"
      PROVE  Call > 2
  <2>1. queue[i].job \in Requests
    BY <1>1, <1>6, JobsAreRequests DEF JobEvent
  <2>2. queue[i].job <= Call /\ asked[queue[i].job] \in Channels
    BY <1>1, <1>6 DEF OrderInv, CallInv
  <2>3. QED
    BY <1>4, <2>1, <2>2
<1>7. QED
  BY <1>2, <1>3, <1>5, <1>6

LEMMA CallInit ==
    ASSUME Init
    PROVE  CallInv
<1>1. asked = << >> /\ Call = 0 /\ queue = << >> /\ Len(queue) = 0
  BY EmptySeq DEF Init, Call
<1>2. QED
  BY <1>1, RequestsAreNumbers DEF Init, Service!Init, CallInv

\* The next call.
LEMMA CallAsk ==
    ASSUME TrackerInv, CallInv, NEW x \in {"events", "show"} \cup Channels, Ask(x),
           UNCHANGED <<switchVars, queueVars, tracker>>,
           \/ Call = 0 /\ x = "events"
           \/ Call = 1 /\ x = "show" /\ subscribed
           \/ Call >= 2 /\ x \in Channels
    PROVE  CallInv'
<1>1. MainOK /\ ServiceOK /\ QueueOK /\ OrderInv
  BY DEF TrackerInv
<1>2. /\ pc' = "write" /\ Len(asked') = Len(asked) + 1
      /\ \A i \in 1..Len(asked) : asked'[i] = asked[i]
      /\ UNCHANGED <<owed, reply, gaveUp>>
  BY <1>1, AskOK
<1>3. /\ asked' = Append(asked, x) /\ Len(asked) \in Nat
      /\ listener' = Call + 1 /\ reply[Call + 1] = None
  BY <1>1 DEF Ask, MainOK, Service!Listen, Call
<1>4. asked'[Len(asked) + 1] = x
  BY <1>1, <1>3, AppendProperties DEF MainOK
<1>5. UNCHANGED <<subscribed, refused, queue, channels>>
  BY DEF switchVars, queueVars, tracker
<1>6. Call \in Nat /\ Call' = Call + 1
  BY <1>2, <1>3 DEF Call
<1>7. \A i \in 1..Call : asked'[i] = asked[i]
  BY <1>2 DEF Call
<1>8. /\ Call' >= 1 => asked'[1] = "events"
      /\ Call' >= 2 => asked'[2] = "show"
  <2>0. asked'[Call + 1] = x
    BY <1>4 DEF Call
  <2>1. CASE Call = 0
    BY <1>6, <2>0, <2>1, TrackerAssumption
  <2>2. CASE Call = 1
    BY <1>6, <1>7, <2>0, <2>2, TrackerAssumption DEF CallInv
  <2>3. CASE Call >= 2
    BY <1>6, <1>7, <2>3 DEF CallInv
  <2>4. QED
    BY <1>6, <2>1, <2>2, <2>3
<1>9. \A i \in 3..Call' : asked'[i] \in Channels
  BY <1>4, <1>6, <1>7 DEF CallInv, Call
<1>10. Call' >= 2 => subscribed'
  BY <1>5, <1>6 DEF CallInv
<1>11. /\ \A r \in Requests : reply'[r] = 1 => subscribed' \/ 1 \in refused'
       /\ ~subscribed' => queue' = << >>
  BY <1>2, <1>5 DEF CallInv
<1>12. \A r \in Requests : reply'[r] # None => r <= Call'
  BY <1>2, <1>6, RequestsAreNumbers DEF CallInv
<1>13. Call' \notin owed' /\ \A r \in Requests : reply'[r] # Call'
  <2>1. \A r \in owed : r \in Nat /\ r <= Call
    BY <1>1, RequestsAreNumbers DEF OrderInv, ServiceOK
  <2>2. \A r \in Requests : reply[r] = None \/ (reply[r] \in Nat /\ reply[r] <= Call)
    BY <1>1, RequestsAreNumbers DEF OrderInv, ServiceOK
  <2>3. None # Call + 1
    BY <1>3, RequestsAreNumbers DEF Ask
  <2>4. QED
    BY <1>2, <1>6, <2>1, <2>2, <2>3
<1>14. Early' => \A c \in Channels : channels'[c] = None
  BY <1>5, <1>6 DEF CallInv, Early
<1>15. \A i \in 1..Len(queue') : queue'[i].type = "job" => asked'[queue'[i].job] \in Channels
  <2>1. ASSUME NEW i \in 1..Len(queue), queue[i].type = "job"
        PROVE  asked'[queue[i].job] \in Channels
    <3>1. queue[i].job \in Requests /\ queue[i].job <= Call
      BY <1>1, <2>1, JobsAreRequests DEF JobEvent, OrderInv
    <3>2. queue[i].job \in 1..Call
      <4>1. queue[i].job \in Nat /\ queue[i].job # 0
        BY <3>1, RequestsAreNumbers
      <4>2. QED
        BY <1>6, <3>1, <4>1
    <3>3. QED
      BY <1>7, <2>1, <3>2 DEF CallInv
  <2>2. QED
    BY <1>5, <2>1
<1>16. listener' = Call' /\ reply'[listener'] = None
  BY <1>2, <1>3, <1>6
<1>17. QED
  BY <1>2, <1>8, <1>9, <1>10, <1>11, <1>12, <1>13, <1>14, <1>15, <1>16 DEF CallInv

\* The call goes out, ends, or main does.
LEMMA CallEnds ==
    ASSUME TrackerInv, CallInv, UNCHANGED <<asked, subscribed, refused, queue, reply>>,
           pc' \in {"begin", "wait", "ready", "closed"},
           listener' = None \/ (listener' = listener /\ pc' = "wait"),
           pc' = "begin" => Call <= 1 /\ subscribed,
           pc' = "ready" => Call >= 2,
           Early' => Early /\ channels' = channels
    PROVE  CallInv'
<1>1. Call' = Call
  BY DEF Call
<1>2. /\ Call' >= 1 => asked'[1] = "events"
      /\ Call' >= 2 => asked'[2] = "show"
      /\ \A i \in 3..Call' : asked'[i] \in Channels
      /\ pc' = "begin" => Call' <= 1
      /\ pc' = "ready" => Call' >= 2
      /\ Call' >= 2 \/ (pc' = "begin" /\ Call' = 1) => subscribed'
  BY <1>1 DEF CallInv
<1>3. /\ \A r \in Requests : reply'[r] = 1 => subscribed' \/ 1 \in refused'
      /\ \A r \in Requests : reply'[r] # None => r <= Call'
  BY <1>1 DEF CallInv
<1>4. listener' # None =>
          listener' = Call' /\ pc' \in {"write", "wait"} /\ reply'[listener'] = None
  BY <1>1 DEF CallInv
<1>5. /\ Early' => \A c \in Channels : channels'[c] = None
      /\ ~subscribed' => queue' = << >>
      /\ \A i \in 1..Len(queue') : queue'[i].type = "job" => asked'[queue'[i].job] \in Channels
  BY DEF CallInv
<1>6. pc' # "write"
  OBVIOUS
<1>7. QED
  BY <1>2, <1>3, <1>4, <1>5, <1>6 DEF CallInv

LEMMA CallNumbers ==
    ASSUME TrackerInv, CallInv, pc \in {"write", "wait"}
    PROVE  /\ Call \in Requests /\ Call \in Nat /\ Call >= 1
           /\ asked[Call] = "events" <=> Call = 1
           /\ asked[Call] = "show" <=> Call = 2
           /\ asked[Call] \in Channels <=> Call > 2
<1>1. Call \in Requests /\ Call \in Nat /\ Call >= 1
  <2>1. Call \in Requests
    BY DEF TrackerInv, OrderInv
  <2>2. Call \in Nat /\ Call # 0
    BY <2>1, RequestsAreNumbers
  <2>3. QED
    BY <2>1, <2>2
<1>2. CASE Call = 1
  BY <1>1, <1>2, TrackerAssumption DEF CallInv
<1>3. CASE Call = 2
  BY <1>1, <1>3, TrackerAssumption DEF CallInv
<1>4. CASE Call > 2
  <2>1. asked[Call] \in Channels
    BY <1>1, <1>4 DEF CallInv
  <2>2. asked[Call] # "events" /\ asked[Call] # "show"
    BY <2>1, TrackerAssumption
  <2>3. QED
    BY <1>1, <1>4, <2>1, <2>2
<1>5. QED
  BY <1>1, <1>2, <1>3, <1>4

LEMMA CallGoesOn ==
    ASSUME TrackerInv, CallInv,
           \/ Write \/ CallFails \/ CallTimesOut \/ ReceiveEnd
           \/ pc = "wait" /\ (SubscribeDone \/ ShowDone \/ DumpStarted \/ CallRefused)
    PROVE  CallInv'
<1>1. UNCHANGED <<asked, subscribed, refused, queue, reply>>
  BY DEF Write, CallFails, CallTimesOut, ReceiveEnd, SubscribeDone, ShowDone, DumpStarted,
     CallRefused, switchVars, queueVars, service, Service!Send, Service!Fail, Service!GiveUp
<1>2. Call' = Call /\ Call \in Nat
  BY <1>1, JobsAreLate DEF Call
<1>3. CASE Write
  <2>1. pc = "write" /\ pc' = "wait" /\ listener' = listener /\ channels' = channels
    BY <1>3 DEF Write, Service!Send, tracker
  <2>2. Early' => Early
    BY <1>2, <2>1 DEF Early
  <2>3. QED
    BY <1>1, <2>1, <2>2, CallEnds
<1>4. CASE CallFails \/ CallTimesOut
  <2>1. /\ pc \in {"write", "wait"} /\ pc' = AfterError /\ listener' = None
        /\ channels' = channels
    BY <1>4 DEF CallFails, CallTimesOut, Service!Fail, tracker
  <2>2. pc' \in {"ready", "closed"} /\ (pc' = "ready" => Call >= 2)
    BY <2>1, CallNumbers DEF AfterError
  <2>3. Early' => Early
    BY <1>2, <2>1, <2>2 DEF Early
  <2>4. QED
    BY <1>1, <2>1, <2>2, <2>3, CallEnds
<1>5. CASE ReceiveEnd
  <2>1. pc = "ready" /\ pc' = "closed" /\ UNCHANGED <<channels, listener>>
    BY <1>5 DEF ReceiveEnd, tracker, service
  <2>2. listener' = None
    BY <2>1 DEF CallInv
  <2>3. Early' => Early
    BY <1>2, <2>1 DEF Early
  <2>4. QED
    BY <1>1, <2>1, <2>2, <2>3, CallEnds
<1>6. ASSUME pc = "wait", SubscribeDone \/ ShowDone \/ DumpStarted \/ CallRefused
      PROVE  CallInv'
  <2>1. Call \in Requests
    BY <1>6, CallNumbers
  <2>2. reply[Call] \in Requests /\ listener' = listener
    BY <1>6, <2>1 DEF SubscribeDone, ShowDone, DumpStarted, CallRefused, Returned, service
  <2>3. listener' = None
    <3>1. reply[Call] # None
      BY <2>2, RequestsAreNumbers
    <3>2. QED
      BY <2>2, <3>1 DEF CallInv
  <2>4. CASE SubscribeDone
    <3>1. /\ asked[Call] = "events" /\ reply[Call] = Call /\ Call \notin refused
          /\ channels' = channels /\ pc' = "begin"
      BY <2>4 DEF SubscribeDone, Returned, AfterCall, tracker
    <3>2. Call = 1
      BY <1>6, <3>1, CallNumbers
    <3>3. subscribed
      BY <2>1, <3>1, <3>2 DEF CallInv
    <3>4. Early
      BY <3>2 DEF Early
    <3>5. QED
      BY <1>1, <2>3, <3>1, <3>2, <3>3, <3>4, CallEnds
  <2>5. CASE ShowDone \/ DumpStarted
    <3>1. asked[Call] # "events"
      BY <2>5, TrackerAssumption DEF ShowDone, DumpStarted
    <3>2. Call >= 2
      BY <1>6, <3>1, CallNumbers
    <3>3. pc' = "ready"
      BY <2>5, <3>1 DEF ShowDone, DumpStarted, AfterCall
    <3>4. ~Early'
      BY <1>2, <3>2, <3>3 DEF Early
    <3>5. QED
      BY <1>1, <2>3, <3>2, <3>3, <3>4, CallEnds
  <2>6. CASE CallRefused
    <3>1. channels' = channels /\ pc' = AfterError
      BY <2>6 DEF CallRefused, tracker
    <3>2. pc' \in {"ready", "closed"} /\ (pc' = "ready" => Call >= 2)
      BY <1>6, <3>1, CallNumbers DEF AfterError
    <3>3. Early' => Early
      BY <1>2, <3>2 DEF Early
    <3>4. QED
      BY <1>1, <2>3, <3>1, <3>2, <3>3, CallEnds
  <2>7. QED
    BY <1>6, <2>4, <2>5, <2>6
<1>7. QED
  BY <1>3, <1>4, <1>5, <1>6

\* The queue changes, or nothing of the calls.
LEMMA CallKept ==
    ASSUME CallInv, UNCHANGED <<asked, subscribed, refused, reply, listener, pc>>,
           owed' \subseteq owed, Early => channels' = channels,
           ~subscribed => queue' = << >>,
           \A i \in 1..Len(queue') : queue'[i].type = "job" => asked[queue'[i].job] \in Channels
    PROVE  CallInv'
<1>1. Call' = Call
  BY DEF Call
<1>2. Early' <=> Early
  BY <1>1 DEF Early
<1>3. QED
  BY <1>1, <1>2 DEF CallInv

\* An answer, or a rejection, is given to who listens.
LEMMA CallAnswered ==
    ASSUME TrackerInv, CallInv, Answer \/ Refuse
    PROVE  CallInv'
<1>1. ServiceOK /\ OrderInv
  BY DEF TrackerInv
<1>2. PICK r :
          /\ Service!Answer(r)
          /\ \/ subscribed' = (subscribed \/ asked[r] = "events") /\ refused' = refused
             \/ subscribed' = subscribed /\ refused' = refused \cup {r}
          /\ UNCHANGED <<queue, pc, asked, channels>>
  <2>1. CASE Answer
    BY <2>1 DEF Answer, queueVars, tracker
  <2>2. CASE Refuse
    BY <2>2 DEF Refuse, queueVars, tracker
  <2>3. QED
    BY <2>1, <2>2
<1>3. /\ r \in owed
      /\ owed' = owed \ {r}
      /\ reply' = IF listener = None THEN reply ELSE [reply EXCEPT ![listener] = r]
      /\ listener' = None
  BY <1>2 DEF Service!Answer
<1>4. r \in Requests /\ r <= Call /\ r # None /\ Call \in Nat /\ Call' = Call
  BY <1>1, <1>2, <1>3, RequestsAreNumbers, JobsAreLate DEF ServiceOK, OrderInv, Call
<1>5. \A q \in Requests : reply'[q] = reply[q] \/ (reply'[q] = r /\ q = listener)
  BY <1>1, <1>3 DEF ServiceOK
<1>6. /\ subscribed => subscribed'
      /\ 1 \in refused => 1 \in refused'
      /\ r = 1 => subscribed' \/ 1 \in refused'
  <2>1. r = 1 => asked[r] = "events"
    BY <1>4 DEF CallInv
  <2>2. CASE subscribed' = (subscribed \/ asked[r] = "events") /\ refused' = refused
    BY <2>1, <2>2
  <2>3. CASE subscribed' = subscribed /\ refused' = refused \cup {r}
    BY <2>3
  <2>4. QED
    BY <1>2, <2>2, <2>3
<1>7. \A q \in Requests : reply'[q] = 1 => subscribed' \/ 1 \in refused'
  BY <1>5, <1>6 DEF CallInv
<1>8. \A q \in Requests : reply'[q] # None => q <= Call'
  <2>1. listener # None => listener = Call
    BY DEF CallInv
  <2>2. \A q \in Requests : q \in Nat /\ q # None
    BY RequestsAreNumbers
  <2>3. QED
    BY <1>4, <1>5, <2>1, <2>2 DEF CallInv
<1>9. pc' = "write" => Call' \notin owed' /\ \A q \in Requests : reply'[q] # Call'
  BY <1>2, <1>3, <1>4, <1>5 DEF CallInv
<1>10. /\ Call' >= 1 => asked'[1] = "events"
       /\ Call' >= 2 => asked'[2] = "show"
       /\ \A i \in 3..Call' : asked'[i] \in Channels
       /\ pc' = "begin" => Call' <= 1
       /\ pc' = "ready" => Call' >= 2
       /\ Call' >= 2 \/ (pc' = "begin" /\ Call' = 1) => subscribed'
  BY <1>2, <1>4, <1>6 DEF CallInv
<1>11. /\ Early' => \A c \in Channels : channels'[c] = None
       /\ ~subscribed' => queue' = << >>
       /\ \A i \in 1..Len(queue') : queue'[i].type = "job" => asked'[queue'[i].job] \in Channels
  BY <1>2, <1>4, <1>6 DEF CallInv, Early
<1>12. QED
  BY <1>3, <1>7, <1>8, <1>9, <1>10, <1>11 DEF CallInv

\* The list is read when it is there, and by ShowDone alone.
LEMMA ListedKept ==
    ASSUME TrackerInv, CallInv,
           \/ Subscribe \/ Show \/ RequestDump
           \/ Write \/ CallFails \/ CallTimesOut \/ ReceiveEnd
           \/ pc = "wait" /\ (SubscribeDone \/ DumpStarted \/ CallRefused)
    PROVE  /\ Listed' => Listed
           /\ ~Listing'
           /\ UNCHANGED <<fs, subscribed, jobs, listing, queue, overflow, lost, channels>>
<1>1. /\ reply' = reply /\ refused' = refused
      /\ UNCHANGED <<fs, subscribed, jobs, listing, queue, overflow, lost, channels>>
  BY DEF Subscribe, Show, RequestDump, Ask, Write, CallFails, CallTimesOut, ReceiveEnd,
     SubscribeDone, DumpStarted, CallRefused, switchVars, queueVars, tracker, service,
     Service!Listen, Service!Send, Service!Fail, Service!GiveUp
<1>2. Call \in Nat /\ 2 \in Requests
  BY JobsAreLate
<1>3. reply[2] = 2 => Call >= 2
  <2>1. 2 # None
    BY <1>2, RequestsAreNumbers
  <2>2. QED
    BY <1>2, <2>1 DEF CallInv
<1>4. CASE Subscribe \/ Show \/ RequestDump
  <2>1. /\ pc' = "write" /\ Call' = Call + 1
        /\ Call \in {0, 1} \/ (Call >= 2 /\ pc = "ready")
    <3>1. PICK x \in {"events", "show"} \cup Channels : Ask(x)
      BY <1>4, HeadTailProperties DEF Subscribe, Show, RequestDump, TrackerInv, MainOK
    <3>2. pc' = "write" /\ Len(asked') = Len(asked) + 1
      BY <3>1, AskOK DEF TrackerInv
    <3>3. Subscribe => Call = 0
      BY EmptySeq DEF Subscribe, Call
    <3>4. QED
      BY <1>4, <3>2, <3>3 DEF Show, RequestDump, CallInv, Call
  <2>2. QED
    BY <1>1, <1>2, <2>1 DEF Listed, Listing
<1>5. CASE Write
  <2>1. pc = "write" /\ pc' = "wait" /\ Call' = Call
    BY <1>5 DEF Write, Call
  <2>2. Call = 2 => reply[2] # 2
    BY <1>2, <2>1 DEF CallInv
  <2>3. QED
    BY <1>1, <2>1, <2>2 DEF Listed, Listing
<1>6. CASE \/ CallFails \/ CallTimesOut \/ ReceiveEnd
           \/ pc = "wait" /\ (SubscribeDone \/ DumpStarted \/ CallRefused)
  <2>1. /\ Call' = Call /\ pc' \in {"begin", "ready", "closed"}
    BY <1>6 DEF CallFails, CallTimesOut, ReceiveEnd, SubscribeDone, DumpStarted, CallRefused,
       AfterCall, AfterError, Call
  <2>2. ~Listing'
    BY <2>1 DEF Listing
  <2>3. ASSUME Listed'
        PROVE  Listed
    <3>1. reply[2] = 2 /\ 2 \notin refused
      BY <1>1, <2>3 DEF Listed
    <3>2. CASE Call = 2
      <4>1. CASE CallFails
        BY <1>2, <3>1, <3>2, <4>1 DEF CallFails, CallInv
      <4>2. CASE CallTimesOut
        BY <1>2, <3>1, <3>2, <4>2, RequestsAreNumbers DEF CallTimesOut
      <4>3. CASE ReceiveEnd
        BY <3>1, <4>3 DEF ReceiveEnd, Listed
      <4>4. CASE pc = "wait" /\ (SubscribeDone \/ DumpStarted)
        BY <3>2, <4>4, CallNumbers DEF SubscribeDone, DumpStarted
      <4>5. CASE CallRefused
        BY <3>1, <3>2, <4>5 DEF CallRefused
      <4>6. QED
        BY <1>6, <4>1, <4>2, <4>3, <4>4, <4>5
    <3>3. QED
      BY <1>2, <1>3, <3>1, <3>2 DEF Listed
  <2>4. QED
    BY <1>1, <2>2, <2>3
<1>7. QED
  BY <1>4, <1>5, <1>6

\* Where channels, calls, jobs and the list are as before, what is said of them is.
LEMMA MapKept ==
    ASSUME MapInv, UNCHANGED <<fs, queue, lost, channels, jobs>>,
           Listed' => Listed, Listing' => Listing /\ listing' = listing
    PROVE  MapInv'
<1>1. SUFFICES ASSUME NEW c \in Channels \ lost
               PROVE  LiveOK(c)' /\ (Live(c)' => DataOK(c)')
  BY DEF MapInv
<1>2. LiveOK(c) /\ (Live(c) => DataOK(c))
  BY <1>1 DEF MapInv
<1>3. Live(c)' = Live(c)
  BY DEF Live
<1>4. LiveOK(c)'
  <2>1. NewsOK(queue', c, Live(c)')
    BY <1>2, <1>3 DEF LiveOK
  <2>2. ASSUME About(queue', c, News) = {}
        PROVE  /\ channels'[c] # None => Live(c)'
               /\ Listed' => (channels'[c] # None) = Live(c)'
               /\ Listing' => (\E row \in listing' : row[1] = c) = Live(c)'
    BY <1>2, <1>3, <2>2 DEF LiveOK
  <2>3. QED
    BY <2>1, <2>2 DEF LiveOK
<1>5. Dumps(c)' = Dumps(c)
  BY DEF Dumps
<1>6. DataOK(c) => DataOK(c)'
  BY <1>5 DEF DataOK
<1>7. QED
  BY <1>2, <1>3, <1>4, <1>6

LEMMA UnbornKept ==
    ASSUME UnbornInv, UNCHANGED <<fs, queue, channels, listing>>,
           \A r \in Requests : jobs'[r].dump = jobs[r].dump
    PROVE  UnbornInv'
<1>1. fs' = fs /\ queue' = queue /\ channels' = channels /\ listing' = listing
  OBVIOUS
<1>2. ASSUME NEW c \in Channels, fs'[c].life = "unborn"
      PROVE  /\ fs'[c].ver = 0 /\ ~fs'[c].leg
             /\ About(queue', c, Types) = {}
             /\ channels'[c] = None
             /\ \A r \in Requests : jobs'[r].dump.of # c
             /\ \A row \in listing' : row[1] # c
  <2>1. fs[c].life = "unborn"
    BY <1>1, <1>2
  <2>2. QED
    BY <1>1, <2>1 DEF UnbornInv
<1>3. QED
  BY <1>2 DEF UnbornInv

-----------------------------------------------------------------------------
(***************************************************************************)
(* What main reads.                                                        *)
(***************************************************************************)

\* What bootstrap makes of the list.
LEMMA BootstrappedEntry ==
    ASSUME SwitchOK, channels \in ChannelMap, NEW c \in Channels
    PROVE  /\ Bootstrapped \in ChannelMap
           /\ IF \E row \in listing : row[1] = c
              THEN /\ Bootstrapped[c] # None
                   /\ ~Bootstrapped[c].leg
                   /\ \E row \in listing : row[1] = c /\ Bootstrapped[c].ver = row[2]
              ELSE Bootstrapped[c] = channels[c]
<1>1. Bootstrapped \in ChannelMap
  BY BootstrappedIsOwn
<1>2. ASSUME \E row \in listing : row[1] = c
      PROVE  /\ Bootstrapped[c] # None
             /\ ~Bootstrapped[c].leg
             /\ \E row \in listing : row[1] = c /\ Bootstrapped[c].ver = row[2]
  <2> DEFINE row == CHOOSE row \in listing : row[1] = c
  <2>1. row \in listing /\ row[1] = c
    BY <1>2
  <2>2. Bootstrapped[c] = FakeCreate(row)
    BY <1>2 DEF Bootstrapped
  <2> HIDE DEF row
  <2>3. row[2] \in Nat
    BY <2>1 DEF SwitchOK
  <2>4. FakeCreate(row) \in TrackedChannel /\ FakeCreate(row).ver = row[2] /\ ~FakeCreate(row).leg
    BY <2>3 DEF FakeCreate, Fresh, TrackedChannel
  <2>5. QED
    BY <2>1, <2>2, <2>4, UntrackedAssumption
<1>3. ASSUME ~\E row \in listing : row[1] = c
      PROVE  Bootstrapped[c] = channels[c]
  BY <1>3 DEF Bootstrapped
<1>4. QED
  BY <1>1, <1>2, <1>3

\* main takes the list.
LEMMA MapShown ==
    ASSUME TrackerInv, CallInv, UnbornInv, MapInv, pc = "wait", ShowDone
    PROVE  UnbornInv' /\ MapInv'
<1>1. SwitchOK /\ QueueOK /\ channels \in ChannelMap
  BY DEF TrackerInv, MainOK, ChannelMap
<1>2. /\ asked[Call] = "show" /\ reply[Call] = Call /\ Call \notin refused
      /\ channels' = Bootstrapped
      /\ UNCHANGED <<fs, jobs, listing, queue, lost>>
  BY DEF ShowDone, Returned, switchVars, queueVars
<1>3. Call = 2
  BY <1>2, CallNumbers
<1>4. Listing
  BY <1>2, <1>3 DEF Listing
<1>5. \A c \in Channels : channels[c] = None
  BY <1>3 DEF CallInv, Early
<1>6. UnbornInv'
  <2>1. SUFFICES ASSUME NEW c \in Channels, fs[c].life = "unborn"
                 PROVE  channels'[c] = None
    BY <1>2 DEF UnbornInv
  <2>2. \A row \in listing : row[1] # c
    BY <2>1 DEF UnbornInv
  <2>3. QED
    BY <1>1, <1>2, <1>5, <2>2, BootstrappedEntry
<1>7. MapInv'
  <2>1. SUFFICES ASSUME NEW c \in Channels \ lost
                 PROVE  LiveOK(c)' /\ (Live(c)' => DataOK(c)')
    BY <1>2 DEF MapInv
  <2>2. LiveOK(c) /\ (Live(c) => DataOK(c))
    BY <2>1 DEF MapInv
  <2>3. Live(c)' <=> Live(c)
    BY <1>2 DEF Live
  <2>4. channels'[c] # None <=> \E row \in listing : row[1] = c
    BY <1>1, <1>2, <1>5, BootstrappedEntry
  <2>5. ~Listing'
    BY <1>2, <1>3 DEF ShowDone, AfterCall, Listing
  <2>6. LiveOK(c)'
    <3>1. NewsOK(queue, c, Live(c)) /\ Live(c) \in BOOLEAN /\ Live(c)' = Live(c)
      BY <1>2, <2>2 DEF LiveOK, Live
    <3>2. About(queue, c, News) = {} => (channels'[c] # None) = Live(c)
      BY <1>4, <2>2, <2>4, <3>1 DEF LiveOK
    <3>3. QED
      BY <1>2, <2>5, <3>1, <3>2 DEF LiveOK
  <2>7. ASSUME Live(c)
        PROVE  DataOK(c)'
    <3>1. EventsOK(queue, c, fs[c])
      BY <2>2, <2>7 DEF DataOK
    <3>2. EntryOK(queue, c, channels'[c], fs[c])
      <4>1. SUFFICES ASSUME channels'[c] # None
                     PROVE  /\ About(queue, c, Kinds) = {} => channels'[c].ver = fs[c].ver
                            /\ ~channels'[c].leg
        BY DEF EntryOK, Sound
      <4>2. /\ ~channels'[c].leg
            /\ \E row \in listing : row[1] = c /\ channels'[c].ver = row[2]
        BY <1>1, <1>2, <2>4, <4>1, BootstrappedEntry
      <4>3. QED
        BY <1>4, <2>2, <2>7, <4>2 DEF DataOK
    <3>3. Dumps(c)' = {}
      <4>1. \A r \in Requests : jobs[r].state = "none"
        BY <1>3, JobsAreLate
      <4>2. About(queue, c, {"job"}) = {}
        BY <1>3, JobsAreLate DEF About
      <4>3. QED
        BY <1>2, <4>1, <4>2 DEF Dumps
    <3>4. QED
      BY <1>2, <2>5, <3>1, <3>2, <3>3 DEF DataOK
  <2>8. QED
    BY <2>3, <2>6, <2>7
<1>8. QED
  BY <1>6, <1>7

LEMMA DumpTypes ==
    ASSUME SwitchOK, QueueOK, NEW c, NEW d \in Dumps(c)
    PROVE  d.ver \in Nat /\ d.leg \in BOOLEAN /\ d.of = c
<1>1. CASE d \in {jobs[r].dump : r \in {s \in Requests : jobs[s].state = "run"
                                                           /\ jobs[s].dump.of = c}}
  BY <1>1 DEF SwitchOK, Dump
<1>2. CASE d \in {queue[i] : i \in About(queue, c, {"job"})}
  <2>1. PICK i \in 1..Len(queue) : d = queue[i] /\ queue[i].type = "job" /\ queue[i].of = c
    BY <1>2 DEF About
  <2>2. d \in JobEvent
    BY <2>1, JobsAreRequests
  <2>3. QED
    BY <2>1, <2>2 DEF JobEvent
<1>3. QED
  BY <1>1, <1>2 DEF Dumps

\* main takes item e, which makes entry x of ch.
Made(x, ch, c, e) ==
    IF e.type \in Kinds /\ e.of = c
    THEN Follows(x, ch, e)
    ELSE /\ x = None <=> ch = None
         /\ Newer(x, ch)
         /\ x = ch \/ /\ e.type = "job" /\ e.ver \in Nat
                      /\ Sound(x) => e.of = c /\ ch.ver <= e.ver
                      /\ x.ver = e.ver
                      /\ x.leg => ch.leg \/ e.leg

LEMMA MapTaken ==
    ASSUME SwitchOK, QueueOK, channels \in ChannelMap, channels' \in ChannelMap,
           MapInv, NEW e, NextItem(e),
           \A c \in Channels : Made(channels'[c], channels[c], c, e)
    PROVE  MapInv'
<1>1. /\ QueueOK' /\ queue \in Seq(Item) /\ queue' \in Seq(Item)
      /\ Taken(queue, queue', e)
  BY NextItemIsTaken DEF QueueOK
<1>2. /\ pc = "ready" /\ pc' = "ready"
      /\ UNCHANGED <<fs, refused, jobs, listing, lost, asked, reply>>
  BY DEF NextItem, switchVars, service
<1>3. Listed' = Listed /\ ~Listing'
  BY <1>2 DEF Listed, Listing, Call
<1>4. SUFFICES ASSUME NEW c \in Channels \ lost
               PROVE  LiveOK(c)' /\ (Live(c)' => DataOK(c)')
  BY <1>2 DEF MapInv
<1>5. LiveOK(c) /\ (Live(c) => DataOK(c))
  BY <1>4 DEF MapInv
<1>6. Live(c)' = Live(c) /\ Live(c) \in BOOLEAN
  BY <1>2 DEF Live
<1> DEFINE ch == channels[c]
           x == channels'[c]
           now == fs[c]
           own == e.type \in Kinds /\ e.of = c
<1>7. /\ ch \in Entry /\ x \in Entry /\ now \in FsChannel /\ fs'[c] = now
      /\ Made(x, ch, c, e)
  BY <1>2 DEF ChannelMap, Entry, SwitchOK, FsChannel
<1> HIDE DEF ch, x, now
<1>8. LiveOK(c)'
  <2>1. NewsOK(queue, c, Live(c))
    BY <1>5 DEF LiveOK
  <2>2. NewsOK(queue', c, Live(c))
    BY <1>1, <2>1, NewsTaken
  <2>3. ASSUME About(queue', c, News) = {}
        PROVE  /\ x # None => Live(c)
               /\ Listed => (x # None) = Live(c)
    <3>1. CASE own
      <4>1. Follows(x, ch, e)
        BY <1>7, <3>1 DEF Made
      <4>2. About(queue, c, News) = {} => (x = None <=> ch = None)
        BY <1>1, <2>3, <3>1, <4>1, OwnNewsTaken
      <4>3. ASSUME About(queue, c, News) # {}
            PROVE  x # None <=> Live(c)
        <5>1. /\ 1 \in About(queue, c, News) /\ LastAbout(queue, c, News, 1)
              /\ queue[1].type = "create" <=> x # None
          BY <1>1, <2>3, <3>1, <4>1, <4>3, OwnNewsTaken
        <5>2. (queue[1].type = "create") = Live(c)
          BY <2>1, <5>1 DEF NewsOK
        <5>3. QED
          BY <1>6, <5>1, <5>2
      <4>4. QED
        BY <1>5, <1>6, <4>2, <4>3 DEF LiveOK, ch
    <3>2. CASE ~own
      <4>1. x = None <=> ch = None
        BY <1>7, <3>2 DEF Made
      <4>2. News \subseteq Kinds
        BY DEF News, Kinds
      <4>3. \A j \in About(queue, c, News) : j - 1 \in About(queue', c, News)
        BY <1>1, <3>2, <4>2, OthersTaken
      <4>4. About(queue, c, News) = {}
        BY <2>3, <4>3
      <4>5. QED
        BY <1>5, <1>6, <4>1, <4>4 DEF LiveOK, ch
    <3>3. QED
      BY <3>1, <3>2
  <2>4. QED
    BY <1>3, <1>6, <2>2, <2>3 DEF LiveOK, x
<1>9. ASSUME Live(c)
      PROVE  DataOK(c)'
  <2>1. /\ EventsOK(queue, c, now) /\ EntryOK(queue, c, ch, now)
        /\ \A d \in Dumps(c) : DumpOK(queue, c, ch, now, d)
    BY <1>5, <1>9 DEF DataOK, ch, now
  <2>2. EventsOK(queue', c, now)
    BY <1>1, <1>7, <2>1, EventsTaken
  <2>3. EntryOK(queue', c, x, now)
    <3>1. CASE own
      <4>1. Follows(x, ch, e)
        BY <1>7, <3>1 DEF Made
      <4>2. QED
        BY <1>1, <1>7, <2>1, <3>1, <4>1, OwnEntryTaken
    <3>2. CASE ~own /\ x = ch
      BY <1>1, <2>1, <3>2, EntryTaken
    <3>3. CASE ~own /\ x # ch
      <4>1. /\ e.type = "job" /\ e.ver \in Nat /\ Newer(x, ch)
            /\ Sound(x) => e.of = c /\ ch.ver <= e.ver
            /\ x.ver = e.ver
            /\ x.leg => ch.leg \/ e.leg
        BY <1>7, <3>3 DEF Made
      <4>2. e.of = c => DumpOK(queue, c, ch, now, e)
        <5>1. ASSUME e.of = c
              PROVE  e \in Dumps(c)
          <6>1. 1 \in 1..Len(queue) /\ queue[1] = e
            <7>1. 1 <= Len(queue) /\ Len(queue) \in Nat
              BY <1>1 DEF Taken
            <7>2. QED
              BY <1>1, <7>1 DEF Taken
          <6>2. 1 \in About(queue, c, {"job"})
            BY <4>1, <5>1, <6>1 DEF About
          <6>3. QED
            BY <6>1, <6>2 DEF Dumps
        <5>2. QED
          BY <2>1, <5>1
      <4>3. QED
        BY <1>1, <1>7, <2>1, <4>1, <4>2, MergedEntryTaken
    <3>4. QED
      BY <3>1, <3>2, <3>3
  <2>4. ASSUME NEW d \in Dumps(c)'
        PROVE  DumpOK(queue', c, x, now, d)
    <3>1. d \in Dumps(c)
      <4>1. \A i \in About(queue', c, {"job"}) :
                i + 1 \in About(queue, c, {"job"}) /\ queue'[i] = queue[i + 1]
        BY <1>1, AboutTaken
      <4>2. CASE d \in {queue'[i] : i \in About(queue', c, {"job"})}
        <5>1. PICK i \in About(queue', c, {"job"}) : d = queue'[i]
          BY <4>2
        <5>2. i + 1 \in About(queue, c, {"job"}) /\ d = queue[i + 1]
          BY <4>1, <5>1
        <5>3. QED
          BY <5>2 DEF Dumps
      <4>3. CASE d \notin {queue'[i] : i \in About(queue', c, {"job"})}
        BY <1>2, <2>4, <4>3 DEF Dumps
      <4>4. QED
        BY <4>2, <4>3
    <3>2. d.ver \in Nat /\ DumpOK(queue, c, ch, now, d)
      BY <2>1, <3>1, DumpTypes
    <3>3. CASE own
      <4>1. Follows(x, ch, e)
        BY <1>7, <3>3 DEF Made
      <4>2. QED
        BY <1>1, <1>7, <2>1, <3>2, <3>3, <4>1, OwnDumpTaken
    <3>4. CASE ~own
      <4>1. Newer(x, ch)
        BY <1>7, <3>4 DEF Made
      <4>2. QED
        BY <1>1, <1>7, <3>2, <3>4, <4>1, DumpTaken
    <3>5. QED
      BY <3>3, <3>4
  <2>5. QED
    BY <1>3, <1>7, <2>2, <2>3, <2>4 DEF DataOK, x
<1>10. QED
  BY <1>6, <1>8, <1>9

LEMMA UnbornTaken ==
    ASSUME QueueOK, UnbornInv, NEW e, NextItem(e),
           \A c \in Channels : Made(channels'[c], channels[c], c, e)
    PROVE  UnbornInv'
<1>1. queue \in Seq(Item) /\ queue' \in Seq(Item) /\ Taken(queue, queue', e)
  BY NextItemIsTaken DEF QueueOK
<1>2. UNCHANGED <<fs, jobs, listing>>
  BY DEF NextItem, switchVars
<1>3. ASSUME NEW c \in Channels, fs'[c].life = "unborn"
      PROVE  /\ fs'[c].ver = 0 /\ ~fs'[c].leg
             /\ About(queue', c, Types) = {}
             /\ channels'[c] = None
             /\ \A r \in Requests : jobs'[r].dump.of # c
             /\ \A row \in listing' : row[1] # c
  <2>1. /\ fs[c].ver = 0 /\ ~fs[c].leg
        /\ About(queue, c, Types) = {}
        /\ channels[c] = None
        /\ \A r \in Requests : jobs[r].dump.of # c
        /\ \A row \in listing : row[1] # c
    BY <1>2, <1>3 DEF UnbornInv
  <2>2. About(queue', c, Types) = {}
    <3>1. \A i \in About(queue', c, Types) : i + 1 \in About(queue, c, Types)
      BY <1>1, AboutTaken
    <3>2. QED
      BY <2>1, <3>1
  <2>3. ~(e.type \in Kinds /\ e.of = c)
    <3>1. 1 \notin About(queue, c, Types)
      BY <2>1
    <3>2. ~(e.type \in Types /\ e.of = c)
      BY <1>1, <3>1, AboutTaken
    <3>3. QED
      BY <3>2 DEF Types
  <2>4. channels'[c] = None
    BY <2>1, <2>3 DEF Made
  <2>5. QED
    BY <1>2, <2>1, <2>2, <2>4
<1>4. QED
  BY <1>3 DEF UnbornInv

LEMMA CallTaken ==
    ASSUME TrackerInv, CallInv, NEW e, NextItem(e)
    PROVE  CallInv'
<1>1. QueueOK /\ Call \in Nat
  BY JobsAreLate DEF TrackerInv
<1>2. /\ queue \in Seq(Item) /\ queue' \in Seq(Item)
      /\ \A i \in 1..Len(queue') : queue'[i] = queue[i + 1] /\ i + 1 \in 1..Len(queue)
  BY <1>1, NextItemTakes DEF QueueOK
<1>3. pc = "ready" /\ UNCHANGED <<pc, asked, subscribed, refused, reply, listener, owed>>
  BY DEF NextItem, switchVars, service
<1>4. Call >= 2 /\ subscribed
  BY <1>3 DEF CallInv
<1>5. ~Early
  BY <1>1, <1>3, <1>4 DEF Early
<1>6. \A i \in 1..Len(queue') : queue'[i].type = "job" => asked[queue'[i].job] \in Channels
  BY <1>2 DEF CallInv
<1>7. QED
  BY <1>3, <1>4, <1>5, <1>6, CallKept

\* The entry as it was.
LEMMA SameMade ==
    ASSUME NEW ch \in Entry, NEW c, NEW e, ~(e.type \in Kinds /\ e.of = c)
    PROVE  Made(ch, ch, c, e)
<1>1. Sound(ch) => ch.ver \in Nat
  BY DEF Sound, Entry, TrackedChannel
<1>2. QED
  BY <1>1 DEF Made, Newer

\* main receives an item.
LEMMA MapReceived ==
    ASSUME TrackerInv, CallInv, UnbornInv, MapInv, NEW e,
           \/ e = QueueFull /\ ReceiveError
           \/ e # QueueFull /\ (ReceiveChannel(e) \/ ReceiveJob(e))
    PROVE  CallInv' /\ UnbornInv' /\ MapInv'
<1>1. SwitchOK /\ QueueOK /\ MainOK /\ channels \in ChannelMap
  BY DEF TrackerInv, MainOK, ChannelMap
<1>2. NextItem(e)
  BY DEF ReceiveError, ReceiveChannel, ReceiveJob
<1>3. e \in Item
  BY <1>1, <1>2, NextItemIsTaken
<1>4. /\ channels' \in ChannelMap
      /\ \A c \in Channels : Made(channels'[c], channels[c], c, e)
  <2>0. \A c \in Channels : channels[c] \in Entry
    BY <1>1 DEF ChannelMap, Entry
  <2>1. CASE e = QueueFull
    <3>1. channels' = channels
      BY <2>1 DEF ReceiveError, tracker, ReceiveChannel, ReceiveJob
    <3>2. e.type \notin Kinds
      BY <2>1 DEF QueueFull, Kinds
    <3>3. QED
      BY <1>1, <2>0, <3>1, <3>2, SameMade
  <2>2. CASE e # QueueFull /\ ReceiveChannel(e)
    <3>1. e.type \in Kinds /\ channels' = Processed(channels, e)
      BY <2>2 DEF ReceiveChannel
    <3>2. e \in ChannelEvent /\ e.of \in Channels
      BY <1>3, <2>2, <3>1 DEF Item, Event, JobEvent, ChannelEvent, Kinds
    <3>3. /\ channels' \in ChannelMap
          /\ \A d \in Channels : d # e.of => channels'[d] = channels[d]
          /\ Follows(channels'[e.of], channels[e.of], e)
      BY <1>1, <3>1, <3>2, ProcessedEntry
    <3>4. ASSUME NEW c \in Channels
          PROVE  Made(channels'[c], channels[c], c, e)
      <4>1. CASE c = e.of
        BY <3>1, <3>3, <4>1 DEF Made
      <4>2. CASE c # e.of
        BY <2>0, <3>3, <4>2, SameMade
      <4>3. QED
        BY <4>1, <4>2
    <3>5. QED
      BY <3>3, <3>4
  <2>3. CASE e # QueueFull /\ ReceiveJob(e)
    <3>1. /\ e.type = "job" /\ e.type \notin Kinds
          /\ channels' = IF pending[e.job] = None THEN channels
                         ELSE Dumped(channels, pending[e.job], e)
      BY <2>3 DEF ReceiveJob, Kinds
    <3>2. e \in JobEvent /\ e.job \in Requests /\ e.ver \in Nat
      BY <1>3, <2>3, <3>1 DEF Item, Event, JobEvent, ChannelEvent
    <3>3. CASE pending[e.job] = None
      BY <1>1, <2>0, <3>1, <3>3, SameMade
    <3>4. CASE pending[e.job] # None
      <4>1. PICK p \in Channels : p = pending[e.job]
        BY <1>1, <3>2, <3>4 DEF MainOK
      <4>2. channels' = Dumped(channels, p, e)
        BY <3>1, <3>4, <4>1
      <4>3. /\ channels' \in ChannelMap
            /\ \A d \in Channels : d # p => channels'[d] = channels[d]
            /\ channels'[p] = None <=> channels[p] = None
            /\ Newer(channels'[p], channels[p])
            /\ channels'[p] = channels[p]
               \/ /\ Sound(channels'[p]) => e.of = p /\ channels[p].ver <= e.ver
                  /\ channels'[p].ver = e.ver
                  /\ channels'[p].leg => channels[p].leg \/ e.leg
        BY <1>1, <3>2, <4>2, DumpedEntry
      <4>4. ASSUME NEW c \in Channels
            PROVE  Made(channels'[c], channels[c], c, e)
        <5>1. CASE c = p
          BY <3>1, <3>2, <4>3, <5>1 DEF Made
        <5>2. CASE c # p
          BY <2>0, <3>1, <4>3, <5>2, SameMade
        <5>3. QED
          BY <5>1, <5>2
      <4>5. QED
        BY <4>3, <4>4
    <3>5. QED
      BY <3>3, <3>4
  <2>4. QED
    BY <2>1, <2>2, <2>3
<1>5. QED
  BY <1>1, <1>2, <1>4, CallTaken, UnbornTaken, MapTaken

-----------------------------------------------------------------------------
(***************************************************************************)
(* What FreeSWITCH sends.                                                  *)
(***************************************************************************)

\* How channel c changes from now to next, and its event e.
ChangesTo(c, now, next, e) ==
    /\ now \in FsChannel /\ next \in FsChannel
    /\ e \in ChannelEvent /\ e.of = c /\ e.type \in Kinds
    /\ \/ /\ now.life = "unborn" /\ next.life = "live" /\ e.type = "create"
          /\ next.ver = 0 /\ ~next.leg /\ e.ver = 0 /\ e.leg = now.leg
       \/ /\ now.life = "live" /\ next.life = "live" /\ e.type \notin News
          /\ ChangeOf(e, c, now, next)
       \/ /\ now.life = "live" /\ next.life = "gone" /\ e.type = "destroy"

LEMMA ChangeStep ==
    ASSUME SwitchOK, NEW c \in Channels, NEW t \in Kinds, NEW after \in FsChannel,
           Change(c, t, after)
    PROVE  /\ fs'[c] = after
           /\ \A d \in Channels : d # c => fs'[d] = fs[d]
           /\ \E e \in ChannelEvent :
                  /\ e.type = t /\ e.of = c /\ e.ver = after.ver
                  /\ e.leg = (fs[c].leg \/ after.leg)
                  /\ IF subscribed THEN Dispatch(e) ELSE UNCHANGED queueVars
<1> DEFINE e == [type |-> t, of |-> c, ver |-> after.ver, leg |-> fs[c].leg \/ after.leg,
                 job |-> 0]
<1>1. after.ver \in Nat /\ (fs[c].leg \/ after.leg) \in BOOLEAN
  BY DEF FsChannel
<1>2. e \in ChannelEvent /\ e.type = t /\ e.of = c /\ e.ver = after.ver
      /\ e.leg = (fs[c].leg \/ after.leg)
  BY <1>1 DEF ChannelEvent
<1>3. /\ fs' = [fs EXCEPT ![c] = after]
      /\ IF subscribed THEN Dispatch(e) ELSE UNCHANGED queueVars
  BY DEF Change
<1> HIDE DEF e
<1>4. fs'[c] = after /\ \A d \in Channels : d # c => fs'[d] = fs[d]
  BY <1>3 DEF SwitchOK
<1>5. QED
  BY <1>2, <1>3, <1>4

LEMMA ChangedFields ==
    ASSUME NEW x \in FsChannel, NEW l \in BOOLEAN
    PROVE  /\ [x EXCEPT !.ver = @ + 1, !.leg = l] \in FsChannel
           /\ [x EXCEPT !.ver = @ + 1, !.leg = l].life = x.life
           /\ [x EXCEPT !.ver = @ + 1, !.leg = l].ver = x.ver + 1
           /\ [x EXCEPT !.ver = @ + 1, !.leg = l].leg = l
<1>1. x.ver + 1 \in Nat
  BY DEF FsChannel
<1>2. [x EXCEPT !.ver = @ + 1, !.leg = l] \in FsChannel
  BY <1>1 DEF FsChannel
<1>3. QED
  BY <1>2 DEF FsChannel

\* The step of one channel.
LEMMA SwitchStep ==
    ASSUME SwitchOK, FreeSwitch
    PROVE  \E c \in Channels : \E e \in ChannelEvent :
               /\ ChangesTo(c, fs[c], fs'[c], e)
               /\ \A d \in Channels : d # c => fs'[d] = fs[d]
               /\ IF subscribed THEN Dispatch(e) ELSE UNCHANGED queueVars
<1>1. PICK c \in Channels : FsCreate(c) \/ FsUpdate(c) \/ FsDestroy(c)
  BY DEF FreeSwitch
<1> DEFINE now == fs[c]
<1>2. now \in FsChannel /\ now.ver \in Nat /\ now.leg \in BOOLEAN
  BY DEF SwitchOK, FsChannel
<1>3. \A t \in {"create", "change", "bridge", "unbridge", "destroy"} : t \in Kinds
  BY DEF Kinds
<1>4. CASE FsCreate(c)
  <2> DEFINE next == [life |-> "live", ver |-> 0, leg |-> FALSE]
  <2>1. next \in FsChannel /\ next.life = "live" /\ next.ver = 0 /\ ~next.leg
    BY DEF FsChannel
  <2>2. now.life = "unborn" /\ Change(c, "create", next)
    BY <1>4 DEF FsCreate
  <2> HIDE DEF next
  <2>3. fs'[c] = next /\ \A d \in Channels : d # c => fs'[d] = fs[d]
    BY <1>3, <2>1, <2>2, ChangeStep
  <2>4. PICK e \in ChannelEvent :
            /\ e.type = "create" /\ e.of = c /\ e.ver = next.ver
            /\ e.leg = (fs[c].leg \/ next.leg)
            /\ IF subscribed THEN Dispatch(e) ELSE UNCHANGED queueVars
    BY <1>3, <2>1, <2>2, ChangeStep
  <2>5. ChangesTo(c, now, next, e)
    BY <1>2, <1>3, <2>1, <2>2, <2>4 DEF ChangesTo
  <2>6. QED
    BY <2>3, <2>4, <2>5
<1>5. CASE FsUpdate(c)
  <2>1. PICK t \in {"change", "bridge", "unbridge"}, l \in BOOLEAN :
            /\ Change(c, t, [now EXCEPT !.ver = @ + 1, !.leg = l])
            /\ t # "unbridge" /\ now.leg => l
    <3>1. CASE Change(c, "change", [now EXCEPT !.ver = @ + 1])
      <4>1. [now EXCEPT !.ver = @ + 1] = [now EXCEPT !.ver = @ + 1, !.leg = now.leg]
        BY <1>2 DEF FsChannel
      <4>2. QED
        BY <1>2, <3>1, <4>1
    <3>2. CASE Change(c, "bridge", [now EXCEPT !.ver = @ + 1, !.leg = TRUE])
      BY <3>2
    <3>3. CASE Change(c, "unbridge", [now EXCEPT !.ver = @ + 1, !.leg = FALSE])
      BY <3>3
    <3>4. QED
      BY <1>5, <3>1, <3>2, <3>3 DEF FsUpdate
  <2> DEFINE next == [now EXCEPT !.ver = @ + 1, !.leg = l]
  <2>2. now.life = "live"
    BY <1>5 DEF FsUpdate, Live
  <2>3. next \in FsChannel /\ next.life = "live" /\ next.ver = now.ver + 1 /\ next.leg = l
    BY <1>2, <2>2, ChangedFields
  <2> HIDE DEF next
  <2>4. t \in Kinds /\ t \notin News /\ t # "create" /\ t # "destroy"
    BY <1>3 DEF News
  <2>5. Change(c, t, next)
    BY <2>1 DEF next
  <2>6. fs'[c] = next /\ \A d \in Channels : d # c => fs'[d] = fs[d]
    BY <2>3, <2>4, <2>5, ChangeStep
  <2>7. PICK e \in ChannelEvent :
            /\ e.type = t /\ e.of = c /\ e.ver = next.ver
            /\ e.leg = (fs[c].leg \/ next.leg)
            /\ IF subscribed THEN Dispatch(e) ELSE UNCHANGED queueVars
    BY <2>3, <2>4, <2>5, ChangeStep
  <2>8. ChangeOf(e, c, now, next)
    BY <2>1, <2>3, <2>4, <2>7 DEF ChangeOf
  <2>9. ChangesTo(c, now, next, e)
    BY <1>2, <2>2, <2>3, <2>4, <2>7, <2>8 DEF ChangesTo
  <2>10. QED
    BY <2>6, <2>7, <2>9
<1>6. CASE FsDestroy(c)
  <2> DEFINE next == [now EXCEPT !.life = "gone", !.leg = FALSE]
  <2>1. next \in FsChannel /\ next.life = "gone"
    BY <1>2 DEF FsChannel
  <2>2. now.life = "live" /\ Change(c, "destroy", next)
    BY <1>6 DEF FsDestroy, Live
  <2> HIDE DEF next
  <2>3. fs'[c] = next /\ \A d \in Channels : d # c => fs'[d] = fs[d]
    BY <1>3, <2>1, <2>2, ChangeStep
  <2>4. PICK e \in ChannelEvent :
            /\ e.type = "destroy" /\ e.of = c
            /\ IF subscribed THEN Dispatch(e) ELSE UNCHANGED queueVars
    BY <1>3, <2>1, <2>2, ChangeStep
  <2>5. ChangesTo(c, now, next, e)
    BY <1>2, <1>3, <2>1, <2>2, <2>4 DEF ChangesTo
  <2>6. QED
    BY <2>3, <2>4, <2>5
<1>7. QED
  BY <1>1, <1>4, <1>5, <1>6

\* An event of another channel, lost or not, says nothing of channel c.
LEMMA NothingDispatched ==
    ASSUME QueueOK, NEW e \in Event, Dispatch(e), NEW c, e.of # c,
           About(queue, c, Types) = {}
    PROVE  About(queue', c, Types) = {}
<1>1. /\ \A i \in 1..Len(queue) : queue'[i] = queue[i]
      /\ \A i \in (Len(queue) + 1)..Len(queue') : queue'[i] \in {e, QueueFull}
      /\ Len(queue) \in Nat /\ Len(queue') \in Nat
  BY DispatchAdds DEF QueueOK
<1>2. ASSUME NEW i \in 1..Len(queue')
      PROVE  ~(queue'[i].type \in Types /\ queue'[i].of = c)
  <2>1. CASE i \in 1..Len(queue)
    BY <1>1, <2>1 DEF About
  <2>2. CASE i \notin 1..Len(queue)
    <3>1. i \in (Len(queue) + 1)..Len(queue')
      BY <1>1, <2>2
    <3>2. queue'[i] = e \/ queue'[i] = QueueFull
      BY <1>1, <3>1
    <3>3. QueueFull.type \notin Types
      BY DEF QueueFull, Types, Kinds
    <3>4. QED
      BY <3>2, <3>3
  <2>3. QED
    BY <2>1, <2>2
<1>3. QED
  BY <1>2 DEF About

LEMMA UnbornDispatched ==
    ASSUME QueueOK, UnbornInv, UNCHANGED <<channels, jobs, listing>>,
           NEW c \in Channels, NEW e \in ChannelEvent, ChangesTo(c, fs[c], fs'[c], e),
           \A d \in Channels : d # c => fs'[d] = fs[d],
           Dispatch(e) \/ UNCHANGED queueVars
    PROVE  UnbornInv'
<1>1. ASSUME NEW d \in Channels, fs'[d].life = "unborn"
      PROVE  /\ fs'[d].ver = 0 /\ ~fs'[d].leg
             /\ About(queue', d, Types) = {}
             /\ channels'[d] = None
             /\ \A r \in Requests : jobs'[r].dump.of # d
             /\ \A row \in listing' : row[1] # d
  <2>1. d # c
    BY <1>1 DEF ChangesTo
  <2>2. fs'[d] = fs[d]
    BY <2>1
  <2>3. /\ fs[d].ver = 0 /\ ~fs[d].leg
        /\ About(queue, d, Types) = {}
        /\ channels[d] = None
        /\ \A r \in Requests : jobs[r].dump.of # d
        /\ \A row \in listing : row[1] # d
    BY <1>1, <2>2 DEF UnbornInv
  <2>4. About(queue', d, Types) = {}
    <3>1. CASE Dispatch(e)
      <4>1. e \in Event /\ e.of # d
        BY <2>1 DEF Event, ChangesTo
      <4>2. QED
        BY <2>3, <3>1, <4>1, NothingDispatched
    <3>2. CASE UNCHANGED queueVars
      BY <2>3, <3>2 DEF queueVars
    <3>3. QED
      BY <3>1, <3>2
  <2>5. QED
    BY <2>2, <2>3, <2>4
<1>2. QED
  BY <1>1 DEF UnbornInv

\* The event of another channel joins the queue, or a notification does.
LEMMA OthersKept ==
    ASSUME QueueOK, QueueOK', NEW e, queue' = queue \/ Appended(queue, queue', e),
           UNCHANGED <<jobs, channels>>, Listed' = Listed, Listing' = Listing,
           Listing => listing' = listing,
           NEW c \in Channels, ~(e.type \in Types /\ e.of = c), fs'[c] = fs[c],
           LiveOK(c), Live(c) => DataOK(c)
    PROVE  LiveOK(c)' /\ (Live(c)' => DataOK(c)')
<1>1. queue \in Seq(Item) /\ queue' \in Seq(Item)
  BY DEF QueueOK
<1>2. Live(c)' = Live(c) /\ ~(e.type \in Kinds /\ e.of = c)
  BY DEF Live, Types
<1>3. /\ \A live : NewsOK(queue, c, live) => NewsOK(queue', c, live)
      /\ About(queue', c, News) = About(queue, c, News)
      /\ About(queue', c, Kinds) = About(queue, c, Kinds)
      /\ \A now : EventsOK(queue, c, now) => EventsOK(queue', c, now)
      /\ \A ch, now : EntryOK(queue, c, ch, now) => EntryOK(queue', c, ch, now)
      /\ \A ch, now, d : DumpOK(queue, c, ch, now, d) => DumpOK(queue', c, ch, now, d)
  BY <1>1, <1>2, OthersAppended
<1>4. LiveOK(c)'
  <2>1. NewsOK(queue', c, Live(c))
    BY <1>3 DEF LiveOK
  <2>2. About(queue', c, News) = {} =>
            /\ channels[c] # None => Live(c)
            /\ Listed => (channels[c] # None) = Live(c)
            /\ Listing => (\E row \in listing' : row[1] = c) = Live(c)
    BY <1>3 DEF LiveOK
  <2>3. QED
    BY <1>2, <2>1, <2>2 DEF LiveOK
<1>5. ASSUME Live(c)
      PROVE  DataOK(c)'
  <2>1. Dumps(c)' = Dumps(c)
    <3>1. ~(e.type \in {"job"} /\ e.of = c) /\ {"job"} \in SUBSET Types
      BY DEF Types
    <3>2. CASE Appended(queue, queue', e)
      <4>1. /\ About(queue', c, {"job"}) = About(queue, c, {"job"})
                   \cup (IF e.type \in {"job"} /\ e.of = c THEN {Len(queue')} ELSE {})
            /\ \A i \in About(queue, c, {"job"}) : queue'[i] = queue[i]
        BY <1>1, <3>1, <3>2, AboutAppended
      <4>2. About(queue', c, {"job"}) = About(queue, c, {"job"})
        BY <3>1, <4>1
      <4>3. QED
        BY <4>1, <4>2 DEF Dumps
    <3>3. CASE queue' = queue
      BY <3>3 DEF Dumps
    <3>4. QED
      BY <3>2, <3>3
  <2>2. EventsOK(queue', c, fs'[c]) /\ EntryOK(queue', c, channels'[c], fs'[c])
    BY <1>3, <1>5 DEF DataOK
  <2>3. Listing' /\ About(queue', c, Kinds) = {} =>
            \A row \in listing' : row[1] = c => row[2] = fs'[c].ver
    BY <1>3, <1>5 DEF DataOK
  <2>4. \A d \in Dumps(c)' : DumpOK(queue', c, channels'[c], fs'[c], d)
    BY <1>3, <1>5, <2>1 DEF DataOK
  <2>5. QED
    BY <2>2, <2>3, <2>4 DEF DataOK
<1>6. QED
  BY <1>2, <1>4, <1>5

\* So does the event of the channel itself.
LEMMA OwnKept ==
    ASSUME SwitchOK, QueueOK, QueueOK', channels \in ChannelMap,
           NEW e, Appended(queue, queue', e),
           UNCHANGED <<jobs, channels, listing>>, Listed' = Listed, Listing' = Listing,
           NEW c \in Channels, ChangesTo(c, fs[c], fs'[c], e), UnbornInv,
           LiveOK(c), Live(c) => DataOK(c)
    PROVE  LiveOK(c)' /\ (Live(c)' => DataOK(c)')
<1> DEFINE now == fs[c]
           next == fs'[c]
           ch == channels[c]
           live == Live(c)
           soon == Live(c)'
<1>1. queue \in Seq(Item) /\ queue' \in Seq(Item)
  BY DEF QueueOK
<1>2. e \in ChannelEvent /\ e.of = c /\ e.type \in Kinds
  BY DEF ChangesTo
<1>3. /\ now \in FsChannel /\ next \in FsChannel /\ ch \in Entry
      /\ live = (now.life = "live") /\ soon = (next.life = "live")
  BY DEF ChangesTo, ChannelMap, Entry, Live
<1>4. About(queue', c, Kinds) # {}
  <2>1. Kinds \in SUBSET Types
    BY DEF Types
  <2>2. About(queue', c, Kinds) = About(queue, c, Kinds)
            \cup (IF e.type \in Kinds /\ e.of = c THEN {Len(queue')} ELSE {})
    BY <1>1, <2>1, AboutAppended
  <2>3. QED
    BY <1>2, <2>2
<1>5. Dumps(c)' = Dumps(c)
  <2>1. e.type \notin {"job"} /\ {"job"} \in SUBSET Types
    BY <1>2 DEF Kinds, Types
  <2>2. /\ About(queue', c, {"job"}) = About(queue, c, {"job"})
               \cup (IF e.type \in {"job"} /\ e.of = c THEN {Len(queue')} ELSE {})
        /\ \A i \in About(queue, c, {"job"}) : queue'[i] = queue[i]
    BY <1>1, <2>1, AboutAppended
  <2>3. About(queue', c, {"job"}) = About(queue, c, {"job"})
    BY <2>1, <2>2
  <2>4. QED
    BY <2>2, <2>3 DEF Dumps
<1>6. LiveOK(c)'
  <2>1. IF e.type \in News THEN (e.type = "create") = soon ELSE live = soon
    BY <1>3 DEF ChangesTo, News
  <2>2. NewsOK(queue, c, live)
    BY DEF LiveOK
  <2> HIDE DEF live, soon
  <2>3. NewsOK(queue', c, soon)
    BY <1>1, <1>2, <2>1, <2>2, NewsAppended
  <2>4. ASSUME About(queue', c, News) = {}
        PROVE  About(queue, c, News) = {} /\ live = soon
    <3>1. About(queue, c, News) = {}
      BY <1>1, <1>2, <2>1, <2>2, <2>4, NewsAppended, ZenonT(30)
    <3>2. e.type \notin News
      BY <1>1, <1>2, <2>1, <2>2, <2>4, NewsAppended
    <3>3. QED
      BY <2>1, <3>1, <3>2
  <2> USE DEF live, soon
  <2>5. About(queue', c, News) = {} =>
            /\ channels[c] # None => Live(c)'
            /\ Listed => (channels[c] # None) = Live(c)'
            /\ Listing => (\E row \in listing : row[1] = c) = Live(c)'
    BY <2>4 DEF LiveOK
  <2>6. QED
    BY <2>3, <2>5 DEF LiveOK
<1>7. ASSUME Live(c)'
      PROVE  DataOK(c)'
  <2>1. CASE now.life = "unborn"
    <3>1. /\ now.ver = 0 /\ ~now.leg /\ About(queue, c, Types) = {} /\ ch = None
          /\ \A r \in Requests : jobs[r].dump.of # c
      BY <2>1 DEF UnbornInv
    <3>2. \A types \in SUBSET Types : About(queue, c, types) = {}
      BY <3>1 DEF About
    <3>3. /\ Kinds \in SUBSET Types /\ Kinds \ {"unbridge"} \in SUBSET Types
          /\ {"job"} \in SUBSET Types
      BY DEF Types
    <3>4. EventsOK(queue, c, now)
      BY <3>2, <3>3 DEF EventsOK
    <3>5. ChangeOf(e, c, now, next)
      BY <1>2, <2>1, <3>1 DEF ChangesTo, ChangeOf, FsChannel, ChannelEvent
    <3>6. EventsOK(queue', c, next)
      BY <1>1, <1>3, <3>4, <3>5, EventsAppended
    <3>7. EntryOK(queue', c, ch, next)
      BY <3>1 DEF EntryOK, Sound
    <3>8. Dumps(c) = {}
      BY <3>1, <3>2, <3>3 DEF Dumps
    <3>9. QED
      BY <1>4, <1>5, <3>6, <3>7, <3>8 DEF DataOK
  <2>2. CASE now.life = "live"
    <3>1. /\ EventsOK(queue, c, now) /\ EntryOK(queue, c, ch, now)
          /\ \A d \in Dumps(c) : DumpOK(queue, c, ch, now, d)
      BY <1>3, <2>2 DEF DataOK
    <3>2. ChangeOf(e, c, now, next) /\ e.type # "create"
      BY <1>3, <1>7, <2>2 DEF ChangesTo, News
    <3>3. EventsOK(queue', c, next)
      BY <1>1, <1>3, <3>1, <3>2, EventsAppended
    <3>4. EntryOK(queue', c, ch, next)
      BY <1>1, <1>3, <3>1, <3>2, EntryAppended
    <3>5. ASSUME NEW d \in Dumps(c)
          PROVE  DumpOK(queue', c, ch, next, d)
      <4>1. d.ver \in Nat
        BY DumpTypes
      <4>2. QED
        BY <1>1, <1>3, <3>1, <3>2, <4>1, DumpAppended
    <3>6. QED
      BY <1>4, <1>5, <3>3, <3>4, <3>5 DEF DataOK
  <2>3. QED
    BY <1>3, <1>7, <2>1, <2>2 DEF ChangesTo
<1>8. QED
  BY <1>6, <1>7

\* A channel changes.
LEMMA MapSwitched ==
    ASSUME TrackerInv, CallInv, UnbornInv, MapInv, FreeSwitch
    PROVE  CallInv' /\ UnbornInv' /\ MapInv'
<1>1. SwitchOK /\ QueueOK /\ channels \in ChannelMap /\ Call \in Nat
  BY JobsAreLate DEF TrackerInv, MainOK, ChannelMap
<1>2. /\ UNCHANGED <<subscribed, refused, jobs, listing, pc, asked, channels>>
      /\ UNCHANGED <<listener, owed, reply>>
  BY <1>1, SwitchChanges DEF tracker, service
<1>3. PICK c \in Channels, e \in ChannelEvent :
          /\ ChangesTo(c, fs[c], fs'[c], e)
          /\ \A d \in Channels : d # c => fs'[d] = fs[d]
          /\ IF subscribed THEN Dispatch(e) ELSE UNCHANGED queueVars
  BY <1>1, SwitchStep
<1>4. e \in Event /\ e.type \in Kinds /\ e.of = c /\ e.type # "job"
  BY <1>3 DEF ChangesTo, Event, Kinds
<1>5. Listed' = Listed /\ Listing' = Listing
  BY <1>2 DEF Listed, Listing, Call
<1>6. UnbornInv'
  BY <1>1, <1>2, <1>3, UnbornDispatched
<1>7. CASE subscribed
  <2>1. Dispatch(e)
    BY <1>3, <1>7
  <2>2. /\ QueueOK' /\ lost \subseteq lost'
        /\ \/ Appended(queue, queue', e)
           \/ Dropped(queue, queue') /\ c \in lost'
    BY <1>1, <1>4, <2>1, DispatchAppends DEF Subject
  <2>3. CallInv'
    <3>1. /\ \A i \in 1..Len(queue) : queue'[i] = queue[i]
          /\ \A i \in (Len(queue) + 1)..Len(queue') : queue'[i] \in {e, QueueFull}
          /\ Len(queue) \in Nat /\ Len(queue') \in Nat
      BY <1>1, <1>4, <2>1, <2>2, DispatchAdds DEF QueueOK
    <3>2. \A i \in 1..Len(queue') :
              \/ i \in 1..Len(queue) /\ queue'[i] = queue[i]
              \/ queue'[i].type # "job"
      BY <1>4, <3>1 DEF QueueFull
    <3>3. \A i \in 1..Len(queue') : queue'[i].type = "job" => asked[queue'[i].job] \in Channels
      BY <3>2 DEF CallInv
    <3>4. QED
      BY <1>2, <1>7, <3>3, CallKept
  <2>4. MapInv'
    <3>1. SUFFICES ASSUME NEW d \in Channels \ lost'
                   PROVE  LiveOK(d)' /\ (Live(d)' => DataOK(d)')
      BY DEF MapInv
    <3>2. LiveOK(d) /\ (Live(d) => DataOK(d))
      BY <2>2, <3>1 DEF MapInv
    <3>3. CASE d = c
      <4>1. Appended(queue, queue', e)
        BY <2>2, <3>1, <3>3
      <4>2. QED
        BY <1>1, <1>2, <1>3, <1>5, <2>2, <3>2, <3>3, <4>1, OwnKept
    <3>4. CASE d # c
      <4>1. fs'[d] = fs[d] /\ e.of # d
        BY <1>3, <1>4, <3>4
      <4>2. CASE Appended(queue, queue', e)
        BY <1>1, <1>2, <1>5, <2>2, <3>2, <4>1, <4>2, OthersKept
      <4>3. CASE Dropped(queue, queue')
        <5>1. QueueFull.type \notin Types
          BY DEF QueueFull, Types, Kinds
        <5>2. queue' = queue \/ Appended(queue, queue', QueueFull)
          BY <4>3 DEF Dropped
        <5>3. QED
          BY <1>1, <1>2, <1>5, <2>2, <3>2, <4>1, <5>1, <5>2, OthersKept
      <4>4. QED
        BY <2>2, <4>2, <4>3
    <3>5. QED
      BY <3>3, <3>4
  <2>5. QED
    BY <1>6, <2>3, <2>4
<1>8. CASE ~subscribed
  <2>1. UNCHANGED <<queue, lost>> /\ queue = << >>
    BY <1>3, <1>8 DEF queueVars, CallInv
  <2>2. CallInv'
    BY <1>2, <2>1, CallKept DEF CallInv
  <2>3. Call < 2
    BY <1>1, <1>8 DEF CallInv
  <2>4. ~Listed /\ ~Listing
    <3>1. reply[2] = 2 => Call >= 2
      <4>1. 2 \in Requests /\ 2 # None
        BY JobsAreLate, RequestsAreNumbers
      <4>2. QED
        BY <4>1 DEF CallInv
    <3>2. QED
      BY <1>1, <2>3, <3>1 DEF Listed, Listing
  <2>5. ASSUME NEW d \in Channels
        PROVE  LiveOK(d)' /\ DataOK(d)'
    <3>1. channels'[d] = None
      BY <1>2, <2>3 DEF CallInv, Early
    <3>2. \A types : About(queue', d, types) = {}
      BY <2>1, EmptySeq DEF About
    <3>3. Dumps(d)' = {}
      <4>1. \A r \in Requests : jobs[r].state # "run"
        BY <1>1, <2>3, JobsAreLate
      <4>2. QED
        BY <1>2, <3>2, <4>1 DEF Dumps
    <3>4. LiveOK(d)'
      BY <1>5, <2>4, <3>1, <3>2 DEF LiveOK, NewsOK
    <3>5. DataOK(d)'
      BY <1>5, <2>4, <3>1, <3>2, <3>3 DEF DataOK, EventsOK, EntryOK, Sound
    <3>6. QED
      BY <3>4, <3>5
  <2>6. QED
    BY <1>6, <2>2, <2>5 DEF MapInv
<1>9. QED
  BY <1>7, <1>8

\* What a job tells is its dump.
LEMMA JobSends ==
    ASSUME SwitchOK, NEW r \in Requests, EndJob(r)
    PROVE  /\ jobs[r].state = "run"
           /\ \A q \in Requests : /\ jobs'[q].dump = jobs[q].dump
                                  /\ jobs'[q].state = "run" => jobs[q].state = "run"
           /\ \E e \in JobEvent :
                  /\ e.job = r /\ e.of = jobs[r].dump.of /\ e.ver = jobs[r].dump.ver
                  /\ e.leg = jobs[r].dump.leg
                  /\ Dispatch(e)
<1> DEFINE d == jobs[r].dump
           e == [type |-> "job", of |-> d.of, ver |-> d.ver, leg |-> d.leg, job |-> r]
<1>1. d \in Dump
  BY DEF SwitchOK
<1>2. e \in JobEvent /\ e.job = r /\ e.of = d.of /\ e.ver = d.ver /\ e.leg = d.leg
  BY <1>1 DEF Dump, JobEvent
<1>3. jobs' = [jobs EXCEPT ![r].state = "told"] /\ jobs[r].state = "run" /\ Dispatch(e)
  BY DEF EndJob
<1> HIDE DEF e
<1>4. \A q \in Requests : /\ jobs'[q].dump = jobs[q].dump
                          /\ jobs'[q].state = "run" => jobs[q].state = "run"
  BY <1>3 DEF SwitchOK
<1>5. QED
  BY <1>2, <1>3, <1>4

LEMMA SameDump ==
    ASSUME NEW q, NEW c, NEW ch, NEW now, NEW d, NEW e,
           e.ver = d.ver, e.leg = d.leg, DumpOK(q, c, ch, now, d)
    PROVE  DumpOK(q, c, ch, now, e)
  BY DEF DumpOK, Overtaken

\* A job ends.
LEMMA MapTold ==
    ASSUME TrackerInv, CallInv, UnbornInv, MapInv, NEW r \in Requests, EndJob(r)
    PROVE  CallInv' /\ UnbornInv' /\ MapInv'
<1>1. SwitchOK /\ QueueOK /\ OrderInv
  BY DEF TrackerInv
<1>2. /\ UNCHANGED <<fs, subscribed, refused, listing, pc, asked, channels>>
      /\ UNCHANGED <<listener, owed, reply>>
  BY DEF EndJob, tracker, service
<1>3. /\ jobs[r].state = "run"
      /\ \A q \in Requests : /\ jobs'[q].dump = jobs[q].dump
                             /\ jobs'[q].state = "run" => jobs[q].state = "run"
  BY <1>1, JobSends
<1>4. PICK e \in JobEvent :
          /\ e.job = r /\ e.of = jobs[r].dump.of /\ e.ver = jobs[r].dump.ver
          /\ e.leg = jobs[r].dump.leg
          /\ Dispatch(e)
  BY <1>1, JobSends
<1>5. e \in Event /\ e.type = "job" /\ e.type \notin Kinds
  BY DEF Event, JobEvent, Kinds
<1>6. Listed' = Listed /\ Listing' = Listing
  BY <1>2 DEF Listed, Listing, Call
<1>7. /\ QueueOK' /\ lost \subseteq lost'
      /\ Appended(queue, queue', e) \/ Dropped(queue, queue')
  BY <1>1, <1>4, <1>5, DispatchAppends
<1>8. /\ \A i \in 1..Len(queue) : queue'[i] = queue[i]
      /\ \A i \in (Len(queue) + 1)..Len(queue') : queue'[i] \in {e, QueueFull}
      /\ Len(queue) \in Nat /\ Len(queue') \in Nat
  BY <1>1, <1>4, <1>5, <1>7, DispatchAdds DEF QueueOK
<1>9. CallInv'
  <2>1. Call > 2 /\ Call \in Nat
    BY <1>3, JobsAreLate
  <2>2. subscribed
    BY <2>1 DEF CallInv
  <2>3. asked[r] \in Channels
    BY <1>1, <1>3 DEF OrderInv
  <2>4. \A i \in 1..Len(queue') :
            \/ i \in 1..Len(queue) /\ queue'[i] = queue[i]
            \/ queue'[i] = e
            \/ queue'[i].type # "job"
    BY <1>8 DEF QueueFull
  <2>5. \A i \in 1..Len(queue') : queue'[i].type = "job" => asked[queue'[i].job] \in Channels
    BY <1>4, <2>3, <2>4 DEF CallInv
  <2>6. QED
    BY <1>2, <2>2, <2>5, CallKept
<1>10. UnbornInv'
  <2>1. ASSUME NEW c \in Channels, fs'[c].life = "unborn"
        PROVE  /\ fs'[c].ver = 0 /\ ~fs'[c].leg
               /\ About(queue', c, Types) = {}
               /\ channels'[c] = None
               /\ \A q \in Requests : jobs'[q].dump.of # c
               /\ \A row \in listing' : row[1] # c
    <3>1. /\ fs[c].ver = 0 /\ ~fs[c].leg
          /\ About(queue, c, Types) = {}
          /\ channels[c] = None
          /\ \A q \in Requests : jobs[q].dump.of # c
          /\ \A row \in listing : row[1] # c
      BY <1>2, <2>1 DEF UnbornInv
    <3>2. About(queue', c, Types) = {}
      <4>1. e.of # c
        BY <1>4, <3>1
      <4>2. QueueOK /\ e \in Event /\ Dispatch(e) /\ About(queue, c, Types) = {}
        BY <1>1, <1>4, <1>5, <3>1
      <4>3. QED
        BY <4>1, <4>2, NothingDispatched
    <3>3. QED
      BY <1>2, <1>3, <3>1, <3>2
  <2>2. QED
    BY <2>1 DEF UnbornInv
<1>11. MapInv'
  <2>1. SUFFICES ASSUME NEW c \in Channels \ lost'
                 PROVE  LiveOK(c)' /\ (Live(c)' => DataOK(c)')
    BY DEF MapInv
  <2>2. LiveOK(c) /\ (Live(c) => DataOK(c))
    BY <1>7, <2>1 DEF MapInv
  <2>3. queue \in Seq(Item) /\ queue' \in Seq(Item)
    BY <1>1, <1>7 DEF QueueOK
  <2>4. Live(c)' = Live(c)
    BY <1>2 DEF Live
  <2>5. /\ \A live : NewsOK(queue, c, live) => NewsOK(queue', c, live)
        /\ About(queue', c, News) = About(queue, c, News)
        /\ About(queue', c, Kinds) = About(queue, c, Kinds)
        /\ \A now : EventsOK(queue, c, now) => EventsOK(queue', c, now)
        /\ \A ch, now : EntryOK(queue, c, ch, now) => EntryOK(queue', c, ch, now)
        /\ \A ch, now, d : DumpOK(queue, c, ch, now, d) => DumpOK(queue', c, ch, now, d)
    <3>1. PICK x \in {e, QueueFull} : queue' = queue \/ Appended(queue, queue', x)
      BY <1>7 DEF Dropped
    <3>2. x.type \notin Kinds
      BY <1>5 DEF QueueFull, Kinds
    <3>3. QED
      BY <2>3, <3>1, <3>2, OthersAppended
  <2>6. LiveOK(c)'
    BY <1>2, <1>6, <2>2, <2>4, <2>5 DEF LiveOK
  <2>7. ASSUME Live(c)
        PROVE  DataOK(c)'
    <3>1. ASSUME NEW d \in Dumps(c)'
          PROVE  \E old \in Dumps(c) : d.ver = old.ver /\ d.leg = old.leg
      <4>1. CASE d \in {queue'[i] : i \in About(queue', c, {"job"})}
        <5>1. PICK i \in About(queue', c, {"job"}) : d = queue'[i]
          BY <4>1
        <5>2. i \in 1..Len(queue') /\ queue'[i].type = "job" /\ queue'[i].of = c
          BY DEF About
        <5>3. CASE i \in 1..Len(queue)
          <6>1. d = queue[i] /\ i \in About(queue, c, {"job"})
            BY <1>8, <5>1, <5>2, <5>3 DEF About
          <6>2. QED
            BY <6>1 DEF Dumps
        <5>4. CASE i \notin 1..Len(queue)
          <6>1. queue'[i] = e
            <7>1. i \in (Len(queue) + 1)..Len(queue')
              BY <1>8, <5>2, <5>4
            <7>2. queue'[i] \in {e, QueueFull} /\ queue'[i] # QueueFull
              BY <1>8, <5>2, <7>1 DEF QueueFull
            <7>3. QED
              BY <7>2
          <6>2. d = e /\ jobs[r].dump.of = c
            BY <1>4, <5>1, <5>2, <6>1
          <6>3. jobs[r].dump \in Dumps(c)
            BY <1>3, <6>2 DEF Dumps
          <6>4. QED
            BY <1>4, <6>2, <6>3
        <5>5. QED
          BY <5>3, <5>4
      <4>2. CASE d \notin {queue'[i] : i \in About(queue', c, {"job"})}
        <5>0. d \in {jobs'[q].dump : q \in {s \in Requests : jobs'[s].state = "run"
                                                        /\ jobs'[s].dump.of = c}}
          BY <3>1, <4>2 DEF Dumps
        <5>1. PICK q \in Requests : d = jobs'[q].dump /\ jobs'[q].state = "run"
                                    /\ jobs'[q].dump.of = c
          BY <5>0
        <5>2. d = jobs[q].dump /\ jobs[q].state = "run" /\ jobs[q].dump.of = c
          BY <1>3, <5>1
        <5>3. QED
          BY <5>2 DEF Dumps
      <4>3. QED
        BY <4>1, <4>2
    <3>2. \A d \in Dumps(c) : DumpOK(queue', c, channels[c], fs[c], d)
      BY <2>2, <2>5, <2>7 DEF DataOK
    <3>3. \A d \in Dumps(c)' : DumpOK(queue', c, channels[c], fs[c], d)
      BY <3>1, <3>2, SameDump
    <3>4. EventsOK(queue', c, fs[c]) /\ EntryOK(queue', c, channels[c], fs[c])
      BY <2>2, <2>5, <2>7 DEF DataOK
    <3>5. Listing /\ About(queue', c, Kinds) = {} =>
              \A row \in listing : row[1] = c => row[2] = fs[c].ver
      BY <2>2, <2>5, <2>7 DEF DataOK
    <3>6. QED
      BY <1>2, <1>6, <3>3, <3>4, <3>5 DEF DataOK
  <2>8. QED
    BY <2>4, <2>6, <2>7
<1>12. QED
  BY <1>9, <1>10, <1>11

\* A job reads its channel: what it reads is the present state.
LEMMA MapRead ==
    ASSUME TrackerInv, CallInv, UnbornInv, MapInv, NEW r \in Requests, RunJob(r)
    PROVE  CallInv' /\ UnbornInv' /\ MapInv'
<1>1. SwitchOK /\ QueueOK /\ OrderInv
  BY DEF TrackerInv
<1> DEFINE a == asked[r]
           d == IF Live(a) THEN [of |-> a, ver |-> fs[a].ver, leg |-> fs[a].leg] ELSE NoDump
<1>2. /\ UNCHANGED <<fs, subscribed, refused, listing, queue, lost, pc, asked>>
      /\ UNCHANGED <<channels, listener, owed, reply>>
      /\ jobs[r].state = "started"
      /\ jobs' = [jobs EXCEPT ![r] = [state |-> "run", dump |-> d]]
  BY DEF RunJob, queueVars, tracker, service
<1>3. a \in Channels
  BY <1>1, <1>2 DEF OrderInv
<1>4. \A c \in Channels : d.of = c =>
          Live(c) /\ d.ver = fs[c].ver /\ d.leg = fs[c].leg
  BY <1>3, RequestsAreNumbers DEF NoDump
<1> HIDE DEF d
<1>5. /\ jobs'[r].dump = d /\ jobs'[r].state = "run"
      /\ \A q \in Requests : q # r => jobs'[q] = jobs[q]
  BY <1>1, <1>2 DEF SwitchOK
<1>6. Listed' = Listed /\ Listing' = Listing
  BY <1>2 DEF Listed, Listing, Call
<1>7. CallInv'
  BY <1>2, CallKept DEF CallInv
<1>8. UnbornInv'
  <2>1. ASSUME NEW c \in Channels, fs'[c].life = "unborn"
        PROVE  /\ fs'[c].ver = 0 /\ ~fs'[c].leg
               /\ About(queue', c, Types) = {}
               /\ channels'[c] = None
               /\ \A q \in Requests : jobs'[q].dump.of # c
               /\ \A row \in listing' : row[1] # c
    <3>1. /\ fs[c].ver = 0 /\ ~fs[c].leg
          /\ About(queue, c, Types) = {}
          /\ channels[c] = None
          /\ \A q \in Requests : jobs[q].dump.of # c
          /\ \A row \in listing : row[1] # c
      BY <1>2, <2>1 DEF UnbornInv
    <3>2. d.of # c
      BY <1>2, <1>4, <2>1 DEF Live
    <3>3. \A q \in Requests : jobs'[q].dump.of # c
      BY <1>5, <3>1, <3>2
    <3>4. QED
      BY <1>2, <3>1, <3>3
  <2>2. QED
    BY <2>1 DEF UnbornInv
<1>9. MapInv'
  <2>1. SUFFICES ASSUME NEW c \in Channels \ lost
                 PROVE  LiveOK(c)' /\ (Live(c)' => DataOK(c)')
    BY <1>2 DEF MapInv
  <2>2. LiveOK(c) /\ (Live(c) => DataOK(c))
    BY <2>1 DEF MapInv
  <2>3. Live(c)' = Live(c)
    BY <1>2 DEF Live
  <2>4. LiveOK(c)'
    BY <1>2, <1>6, <2>2, <2>3 DEF LiveOK
  <2>5. ASSUME Live(c), NEW x \in Dumps(c)'
        PROVE  DumpOK(queue, c, channels[c], fs[c], x)
    <3>1. CASE x \in Dumps(c)
      BY <2>2, <2>5, <3>1 DEF DataOK
    <3>2. CASE x \notin Dumps(c)
      <4>1. x \in {jobs'[q].dump : q \in {s \in Requests : jobs'[s].state = "run"
                                                           /\ jobs'[s].dump.of = c}}
        BY <1>2, <2>5, <3>2 DEF Dumps
      <4>2. PICK q \in Requests : x = jobs'[q].dump /\ jobs'[q].state = "run"
                                  /\ jobs'[q].dump.of = c
        BY <4>1
      <4>3. q = r
        BY <1>5, <3>2, <4>2 DEF Dumps
      <4>4. x.ver = fs[c].ver /\ x.leg = fs[c].leg
        BY <1>4, <1>5, <4>2, <4>3
      <4>5. fs[c].ver \in Nat
        BY <1>1 DEF SwitchOK
      <4>6. QED
        BY <4>4, <4>5 DEF DumpOK
    <3>3. QED
      BY <3>1, <3>2
  <2>6. ASSUME Live(c)
        PROVE  DataOK(c)'
    BY <1>2, <1>6, <2>2, <2>5, <2>6 DEF DataOK
  <2>7. QED
    BY <2>3, <2>4, <2>6
<1>10. QED
  BY <1>7, <1>8, <1>9

\* A command is answered: the list has the channels that are live.
LEMMA MapAnswered ==
    ASSUME TrackerInv, CallInv, UnbornInv, MapInv, Answer
    PROVE  CallInv' /\ UnbornInv' /\ MapInv'
<1>1. SwitchOK /\ QueueOK /\ ServiceOK /\ OrderInv /\ Call \in Nat /\ 2 \in Requests
  BY JobsAreLate DEF TrackerInv
<1> DEFINE rows == {<<c, fs[c].ver>> : c \in {d \in Channels : Live(d)}}
<1>2. PICK r :
          /\ Service!Answer(r)
          /\ listing' = IF asked[r] = "show" THEN rows ELSE listing
          /\ jobs' = IF asked[r] \in Channels THEN [jobs EXCEPT ![r].state = "started"] ELSE jobs
          /\ UNCHANGED <<fs, refused, queue, lost, pc, asked, channels>>
  BY DEF Answer, queueVars, tracker
<1>3. /\ r \in owed
      /\ reply' = IF listener = None THEN reply ELSE [reply EXCEPT ![listener] = r]
  BY <1>2 DEF Service!Answer
<1>4. r \in Requests /\ Call' = Call
  BY <1>1, <1>2, <1>3 DEF ServiceOK, Call
<1>5. \A c \in Channels :
          /\ (\E row \in rows : row[1] = c) = Live(c)
          /\ \A row \in rows : row[1] = c => row[2] = fs[c].ver
  <2>1. ASSUME NEW row \in rows
        PROVE  Live(row[1]) /\ row[2] = fs[row[1]].ver
    <3>1. PICK d \in {e \in Channels : Live(e)} : row = <<d, fs[d].ver>>
      OBVIOUS
    <3>2. Live(d)
      OBVIOUS
    <3>3. row[1] = d /\ row[2] = fs[d].ver
      BY <3>1
    <3>4. QED
      BY <3>2, <3>3
  <2>2. ASSUME NEW c \in Channels, Live(c)
        PROVE  \E row \in rows : row[1] = c
    <3>1. c \in {e \in Channels : Live(e)}
      BY <2>2
    <3>2. <<c, fs[c].ver>> \in rows
      BY <3>1
    <3>3. QED
      BY <3>2
  <2>3. \A c \in Channels : Live(c) \in BOOLEAN
    BY DEF Live
  <2> HIDE DEF rows
  <2>4. QED
    BY <2>1, <2>2, <2>3
<1> HIDE DEF rows
<1>6. \A q \in Requests :
          /\ jobs'[q].dump = jobs[q].dump
          /\ jobs'[q].state = "run" => jobs[q].state = "run"
  BY <1>1, <1>2, <1>4 DEF SwitchOK
<1>7. reply'[2] = reply[2] \/ (reply'[2] = r /\ listener = 2)
  BY <1>1, <1>3 DEF ServiceOK
<1>8. /\ Listed' => Listed
      /\ Listing' => listing' = rows \/ (Listing /\ listing' = listing)
  <2>1. CASE reply'[2] = reply[2]
    BY <1>2, <1>4, <2>1 DEF Listed, Listing
  <2>2. CASE reply'[2] = r /\ listener = 2
    <3>1. Call = 2 /\ pc \in {"write", "wait"}
      BY <1>1, <2>2, RequestsAreNumbers DEF CallInv
    <3>2. ~Listed'
      BY <1>2, <1>4, <3>1 DEF Listed
    <3>3. ASSUME Listing'
          PROVE  listing' = rows
      <4>1. r = 2
        BY <2>2, <3>3 DEF Listing
      <4>2. asked[2] = "show"
        BY <3>1 DEF CallInv
      <4>3. QED
        BY <1>2, <4>1, <4>2
    <3>4. QED
      BY <3>2, <3>3
  <2>3. QED
    BY <1>7, <2>1, <2>2
<1>9. CallInv'
  BY CallAnswered
<1>10. UnbornInv'
  <2>1. ASSUME NEW c \in Channels, fs'[c].life = "unborn"
        PROVE  /\ fs'[c].ver = 0 /\ ~fs'[c].leg
               /\ About(queue', c, Types) = {}
               /\ channels'[c] = None
               /\ \A q \in Requests : jobs'[q].dump.of # c
               /\ \A row \in listing' : row[1] # c
    <3>1. /\ fs[c].ver = 0 /\ ~fs[c].leg
          /\ About(queue, c, Types) = {}
          /\ channels[c] = None
          /\ \A q \in Requests : jobs[q].dump.of # c
          /\ \A row \in listing : row[1] # c
      BY <1>2, <2>1 DEF UnbornInv
    <3>2. ~Live(c)
      BY <1>2, <2>1 DEF Live
    <3>3. \A row \in rows : row[1] # c
      BY <1>5, <3>2
    <3>4. QED
      BY <1>2, <1>6, <3>1, <3>3
  <2>2. QED
    BY <2>1 DEF UnbornInv
<1>11. MapInv'
  <2>1. SUFFICES ASSUME NEW c \in Channels \ lost
                 PROVE  LiveOK(c)' /\ (Live(c)' => DataOK(c)')
    BY <1>2 DEF MapInv
  <2>2. LiveOK(c) /\ (Live(c) => DataOK(c))
    BY <2>1 DEF MapInv
  <2>3. Live(c)' = Live(c)
    BY <1>2 DEF Live
  <2>4. LiveOK(c)'
    <3>1. NewsOK(queue', c, Live(c)')
      BY <1>2, <2>2, <2>3 DEF LiveOK
    <3>2. ASSUME About(queue', c, News) = {}
          PROVE  /\ channels'[c] # None => Live(c)'
                 /\ Listed' => (channels'[c] # None) = Live(c)'
                 /\ Listing' => (\E row \in listing' : row[1] = c) = Live(c)'
      <4>1. About(queue, c, News) = {}
        BY <1>2, <3>2
      <4>2. /\ channels'[c] # None => Live(c)'
            /\ Listed' => (channels'[c] # None) = Live(c)'
        BY <1>2, <1>8, <2>2, <2>3, <4>1 DEF LiveOK
      <4>3. Listing' => (\E row \in listing' : row[1] = c) = Live(c)'
        BY <1>5, <1>8, <2>2, <2>3, <4>1 DEF LiveOK
      <4>4. QED
        BY <4>2, <4>3
    <3>3. QED
      BY <3>1, <3>2 DEF LiveOK
  <2>5. Dumps(c)' \subseteq Dumps(c)
    <3>1. SUFFICES ASSUME NEW d \in Dumps(c)'
                   PROVE  d \in Dumps(c)
      OBVIOUS
    <3>2. CASE d \in {queue[i] : i \in About(queue, c, {"job"})}
      BY <3>2 DEF Dumps
    <3>3. CASE d \notin {queue[i] : i \in About(queue, c, {"job"})}
      <4>1. d \in {jobs'[q].dump : q \in {s \in Requests : jobs'[s].state = "run"
                                                           /\ jobs'[s].dump.of = c}}
        BY <1>2, <3>1, <3>3 DEF Dumps
      <4>2. PICK q \in Requests : d = jobs'[q].dump /\ jobs'[q].state = "run"
                                  /\ jobs'[q].dump.of = c
        BY <4>1
      <4>3. d = jobs[q].dump /\ jobs[q].state = "run" /\ jobs[q].dump.of = c
        BY <1>6, <4>2
      <4>4. QED
        BY <4>3 DEF Dumps
    <3>4. QED
      BY <3>2, <3>3
  <2>6. ASSUME Live(c)
        PROVE  DataOK(c)'
    <3>1. EventsOK(queue', c, fs'[c]) /\ EntryOK(queue', c, channels'[c], fs'[c])
      BY <1>2, <2>2, <2>6 DEF DataOK
    <3>2. \A d \in Dumps(c)' : DumpOK(queue', c, channels'[c], fs'[c], d)
      BY <1>2, <2>2, <2>5, <2>6 DEF DataOK
    <3>3. ASSUME Listing', About(queue', c, Kinds) = {}
          PROVE  \A row \in listing' : row[1] = c => row[2] = fs'[c].ver
      BY <1>2, <1>5, <1>8, <2>2, <2>6, <3>3 DEF DataOK
    <3>4. QED
      BY <3>1, <3>2, <3>3 DEF DataOK
  <2>7. QED
    BY <2>3, <2>4, <2>6
<1>12. QED
  BY <1>9, <1>10, <1>11

\* A command is rejected: there is no list then.
LEMMA MapRefused ==
    ASSUME TrackerInv, CallInv, UnbornInv, MapInv, Refuse
    PROVE  CallInv' /\ UnbornInv' /\ MapInv'
<1>1. ServiceOK /\ 2 \in Requests
  BY JobsAreLate DEF TrackerInv
<1>2. PICK r :
          /\ Service!Answer(r)
          /\ refused' = refused \cup {r}
          /\ UNCHANGED <<fs, jobs, listing, queue, lost, pc, asked, channels>>
  BY DEF Refuse, queueVars, tracker
<1>3. reply' = IF listener = None THEN reply ELSE [reply EXCEPT ![listener] = r]
  BY <1>2 DEF Service!Answer
<1>4. reply'[2] = reply[2] \/ reply'[2] = r
  BY <1>1, <1>3 DEF ServiceOK
<1>5. (Listed' => Listed) /\ (Listing' => Listing)
  BY <1>2, <1>4 DEF Listed, Listing, Call
<1>6. CallInv'
  BY CallAnswered
<1>7. UnbornInv' /\ MapInv'
  BY <1>2, <1>5, UnbornKept, MapKept
<1>8. QED
  BY <1>6, <1>7

-----------------------------------------------------------------------------
(***************************************************************************)
(* The invariant is one.                                                   *)
(***************************************************************************)

TrackInv == CallInv /\ UnbornInv /\ MapInv

LEMMA TrackInit ==
    ASSUME Init
    PROVE  TrackInv
<1>1. /\ queue = << >> /\ Len(queue) = 0
      /\ listing = {} /\ asked = << >> /\ Call = 0
      /\ pc = "begin" /\ channels = [c \in Channels |-> None]
      /\ jobs = [r \in Requests |-> [state |-> "none", dump |-> NoDump]]
  BY EmptySeq DEF Init, Call
<1>2. \A c, types : About(queue, c, types) = {}
  BY <1>1 DEF About
<1>3. \A c \in Channels : /\ fs[c].life \in {"unborn", "live"} /\ fs[c].ver = 0
                          /\ fs[c].life = "unborn" => ~fs[c].leg
  BY DEF Init
<1>4. \A r \in Requests : jobs[r].state # "run" /\ jobs[r].dump.of = None
  BY <1>1 DEF NoDump
<1>5. ~Listed /\ ~Listing
  BY <1>1 DEF Listed, Listing
<1>6. UnbornInv
  BY <1>1, <1>2, <1>3, <1>4, RequestsAreNumbers DEF UnbornInv
<1>7. ASSUME NEW c \in Channels
      PROVE  LiveOK(c) /\ DataOK(c)
  <2>1. LiveOK(c)
    BY <1>1, <1>2, <1>5 DEF LiveOK, NewsOK
  <2>2. Dumps(c) = {}
    BY <1>2, <1>4 DEF Dumps
  <2>3. EventsOK(queue, c, fs[c])
    BY <1>2 DEF EventsOK
  <2>4. EntryOK(queue, c, channels[c], fs[c])
    BY <1>1 DEF EntryOK, Sound
  <2>5. QED
    BY <1>5, <2>1, <2>2, <2>3, <2>4 DEF DataOK
<1>8. QED
  BY <1>6, <1>7, CallInit DEF TrackInv, MapInv

\* main makes its next call, which tells it nothing yet.
LEMMA MapAsked ==
    ASSUME TrackerInv, TrackInv, Subscribe \/ Show \/ RequestDump
    PROVE  TrackInv'
<1>1. CallInv /\ UnbornInv /\ MapInv /\ MainOK
  BY DEF TrackInv, TrackerInv
<1>2. CallInv'
  <2>1. CASE Subscribe
    <3>1. Ask("events") /\ asked = << >> /\ UNCHANGED <<switchVars, queueVars, tracker>>
      BY <2>1 DEF Subscribe
    <3>2. Call = 0
      BY <3>1, EmptySeq DEF Call
    <3>3. QED
      BY <1>1, <3>1, <3>2, CallAsk
  <2>2. CASE Show
    <3>1. /\ pc = "begin" /\ Ask("show") /\ Call = 1
          /\ UNCHANGED <<switchVars, queueVars, tracker>>
      BY <2>2 DEF Show
    <3>2. subscribed
      BY <1>1, <3>1 DEF CallInv
    <3>3. QED
      BY <1>1, <3>1, <3>2, CallAsk
  <2>3. CASE RequestDump
    <3>1. /\ pc = "ready" /\ todo # << >> /\ Ask(Head(todo))
          /\ UNCHANGED <<switchVars, queueVars, tracker>>
      BY <2>3 DEF RequestDump
    <3>2. Head(todo) \in Channels
      BY <1>1, <3>1, HeadTailProperties DEF MainOK
    <3>3. Call >= 2
      BY <1>1, <3>1 DEF CallInv
    <3>4. QED
      BY <1>1, <3>1, <3>2, <3>3, CallAsk
  <2>4. QED
    BY <2>1, <2>2, <2>3
<1>3. /\ Listed' => Listed
      /\ ~Listing'
      /\ UNCHANGED <<fs, subscribed, jobs, listing, queue, overflow, lost, channels>>
  BY <1>1, ListedKept
<1>4. MapInv'
  BY <1>1, <1>3, MapKept
<1>5. UnbornInv'
  BY <1>1, <1>3, UnbornKept
<1>6. QED
  BY <1>2, <1>4, <1>5 DEF TrackInv

\* A call goes out, or ends without an answer that main takes into its map.
LEMMA MapGoesOn ==
    ASSUME TrackerInv, TrackInv,
           \/ Write \/ CallFails \/ CallTimesOut \/ ReceiveEnd
           \/ pc = "wait" /\ (SubscribeDone \/ DumpStarted \/ CallRefused)
    PROVE  TrackInv'
<1>1. CallInv /\ UnbornInv /\ MapInv
  BY DEF TrackInv
<1>2. CallInv'
  BY <1>1, CallGoesOn
<1>3. /\ Listed' => Listed
      /\ ~Listing'
      /\ UNCHANGED <<fs, subscribed, jobs, listing, queue, overflow, lost, channels>>
  BY <1>1, ListedKept
<1>4. MapInv'
  BY <1>1, <1>3, MapKept
<1>5. UnbornInv'
  BY <1>1, <1>3, UnbornKept
<1>6. QED
  BY <1>2, <1>4, <1>5 DEF TrackInv

\* Nothing that the tracker or the switch knows changes.
LEMMA MapStands ==
    ASSUME TrackInv, owed' \subseteq owed,
           UNCHANGED <<fs, subscribed, jobs, listing, queue, lost, pc, asked, channels>>,
           UNCHANGED <<refused, listener, reply>>
    PROVE  TrackInv'
<1>1. CallInv /\ UnbornInv /\ MapInv
  BY DEF TrackInv
<1>2. Listed' = Listed /\ Listing' = Listing
  BY DEF Listed, Listing, Call
<1>3. MapInv'
  BY <1>1, <1>2, MapKept
<1>4. UnbornInv'
  BY <1>1, UnbornKept
<1>5. /\ ~subscribed => queue' = << >>
      /\ \A i \in 1..Len(queue') :
             queue'[i].type = "job" => asked[queue'[i].job] \in Channels
  BY <1>1 DEF CallInv
<1>6. CallInv'
  BY <1>1, <1>5, CallKept
<1>7. QED
  BY <1>3, <1>4, <1>6 DEF TrackInv

LEMMA TrackStep ==
    ASSUME TrackerInv, TrackInv, [Next]_vars
    PROVE  TrackInv'
<1>1. CallInv /\ UnbornInv /\ MapInv
  BY DEF TrackInv
<1>2. CASE Subscribe \/ Show \/ RequestDump
  BY <1>2, MapAsked
<1>3. CASE \/ Write \/ CallFails \/ CallTimesOut \/ ReceiveEnd
           \/ pc = "wait" /\ (SubscribeDone \/ DumpStarted \/ CallRefused)
  BY <1>3, MapGoesOn
<1>4. CASE pc = "wait" /\ ShowDone
  BY <1>1, <1>4, CallGoesOn, MapShown DEF TrackInv
<1>5. CASE ReceiveError
  BY <1>1, <1>5, MapReceived DEF TrackInv
<1>6. CASE \E e : e # QueueFull /\ (ReceiveChannel(e) \/ ReceiveJob(e))
  BY <1>1, <1>6, MapReceived DEF TrackInv
<1>7. CASE FreeSwitch
  BY <1>1, <1>7, MapSwitched DEF TrackInv
<1>8. CASE Answer \/ Refuse
  BY <1>1, <1>8, MapAnswered, MapRefused DEF TrackInv
<1>9. CASE Job
  BY <1>1, <1>9, MapRead, MapTold DEF TrackInv, Job
<1>10. CASE Disconnect
  <2>1. /\ owed' = {}
        /\ UNCHANGED <<fs, subscribed, jobs, listing, queue, lost, pc, asked, channels>>
        /\ UNCHANGED <<refused, listener, reply>>
    BY <1>10 DEF Disconnect, Service!Lose, queueVars, tracker
  <2>2. QED
    BY <2>1, MapStands
<1>11. CASE UNCHANGED vars
  <2>1. /\ owed' = owed
        /\ UNCHANGED <<fs, subscribed, jobs, listing, queue, lost, pc, asked, channels>>
        /\ UNCHANGED <<refused, listener, reply>>
    BY <1>11 DEF vars, switchVars, queueVars, tracker, service
  <2>2. QED
    BY <2>1, MapStands
<1>12. QED
  BY <1>2, <1>3, <1>4, <1>5, <1>6, <1>7, <1>8, <1>9, <1>10, <1>11
  DEF Next, Main, Calling, Receive

\* The inductive invariant of what the tracker, the queue, the list and the jobs
\* say of FreeSWITCH's channels.
THEOREM TrackInvariant == Spec => []TrackInv
  BY TrackInit, TrackStep, TrackerInvariant, PTL DEF Spec

-----------------------------------------------------------------------------
(***************************************************************************)
(* What it is for.                                                         *)
(***************************************************************************)

\* bootstrap and process_event: a channel that lost no event is tracked, once the
\* list is taken and no creation or end of it is queued, just if FreeSWITCH has
\* it, and otherwise the last that is queued tells which: events that came
\* before, with and after the list leave no ghost, and no gap, and an event that
\* is dropped does so for its own channel only.
THEOREM NoGhostNoGap == Spec => []TrackedIsLive
<1>1. ASSUME MapInv
      PROVE  TrackedIsLive
  <2>1. SUFFICES ASSUME Listed, NEW c \in Channels \ lost
                 PROVE  /\ About(queue, c, News) = {} => (channels[c] # None) = Live(c)
                        /\ \A i \in About(queue, c, News) :
                               (\A j \in About(queue, c, News) : j <= i) =>
                                   (queue[i].type = "create") = Live(c)
    BY DEF TrackedIsLive, Queued, About, News
  <2>2. LiveOK(c)
    BY <1>1, <2>1 DEF MapInv
  <2>3. QED
    BY <2>1, <2>2 DEF LiveOK, NewsOK, LastAbout
<1>2. TrackInv => TrackedIsLive
  BY <1>1 DEF TrackInv
<1>3. QED
  BY <1>2, TrackInvariant, PTL

\* update_from_event, update_from_dump and the bridge and unbridge arms of
\* process_event: of a channel that lost no event, and has none queued, the tracker
\* has the present data, and shows no bridge that is no more, unless an older dump
\* or that of another channel was merged.
THEOREM StaleOnlyAfterDump == Spec => []StaleOnlyByDump
<1>1. ASSUME MapInv
      PROVE  StaleOnlyByDump
  <2>1. SUFFICES ASSUME NEW c \in Channels \ lost, channels[c] # None,
                        About(queue, c, Kinds) = {},
                        ~channels[c].old, ~channels[c].foreign
                 PROVE  channels[c].ver = fs[c].ver /\ (channels[c].leg => fs[c].leg)
    BY DEF StaleOnlyByDump, Queued, About
  <2>2. LiveOK(c) /\ (Live(c) => DataOK(c))
    BY <1>1, <2>1 DEF MapInv
  <2>3. About(queue, c, News) = {} /\ About(queue, c, {"unbridge"}) = {}
    BY <2>1 DEF About, News, Kinds
  <2>4. Live(c)
    BY <2>1, <2>2, <2>3 DEF LiveOK
  <2>5. EntryOK(queue, c, channels[c], fs[c])
    BY <2>2, <2>4 DEF DataOK
  <2>6. QED
    BY <2>1, <2>3, <2>5 DEF EntryOK, Sound
<1>2. TrackInv => StaleOnlyByDump
  BY <1>1 DEF TrackInv
<1>3. QED
  BY <1>2, TrackInvariant, PTL

=============================================================================
