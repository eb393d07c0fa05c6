----------------------------- MODULE EventDelivery -----------------------------
(***************************************************************************)
(* Delivery and replay of agent events, for one workspace: the spool of    *)
(* choosh-hostd (agent_event_spool.rs, serve.rs), the relay's routing      *)
(* (ws.rs), the phone's transport and engine, and the app's subscription   *)
(* with its cursor (AgentEventSubscription.kt).                            *)
(*                                                                         *)
(* Events reach the phone live, as pushes, or by resuming after a cursor.  *)
(* An event is its sequence number and the serve process that drew it: a   *)
(* restart starts from 1 again.  No code reads the process; the properties *)
(* do.  The retained events and those of a replay are consecutive, so the  *)
(* model keeps their ends.                                                 *)
(*                                                                         *)
(* The loss of a connection is one step here; RelayBroker has its steps.   *)
(***************************************************************************)
EXTENDS Integers, SequencesExt

CONSTANTS
    MaxRetained,       \* MAX_EVENTS_PER_WORKSPACE
    OutboundCapacity,  \* OUTBOUND_CHANNEL_CAPACITY of the relay
    ChannelCapacity,   \* AGENT_EVENT_CHANNEL_CAPACITY of the transport
    QueueCapacity,     \* AGENT_EVENT_QUEUE_CAPACITY of the engine
    MaxEvents,         \* bound: events one process records
    MaxRestarts        \* bound: restarts of serve

ASSUME CapacitiesArePositive ==
    /\ MaxRetained \in Nat \ {0}
    /\ OutboundCapacity \in Nat \ {0}
    /\ ChannelCapacity \in Nat \ {0}
    /\ QueueCapacity \in Nat \ {0}

ASSUME BoundsAreNat == MaxEvents \in Nat /\ MaxRestarts \in Nat

\* Who resumes: the workspace's screen, by subscribe, and the connection's view
\* model, by resubscribeAll.
Callers == {"screen", "reconnect"}

Processes == 1..MaxRestarts + 1

\* A frame, push or answer; from..upto are the sequences of its events.
Frame == [kind : {"push", "replayed", "snapshot", "close"}, process : Processes,
          from : 1..MaxEvents + 1, upto : 0..MaxEvents]

CloseFrame == [kind |-> "close", process |-> 1, from |-> 1, upto |-> 0]

VARIABLES
    \* choosh-hostd
    process,     \* which serve process this is
    next,        \* next_sequence
    oldest,      \* oldest_retained_sequence
    hostUp,      \* hostd is connected to the relay
    uplink,      \* what hostd wrote and the relay has not read
    \* the relay
    request,     \* <<after>> of a resume request on its way to hostd, or <<>>
    downq,       \* the phone's outbound queue and socket
    closing,     \* the resume's tunnel is removed, the phone not told yet
    \* the phone
    phoneUp,     \* the phone is connected to the relay
    chan,        \* the transport's push channel
    queue,       \* the engine's queue of unread pushes
    batch,       \* pushes pollOnce has drained and not applied
    cursor,      \* the last acknowledged event; sequence 0 is "none"
    subscribed,  \* the workspace is in subscribedWorkspaces
    phase,       \* [caller -> where its resume is]
    after,       \* [caller -> the cursor its resume started from]
    answer,      \* [caller -> the answer to apply]
    \* history
    applied,     \* this process's sequences the phone has applied
    lost,        \* those dropped on the way, and not promised by an answer since
    start        \* the sequence the cursor began with

spool   == <<process, next, oldest>>
links   == <<hostUp, uplink, request, downq, closing, phoneUp>>
inbound == <<chan, queue, batch>>
calls   == <<subscribed, phase, after, answer>>
history == <<applied, lost, start>>
vars    == <<spool, links, inbound, cursor, calls, history>>

Cursor == [process : Processes, seq : 0..MaxEvents]
NoCursor == [process |-> 1, seq |-> 0]

-----------------------------------------------------------------------------
\* The sequences of this process that frame f carries.
Events(f) == IF f.process = process /\ f.kind \in {"push", "replayed"} THEN f.from..f.upto
                                                                       ELSE {}

EventsIn(s) == UNION {Events(f) : f \in ToSet(s)}

IsPush(f) == f.kind = "push"

\* The positions in s of what is not a push: at most one, as one call at a time is
\* under way.
AnswersIn(s) == {i \in DOMAIN s : ~IsPush(s[i])}

\* The resume's tunnel is closed: its request is dropped, as the frame of an unknown
\* tunnel ...
NoRequest == request' = <<>>

\* (Fault: an answer outlives its tunnel.)
WithoutAnswerForgotten(s) == s

\* ... and so is its answer.
WithoutAnswer(s) ==
    IF AnswersIn(s) = {} THEN s ELSE RemoveAt(s, CHOOSE i \in AnswersIn(s) : TRUE)

\* The caller whose call is under way holds the engine's connection mutex.
Holds(k) == phase[k] = "asked"

\* The calls of the callers in K are over.
End(K) ==
    /\ phase' = [k \in Callers |-> IF k \in K THEN "idle" ELSE phase[k]]
    /\ after' = [k \in Callers |-> IF k \in K THEN NoCursor ELSE after[k]]
    /\ answer' = [k \in Callers |-> IF k \in K THEN CloseFrame ELSE answer[k]]

Holders == {k \in Callers : Holds(k)}

\* History: the events of S are dropped on their way.
Lose(S) == lost' = lost \cup (S \ applied)

-----------------------------------------------------------------------------
(* The spool.                                                              *)

\* (Fault: one more than MaxRetained stays.)
EvictOneTooFew(aged) == IF next - aged > MaxRetained THEN next - MaxRetained ELSE aged

\* record's eviction, once the event numbered next is at the back: those before
\* aged have expired, and no more than MaxRetained stay.
Evict(aged) == IF next - aged >= MaxRetained THEN next - MaxRetained + 1 ELSE aged

\* (Fault: the window check is one too generous.)
AnswerOneTooFar(a, o) ==
    LET latest == next - 1 IN
    IF (next = 1 /\ a > 0) \/ (a \in 1..latest - 1 /\ a + 2 < o)
    THEN [kind |-> "snapshot", process |-> process, from |-> next, upto |-> latest]
    ELSE [kind |-> "replayed", process |-> process, upto |-> latest,
          from |-> IF a >= latest THEN next ELSE IF a + 1 < o THEN o ELSE a + 1]

\* (Fault: next_sequence is sent for latest_sequence.)
AnswerNextForLatest(a, o) ==
    [kind |-> "replayed", process |-> process, upto |-> next,
     from |-> IF a = 0 THEN o ELSE IF a >= next THEN next ELSE a + 1]

\* AgentEventSpool::resume after a (0: no prior ack), o being the oldest retained
\* once the expired are evicted.
Answer(a, o) ==
    LET latest == next - 1 IN
    IF (next = 1 /\ a > 0) \/ (a \in 1..latest - 1 /\ a + 1 < o)
    THEN [kind |-> "snapshot", process |-> process, from |-> next, upto |-> latest]
    ELSE [kind |-> "replayed", process |-> process, upto |-> latest,
          from |-> IF a = 0 THEN o ELSE IF a >= latest THEN next ELSE a + 1]

-----------------------------------------------------------------------------
Init ==
    /\ process = 1 /\ next = 1 /\ oldest = 1
    /\ hostUp = FALSE /\ uplink = <<>> /\ request = <<>>
    /\ downq = <<>> /\ closing = FALSE /\ phoneUp = FALSE
    /\ chan = <<>> /\ queue = <<>> /\ batch = <<>>
    /\ cursor = NoCursor /\ subscribed = FALSE
    /\ phase = [k \in Callers |-> "idle"]
    /\ after = [k \in Callers |-> NoCursor]
    /\ answer = [k \in Callers |-> CloseFrame]
    /\ applied = {} /\ lost = {} /\ start = 0

-----------------------------------------------------------------------------
(* choosh-hostd: the two arms of serve_dispatch that carry agent events.   *)

\* An event is read from agent_event_rx, which happens only while connected; it is
\* recorded, then pushed.
Record ==
    /\ hostUp
    /\ next <= MaxEvents
    /\ \E aged \in oldest..next : oldest' = Evict(aged)
    /\ next' = next + 1
    /\ uplink' = Append(uplink, [kind |-> "push", process |-> process,
                                 from |-> next, upto |-> next])
    /\ UNCHANGED <<process, hostUp, request, downq, closing, phoneUp, inbound,
                   cursor, calls, history>>

\* A resume request arrives: the expired are evicted and the answer is written on
\* the same socket as the pushes.  What it promises the phone, all after the
\* cursor it names, is owed again.
AnswerResume ==
    /\ hostUp
    /\ request # <<>>
    /\ \E o \in oldest..next :
         LET f == Answer(Head(request), o) IN
           /\ oldest' = o
           /\ uplink' = Append(uplink, f)
           /\ lost' = IF f.kind = "snapshot" THEN lost
                      ELSE lost \ (Events(f) \cup (Head(request) + 1..f.upto
                                    \ IF Head(request) = 0 THEN 1..o - 1 ELSE {}))
    /\ NoRequest
    /\ UNCHANGED <<process, next, hostUp, downq, closing, phoneUp, inbound, cursor,
                   calls, applied, start>>

HostConnect ==
    /\ ~hostUp
    /\ hostUp' = TRUE
    /\ UNCHANGED <<spool, uplink, request, downq, closing, phoneUp, inbound, cursor,
                   calls, history>>

\* An open resume has a tunnel to hostd.
TunnelOpen == request # <<>> \/ AnswersIn(uplink) # {}

\* (Fault: nobody is told of the closed tunnel.)
HostDisconnectSilently ==
    /\ hostUp
    /\ hostUp' = FALSE
    /\ Lose(EventsIn(uplink))
    /\ uplink' = <<>>
    /\ NoRequest
    /\ UNCHANGED <<spool, downq, closing, phoneUp, inbound, cursor, calls, applied, start>>

\* The relay loses hostd: what was in flight is lost, and its tunnels are closed.
HostDisconnect ==
    /\ hostUp
    /\ hostUp' = FALSE
    /\ Lose(EventsIn(uplink))
    /\ uplink' = <<>>
    /\ NoRequest
    /\ closing' = (closing \/ TunnelOpen)
    /\ UNCHANGED <<spool, downq, phoneUp, inbound, cursor, calls, applied, start>>

\* A new serve process, with an empty spool.
HostRestart ==
    /\ ~hostUp
    /\ process <= MaxRestarts
    /\ process' = process + 1
    /\ next' = 1 /\ oldest' = 1
    /\ applied' = {} /\ lost' = {}
    /\ UNCHANGED <<links, inbound, cursor, calls, start>>

-----------------------------------------------------------------------------
(* The relay: route_agent_event, and the resume's tunnel.                  *)

HasRoom == phoneUp /\ Len(downq) < OutboundCapacity

\* A push goes to the phone's queue if it is connected and has room, and is gone
\* otherwise.
RoutePush ==
    /\ uplink # <<>>
    /\ IsPush(Head(uplink))
    /\ uplink' = Tail(uplink)
    /\ IF HasRoom
       THEN downq' = Append(downq, Head(uplink)) /\ UNCHANGED lost
       ELSE Lose(Events(Head(uplink))) /\ UNCHANGED downq
    /\ UNCHANGED <<spool, hostUp, request, closing, phoneUp, inbound, cursor, calls,
                   applied, start>>

\* An answer that finds the queue full costs the tunnel.
RouteAnswer ==
    /\ uplink # <<>>
    /\ ~IsPush(Head(uplink))
    /\ uplink' = Tail(uplink)
    /\ IF HasRoom
       THEN downq' = Append(downq, Head(uplink)) /\ UNCHANGED <<closing, lost>>
       ELSE /\ Lose(Events(Head(uplink)))
            /\ closing' = TRUE
            /\ UNCHANGED downq
    /\ UNCHANGED <<spool, hostUp, request, phoneUp, inbound, cursor, calls, applied, start>>

\* forward_close: best effort.
TellClosed ==
    /\ closing
    /\ closing' = FALSE
    /\ downq' = IF HasRoom THEN Append(downq, CloseFrame) ELSE downq
    /\ UNCHANGED <<spool, hostUp, uplink, request, phoneUp, inbound, cursor, calls, history>>

-----------------------------------------------------------------------------
(* The phone's connection.                                                 *)

\* The connection is gone, whoever ended it: frames in it are lost, its tunnel is
\* closed, and a call under way fails.
Drop ==
    /\ phoneUp' = FALSE
    /\ downq' = <<>>
    /\ NoRequest
    /\ uplink' = WithoutAnswer(uplink)
    /\ closing' = FALSE
    /\ Lose(EventsIn(downq) \cup UNION {Events(uplink[i]) : i \in AnswersIn(uplink)})

\* Engine::connect succeeds; ConnectionViewModel then calls resubscribeAll.
PhoneConnect ==
    /\ ~phoneUp
    /\ phase["reconnect"] = "idle"
    /\ phoneUp' = TRUE
    /\ phase' = [phase EXCEPT !["reconnect"] = "due"]
    /\ UNCHANGED <<spool, hostUp, uplink, request, downq, closing, inbound, cursor,
                   subscribed, after, answer, history>>

PhoneDisconnect ==
    /\ phoneUp
    /\ Drop
    /\ End(Holders)
    /\ UNCHANGED <<spool, hostUp, inbound, cursor, subscribed, applied, start>>

\* The transport's I/O task: a push that finds the channel full is dropped.
ReadPush ==
    /\ downq # <<>>
    /\ IsPush(Head(downq))
    /\ downq' = Tail(downq)
    /\ IF Len(chan) < ChannelCapacity
       THEN chan' = Append(chan, Head(downq)) /\ UNCHANGED lost
       ELSE Lose(Events(Head(downq))) /\ UNCHANGED chan
    /\ UNCHANGED <<spool, hostUp, uplink, request, closing, phoneUp, queue, batch,
                   cursor, calls, applied, start>>

\* The answer ends the call; the caller closes the tunnel.
ReadAnswer(k) ==
    /\ downq # <<>>
    /\ Head(downq).kind \in {"replayed", "snapshot"}
    /\ Holds(k)
    /\ downq' = Tail(downq)
    /\ answer' = [answer EXCEPT ![k] = Head(downq)]
    /\ phase' = [phase EXCEPT ![k] = "answered"]
    /\ UNCHANGED <<spool, hostUp, uplink, request, closing, phoneUp, inbound, cursor,
                   subscribed, after, history>>

\* The tunnel was closed under the call: it fails, and the engine drops the
\* connection.
ReadClose ==
    /\ downq # <<>>
    /\ Head(downq).kind = "close"
    /\ Drop
    /\ End(Holders)
    /\ UNCHANGED <<spool, hostUp, inbound, cursor, subscribed, applied, start>>

\* pump_agent_events: the queue drops its oldest when it is full.
Pump ==
    /\ chan # <<>>
    /\ chan' = Tail(chan)
    /\ IF Len(queue) < QueueCapacity
       THEN queue' = Append(queue, Head(chan)) /\ UNCHANGED lost
       ELSE queue' = Append(Tail(queue), Head(chan)) /\ Lose(Events(Head(queue)))
    /\ UNCHANGED <<spool, links, batch, cursor, calls, applied, start>>

-----------------------------------------------------------------------------
(* The app: AgentEventSubscription and AgentEventCursorStore.              *)

\* Frame i is the first of those of s that end highest.
IsHighest(i, s) ==
    \A j \in DOMAIN s : s[j].upto <= s[i].upto /\ (j < i => s[j].upto < s[i].upto)

\* acknowledge, for each frame of s in turn: the cursor never goes back.
Acknowledge(s) ==
    /\ \E i \in DOMAIN s :
         /\ IsHighest(i, s)
         /\ cursor' = IF s[i].upto > cursor.seq
                      THEN [process |-> s[i].process, seq |-> s[i].upto]
                      ELSE cursor
    /\ start' = IF cursor.seq = 0 THEN s[1].from - 1 ELSE start

Apply(S) == applied' = applied \cup S

PollDrain ==
    /\ batch = <<>>
    /\ queue # <<>>
    /\ batch' = queue
    /\ queue' = <<>>
    /\ UNCHANGED <<spool, links, chan, cursor, calls, history>>

\* pollOnce applies what it drained.
PollApply ==
    /\ batch # <<>>
    /\ batch' = <<>>
    /\ Apply(EventsIn(batch)) /\ Acknowledge(batch)
    /\ lost' = lost \ EventsIn(batch)
    /\ UNCHANGED <<spool, links, chan, queue, calls>>

\* resume reads the cursor, then waits for the mutex.
Begin(k) ==
    /\ after' = [after EXCEPT ![k] = cursor]
    /\ phase' = [phase EXCEPT ![k] = "queued"]

Subscribe ==
    /\ phase["screen"] = "idle"
    /\ subscribed' = TRUE
    /\ Begin("screen")
    /\ UNCHANGED <<spool, links, inbound, cursor, answer, history>>

\* The screen is left; its resume, if still under way, is cancelled.
Unsubscribe ==
    /\ subscribed
    /\ subscribed' = FALSE
    /\ UNCHANGED <<spool, links, inbound, cursor, phase, after, answer, history>>

Resubscribe ==
    /\ phase["reconnect"] = "due"
    /\ IF subscribed
       THEN Begin("reconnect") /\ UNCHANGED answer
       ELSE End({"reconnect"})
    /\ UNCHANGED <<spool, links, inbound, cursor, subscribed, history>>

MutexFree == \A k \in Callers : ~Holds(k)

\* With no connection, resume fails at once; the failure is swallowed.
AskInVain(k) ==
    /\ phase[k] = "queued" /\ MutexFree
    /\ ~phoneUp
    /\ End({k})
    /\ UNCHANGED <<spool, links, inbound, cursor, subscribed, history>>

\* open-tunnel to a hostd that is offline is an error, and any error makes the
\* engine drop its connection.
AskOffline(k) ==
    /\ phase[k] = "queued" /\ MutexFree
    /\ phoneUp /\ ~hostUp
    /\ Drop
    /\ End({k})
    /\ UNCHANGED <<spool, hostUp, inbound, cursor, subscribed, applied, start>>

Ask(k) ==
    /\ phase[k] = "queued" /\ MutexFree
    /\ phoneUp /\ hostUp
    /\ request' = <<after[k].seq>>
    /\ phase' = [phase EXCEPT ![k] = "asked"]
    /\ UNCHANGED <<spool, hostUp, uplink, downq, closing, phoneUp, inbound, cursor,
                   subscribed, after, answer, history>>

\* The workspace's state is fetched anew: everything up to the answer is known.
Snapshot(f) ==
    /\ cursor' = NoCursor /\ start' = 0
    /\ Apply(IF f.process = process THEN 1..f.upto ELSE {})

\* (Fault: pushes read before the answer are taken for covered by it.)
ApplyReplayAlone(k) ==
    LET f == answer[k] IN
    /\ phase[k] = "answered" /\ (k = "screen" => subscribed)
    /\ f.kind = "replayed"
    /\ Apply(Events(f)) /\ Acknowledge(<<f>>)
    /\ lost' = lost \ Events(f)
    /\ queue' = <<>>
    /\ End({k})
    /\ UNCHANGED <<spool, links, chan, batch, subscribed>>

\* Replayed: its events are applied and the cursor moves to latest_sequence.
ApplyReplay(k) ==
    LET f == answer[k] IN
    /\ phase[k] = "answered" /\ (k = "screen" => subscribed)
    /\ f.kind = "replayed"
    /\ Apply(Events(f)) /\ Acknowledge(<<f>>)
    /\ lost' = lost \ Events(f)
    /\ End({k})
    /\ UNCHANGED <<spool, links, inbound, subscribed>>

\* SnapshotRequired: the cursor is reset and the state refreshed.
ApplySnapshot(k) ==
    /\ phase[k] = "answered" /\ (k = "screen" => subscribed)
    /\ answer[k].kind = "snapshot"
    /\ Snapshot(answer[k])
    /\ lost' = IF answer[k].process = process THEN lost \ (1..answer[k].upto) ELSE lost
    /\ End({k})
    /\ UNCHANGED <<spool, links, inbound, subscribed>>

\* The screen was left meanwhile: the answer is thrown away.
DiscardAnswer ==
    /\ phase["screen"] = "answered" /\ ~subscribed
    /\ Lose(Events(answer["screen"]))
    /\ End({"screen"})
    /\ UNCHANGED <<spool, links, inbound, cursor, subscribed, applied, start>>

-----------------------------------------------------------------------------
Hostd == Record \/ AnswerResume \/ HostConnect \/ HostDisconnect \/ HostRestart

Relay == RoutePush \/ RouteAnswer \/ TellClosed

Engine == ReadPush \/ ReadClose \/ Pump \/ \E k \in Callers : ReadAnswer(k)

\* The steps of a resume call that is under way.
Resume(k) ==
    \/ AskInVain(k) \/ AskOffline(k) \/ Ask(k)
    \/ ApplyReplay(k) \/ ApplySnapshot(k)

App ==
    \/ Subscribe \/ Unsubscribe \/ Resubscribe
    \/ PollDrain \/ PollApply \/ DiscardAnswer
    \/ \E k \in Callers : Resume(k)

Next == Hostd \/ Relay \/ PhoneConnect \/ PhoneDisconnect \/ Engine \/ App

Spec == Init /\ [][Next]_vars

\* Tasks that can run, run.  The engine's mutex is tokio's, which is fair: a
\* caller that waits for it gets it.
FairSpec ==
    /\ Spec
    /\ WF_vars(Relay) /\ WF_vars(AnswerResume)
    /\ WF_vars(Engine)
    /\ WF_vars(Resubscribe) /\ WF_vars(DiscardAnswer)
    /\ \A k \in Callers : SF_vars(Resume(k))

-----------------------------------------------------------------------------
(* Properties.                                                             *)

\* The types of all variables.  Every queue keeps to its bound, one call at a time
\* is under way, and what is retained is a window that ends at the latest event.
TypeOK ==
    /\ process \in Processes
    /\ next \in 1..MaxEvents + 1
    /\ oldest \in 1..next /\ next - oldest <= MaxRetained
    /\ hostUp \in BOOLEAN /\ closing \in BOOLEAN /\ phoneUp \in BOOLEAN
    /\ uplink \in Seq(Frame) /\ downq \in Seq(Frame)
    /\ request = <<>> \/ request \in {<<a>> : a \in 0..MaxEvents}
    /\ Len(downq) <= OutboundCapacity
    /\ chan \in Seq(Frame) /\ Len(chan) <= ChannelCapacity
    /\ queue \in Seq(Frame) /\ Len(queue) <= QueueCapacity
    /\ batch \in Seq(Frame) /\ Len(batch) <= QueueCapacity
    /\ cursor \in Cursor
    /\ subscribed \in BOOLEAN
    /\ phase \in [Callers -> {"idle", "due", "queued", "asked", "answered"}]
    /\ \A j, k \in Callers : Holds(j) /\ Holds(k) => j = k
    /\ after \in [Callers -> Cursor]
    /\ answer \in [Callers -> Frame]
    /\ applied \subseteq 1..MaxEvents
    /\ lost \subseteq 1..MaxEvents
    /\ start \in 0..MaxEvents

\* A resume call leaves one trace at most: its request, its answer or its close, on
\* one of the links; and only while its caller waits.  So no caller is handed the
\* answer to a call given up before its own: control_tunnel_call compares request
\* ids, but says that they never differ.
OneTrace ==
    LET traces == Len(request) + Cardinality(AnswersIn(uplink))
                    + Cardinality(AnswersIn(downq)) + (IF closing THEN 1 ELSE 0)
    IN  traces <= 1 /\ (traces = 1 => Holders # {})

Pending(k) == IF phase[k] = "answered" THEN Events(answer[k]) ELSE {}

\* What is still on its way to the phone's trackers.
InFlight ==
    EventsIn(uplink) \cup EventsIn(downq) \cup EventsIn(chan) \cup EventsIn(queue)
      \cup EventsIn(batch) \cup UNION {Pending(k) : k \in Callers}

\* agent-events.md: an event is replayed or pushed, it never falls between the two.
\* From the moment a resume is answered, every event after the cursor it named is
\* applied or on its way, unless a queue overflowed or a connection died since.
HandoffHasNoHole ==
    \A n \in 1..next - 1 : n \in applied \cup InFlight \cup lost

\* A replay leaves nothing out between the cursor it answers and latest_sequence,
\* whatever has been evicted: otherwise the answer is snapshot_required.
ReplayIsGapless ==
    \A a \in 1..next - 1, o \in oldest..next :
        Answer(a, o).kind = "replayed" =>
            Answer(a, o).from = a + 1 /\ Answer(a, o).upto = next - 1 /\ o <= a + 1

\* The cursor never runs ahead of the process that drew it, and moves only over
\* what that process has recorded: a resume after it is never "ahead of the spool".
CursorWasRecorded == cursor.process = process => cursor.seq < next

\* A resume always ends, although nothing in it has a timeout: by its answer, by
\* the close of its tunnel, or with the connection.
ResumeEnds == \A k \in Callers : []<>(phase[k] = "idle")

-----------------------------------------------------------------------------
(* What the documents say and the code does not do.                        *)

\* agent-events.md: a reconnect after any gap MUST NOT silently drop events.  An
\* event that was dropped on the way is never acknowledged, so that the next
\* resume asks for it.
NoSilentGap ==
    cursor.process = process =>
        \A n \in lost \ InFlight : ~(start < n /\ n <= cursor.seq)

\* agent-events.md: a restart is answered by snapshot_required, not a silent gap.
RestartIsAnnounced ==
    \A k \in Callers :
        phase[k] = "answered" /\ after[k].seq > 0 /\ after[k].process # answer[k].process
            => answer[k].kind = "snapshot"
=============================================================================
