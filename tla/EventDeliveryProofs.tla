-------------------------- MODULE EventDeliveryProofs --------------------------
(***************************************************************************)
(* Theorems about EventDelivery, for every window, queue capacity and      *)
(* number of events and restarts.                                          *)
(***************************************************************************)
EXTENDS EventDelivery, SequenceTheorems, FiniteSetTheorems, TLAPS

(* The events a frame of the right type carries are sequences some process may draw. *)
LEMMA EventsType == ASSUME NEW f \in Frame PROVE Events(f) \subseteq 1..MaxEvents
BY BoundsAreNat DEF Events, Frame

(* So are those of a queue. *)
LEMMA EventsInType == ASSUME NEW s \in Seq(Frame) PROVE EventsIn(s) \subseteq 1..MaxEvents
<1>1. ToSet(s) \subseteq Frame
  BY DEF ToSet
<1> QED
  BY <1>1, EventsType DEF EventsIn

(* Closing a resume's tunnel takes one answer out of the uplink, if it has one. *)
LEMMA WithoutAnswerIs ==
    ASSUME NEW s \in Seq(Frame), AnswersIn(s) # {}
    PROVE  \E k \in AnswersIn(s) :
             /\ WithoutAnswer(s) \in Seq(Frame) /\ Len(WithoutAnswer(s)) = Len(s) - 1
             /\ \A i \in 1..Len(s) - 1 :
                  WithoutAnswer(s)[i] = IF i <= k - 1 THEN s[i] ELSE s[i + 1]
<1> DEFINE k == CHOOSE i \in AnswersIn(s) : TRUE
           a == SubSeq(s, 1, k - 1)
           b == SubSeq(s, k + 1, Len(s))
<1>1. k \in AnswersIn(s) /\ k \in 1..Len(s)
  BY DEF AnswersIn
<1>2. WithoutAnswer(s) = a \o b
  BY DEF WithoutAnswer, RemoveAt
<1> HIDE DEF k
<1>3. a \in Seq(Frame) /\ Len(a) = k - 1 /\ \A i \in 1..k - 1 : a[i] = s[i]
  BY <1>1
<1>4. b \in Seq(Frame) /\ Len(b) = Len(s) - k /\ \A i \in 1..Len(s) - k : b[i] = s[k + i]
  BY <1>1
<1> HIDE DEF a, b
<1>5. /\ a \o b \in Seq(Frame) /\ Len(a \o b) = Len(s) - 1
      /\ \A i \in 1..Len(s) - 1 : (a \o b)[i] = IF i <= k - 1 THEN a[i] ELSE b[i - (k - 1)]
  <2>1. a \o b \in Seq(Frame) /\ Len(a \o b) = Len(a) + Len(b)
    BY <1>3, <1>4, ConcatProperties
  <2>2. \A i \in 1..Len(a) + Len(b) :
           (a \o b)[i] = IF i <= Len(a) THEN a[i] ELSE b[i - Len(a)]
    BY <1>3, <1>4, ConcatProperties
  <2> QED
    BY <1>1, <1>3, <1>4, <2>1, <2>2
<1>6. \A i \in 1..Len(s) - 1 : (a \o b)[i] = IF i <= k - 1 THEN s[i] ELSE s[i + 1]
  BY <1>1, <1>3, <1>4, <1>5
<1> QED
  BY <1>1, <1>2, <1>5, <1>6

(* It leaves frames of the uplink, and no others. *)
LEMMA WithoutAnswerType ==
    ASSUME NEW s \in Seq(Frame)
    PROVE  /\ WithoutAnswer(s) \in Seq(Frame)
           /\ \A i \in DOMAIN WithoutAnswer(s) :
                \E j \in DOMAIN s : WithoutAnswer(s)[i] = s[j]
<1>1. CASE AnswersIn(s) = {}
  BY <1>1 DEF WithoutAnswer
<1>2. CASE AnswersIn(s) # {}
  <2> DEFINE w == WithoutAnswer(s)
  <2>1. PICK k \in AnswersIn(s) :
          /\ w \in Seq(Frame) /\ Len(w) = Len(s) - 1
          /\ \A i \in 1..Len(s) - 1 : w[i] = IF i <= k - 1 THEN s[i] ELSE s[i + 1]
    BY <1>2, WithoutAnswerIs
  <2> HIDE DEF w
  <2>2. DOMAIN w = 1..Len(s) - 1 /\ DOMAIN s = 1..Len(s) /\ k \in 1..Len(s)
    BY <2>1 DEF AnswersIn
  <2>3. \A i \in 1..Len(s) - 1 : \E j \in 1..Len(s) : w[i] = s[j]
    BY <2>1, <2>2
  <2> QED
    BY <2>1, <2>2, <2>3 DEF w
<1> QED
  BY <1>1, <1>2

-----------------------------------------------------------------------------
(* A queue of frames stays one when a frame is appended or the head is taken. *)
LEMMA QueueType ==
    ASSUME NEW s \in Seq(Frame)
    PROVE  /\ \A f \in Frame : Append(s, f) \in Seq(Frame) /\ Len(Append(s, f)) = Len(s) + 1
           /\ s # <<>> => /\ Head(s) \in Frame
                          /\ Tail(s) \in Seq(Frame) /\ Len(Tail(s)) = Len(s) - 1
OBVIOUS

(* A frame that finds room in the phone's queue leaves the queue within its bound. *)
LEMMA EnqueueType ==
    ASSUME TypeOK, NEW f \in Frame, HasRoom
    PROVE  Append(downq, f) \in Seq(Frame) /\ Len(Append(downq, f)) <= OutboundCapacity
<1>1. downq \in Seq(Frame) /\ Len(downq) < OutboundCapacity /\ Len(downq) \in Nat
  BY DEF TypeOK, HasRoom
<1> QED
  BY <1>1, QueueType, CapacitiesArePositive

(* What is no answer, in the place of one. *)
LEMMA CloseFrameType == CloseFrame \in Frame /\ NoCursor \in Cursor
BY BoundsAreNat DEF CloseFrame, Frame, NoCursor, Cursor, Processes

(* An answer is a frame of this process: its ends are within what it may draw. *)
LEMMA AnswerType ==
    ASSUME TypeOK, NEW a \in 0..MaxEvents, NEW o \in oldest..next
    PROVE  /\ Answer(a, o) \in Frame
           /\ Answer(a, o).process = process /\ Answer(a, o).upto = next - 1
           /\ Answer(a, o).kind \in {"replayed", "snapshot"}
<1>1. /\ next \in 1..MaxEvents + 1 /\ o \in 1..MaxEvents + 1 /\ process \in Processes
      /\ MaxEvents \in Nat
  BY BoundsAreNat DEF TypeOK
<1> DEFINE from == IF a = 0 THEN o ELSE IF a >= next - 1 THEN next ELSE a + 1
<1>2. from \in 1..MaxEvents + 1
  BY <1>1
<1>3. Answer(a, o) \in {[kind |-> "snapshot", process |-> process, from |-> next, upto |-> next - 1],
                        [kind |-> "replayed", process |-> process, upto |-> next - 1, from |-> from]}
  BY DEF Answer
<1> QED
  BY <1>1, <1>2, <1>3 DEF Frame

(* The loss of the phone's connection keeps the types of what it touches. *)
LEMMA DropType ==
    ASSUME TypeOK, Drop
    PROVE  /\ phoneUp' \in BOOLEAN /\ closing' \in BOOLEAN /\ request' = <<>>
           /\ downq' \in Seq(Frame) /\ Len(downq') <= OutboundCapacity
           /\ uplink' \in Seq(Frame)
           /\ lost' \subseteq 1..MaxEvents
<1>1. uplink' \in Seq(Frame)
  BY WithoutAnswerType DEF Drop, TypeOK
<1>2. lost' \subseteq 1..MaxEvents
  <2>1. \A i \in AnswersIn(uplink) : uplink[i] \in Frame
    BY DEF AnswersIn, TypeOK
  <2>2. UNION {Events(uplink[i]) : i \in AnswersIn(uplink)} \subseteq 1..MaxEvents
    BY <2>1, EventsType
  <2>3. EventsIn(downq) \subseteq 1..MaxEvents
    BY EventsInType DEF TypeOK
  <2> QED
    BY <2>2, <2>3 DEF Drop, Lose, TypeOK
<1>3. phoneUp' = FALSE /\ closing' = FALSE /\ request' = <<>> /\ downq' = <<>>
  BY DEF Drop, NoRequest
<1>4. downq' \in Seq(Frame) /\ Len(downq') <= OutboundCapacity
  BY <1>3, CapacitiesArePositive
<1> QED
  BY <1>1, <1>2, <1>3, <1>4

(* The end of some calls keeps the types of all calls. *)
LEMMA EndType ==
    ASSUME TypeOK, NEW K \in SUBSET Callers, End(K)
    PROVE  /\ phase' \in [Callers -> {"idle", "due", "queued", "asked", "answered"}]
           /\ \A j, k \in Callers : Holds(j)' /\ Holds(k)' => j = k
           /\ after' \in [Callers -> Cursor]
           /\ answer' \in [Callers -> Frame]
BY CloseFrameType DEF TypeOK, End, Holds

(* Acknowledging frames moves the cursor to the end of one of them, if at all. *)
LEMMA AcknowledgeType ==
    ASSUME TypeOK, NEW s \in Seq(Frame), Acknowledge(s)
    PROVE  /\ cursor' \in Cursor /\ start' \in 0..MaxEvents
           /\ \/ cursor' = cursor
              \/ \E i \in DOMAIN s : cursor' = [process |-> s[i].process, seq |-> s[i].upto]
<1>1. PICK i \in DOMAIN s : cursor' = IF s[i].upto > cursor.seq
                                      THEN [process |-> s[i].process, seq |-> s[i].upto]
                                      ELSE cursor
  BY DEF Acknowledge
<1>2. s[i] \in Frame /\ s[1] \in Frame
  BY <1>1
<1>3. cursor' \in Cursor
  BY <1>1, <1>2 DEF TypeOK, Cursor, Frame
<1>4. start' \in 0..MaxEvents
  <2>1. s[1].from - 1 \in 0..MaxEvents
    BY <1>2, BoundsAreNat DEF Frame
  <2> QED
    BY <2>1 DEF Acknowledge, TypeOK
<1> QED
  BY <1>1, <1>3, <1>4

-----------------------------------------------------------------------------
(* The initial state is well typed. *)
LEMMA InitType == Init => TypeOK
<1> SUFFICES ASSUME Init PROVE TypeOK
  OBVIOUS
<1> USE BoundsAreNat, CapacitiesArePositive
<1>1. 1 \in Processes /\ 0 \in 0..MaxEvents /\ 1 \in 1..MaxEvents + 1
  BY DEF Processes
<1>2. \A j, k \in Callers : Holds(j) /\ Holds(k) => j = k
  BY DEF Init, Holds
<1> QED
  <2>1. /\ process \in Processes /\ next \in 1..MaxEvents + 1
        /\ oldest \in 1..next /\ next - oldest <= MaxRetained
    BY <1>1 DEF Init
  <2>2. /\ uplink = <<>> /\ downq = <<>> /\ chan = <<>> /\ queue = <<>> /\ batch = <<>>
        /\ <<>> \in Seq(Frame) /\ Len(<<>>) = 0
    BY DEF Init
  <2>3. hostUp = FALSE /\ closing = FALSE /\ phoneUp = FALSE /\ subscribed = FALSE /\ request = <<>>
    BY DEF Init
  <2>4. /\ phase \in [Callers -> {"idle", "due", "queued", "asked", "answered"}]
        /\ after \in [Callers -> Cursor] /\ answer \in [Callers -> Frame] /\ cursor \in Cursor
    BY CloseFrameType DEF Init
  <2>5. applied = {} /\ lost = {} /\ start \in 0..MaxEvents
    BY <1>1 DEF Init
  <2> QED
    <3>1. /\ hostUp \in BOOLEAN /\ closing \in BOOLEAN /\ phoneUp \in BOOLEAN /\ subscribed \in BOOLEAN
          /\ request = <<>>
      BY <2>3
    <3>2. /\ uplink \in Seq(Frame)
          /\ downq \in Seq(Frame) /\ Len(downq) <= OutboundCapacity
          /\ chan \in Seq(Frame) /\ Len(chan) <= ChannelCapacity
          /\ queue \in Seq(Frame) /\ Len(queue) <= QueueCapacity
          /\ batch \in Seq(Frame) /\ Len(batch) <= QueueCapacity
      BY <2>2
    <3>3. applied \subseteq 1..MaxEvents /\ lost \subseteq 1..MaxEvents
      BY <2>5
    <3> QED
      BY <1>2, <2>1, <2>4, <2>5, <3>1, <3>2, <3>3 DEF TypeOK

(* Every step of choosh-hostd keeps the types: the window never exceeds MaxRetained. *)
LEMMA HostdType == ASSUME TypeOK, Hostd PROVE TypeOK'
<1> USE BoundsAreNat, CapacitiesArePositive DEF spool, links, inbound, calls, history
<1>1. CASE Record
  <2> DEFINE f == [kind |-> "push", process |-> process, from |-> next, upto |-> next]
  <2>1. f \in Frame
    BY <1>1 DEF Record, TypeOK, Frame
  <2>2. uplink' \in Seq(Frame)
    BY <1>1, <2>1, QueueType DEF Record, TypeOK
  <2>3. PICK aged \in oldest..next : oldest' = Evict(aged)
    BY <1>1 DEF Record
  <2>4. next' = next + 1 /\ next \in 1..MaxEvents /\ oldest \in 1..next
    BY <1>1 DEF Record, TypeOK
  <2>5. oldest' \in 1..next' /\ next' - oldest' <= MaxRetained
    BY <2>3, <2>4 DEF Evict
  <2> QED
    BY <1>1, <2>2, <2>4, <2>5 DEF Record, TypeOK, Holds
<1>2. CASE AnswerResume
  <2>1. PICK o \in oldest..next :
          /\ oldest' = o
          /\ uplink' = Append(uplink, Answer(Head(request), o))
          /\ lost' \subseteq lost
    BY <1>2 DEF AnswerResume
  <2>2. Head(request) \in 0..MaxEvents
    BY <1>2 DEF AnswerResume, TypeOK
  <2>3. uplink' \in Seq(Frame)
    BY <2>1, <2>2, AnswerType, QueueType DEF TypeOK
  <2>4. oldest' \in 1..next /\ next - oldest' <= MaxRetained
    BY <2>1 DEF TypeOK
  <2>5. lost' \subseteq 1..MaxEvents /\ request' = <<>>
    BY <1>2, <2>1 DEF AnswerResume, NoRequest, TypeOK
  <2> QED
    BY <1>2, <2>3, <2>4, <2>5 DEF AnswerResume, TypeOK, Holds
<1>3. CASE HostConnect
  BY <1>3 DEF HostConnect, TypeOK, Holds
<1>4. CASE HostDisconnect
  <2>1. lost' \subseteq 1..MaxEvents
    BY <1>4, EventsInType DEF HostDisconnect, Lose, TypeOK
  <2>2. closing' \in BOOLEAN /\ hostUp' \in BOOLEAN
    BY <1>4 DEF HostDisconnect, TypeOK
  <2>3. uplink' = <<>> /\ request' = <<>>
    BY <1>4 DEF HostDisconnect, NoRequest
  <2> QED
    BY <1>4, <2>1, <2>2, <2>3 DEF HostDisconnect, TypeOK, Holds
<1>5. CASE HostRestart
  <2>1. process' \in Processes
    BY <1>5 DEF HostRestart, TypeOK, Processes
  <2> QED
    BY <1>5, <2>1 DEF HostRestart, TypeOK, Holds
<1> QED
  BY <1>1, <1>2, <1>3, <1>4, <1>5 DEF Hostd

(* Every step of the relay keeps the types, and the phone's queue its bound. *)
LEMMA RelayType == ASSUME TypeOK, Relay PROVE TypeOK'
<1> USE CapacitiesArePositive DEF spool, links, inbound, calls, history
<1>1. ASSUME RoutePush \/ RouteAnswer PROVE TypeOK'
  <2>1. uplink # <<>> /\ uplink' = Tail(uplink) /\ uplink \in Seq(Frame)
    BY <1>1 DEF RoutePush, RouteAnswer, TypeOK
  <2>2. uplink' \in Seq(Frame) /\ Head(uplink) \in Frame
    BY <2>1, QueueType
  <2>3. \/ HasRoom /\ downq' = Append(downq, Head(uplink))
        \/ downq' = downq
    BY <1>1 DEF RoutePush, RouteAnswer
  <2>4. downq' \in Seq(Frame) /\ Len(downq') <= OutboundCapacity
    BY <2>2, <2>3, EnqueueType DEF TypeOK
  <2>5. lost' \subseteq 1..MaxEvents
    BY <1>1, <2>2, EventsType DEF RoutePush, RouteAnswer, Lose, TypeOK
  <2>6. closing' \in BOOLEAN
    BY <1>1 DEF RoutePush, RouteAnswer, TypeOK
  <2> QED
    BY <1>1, <2>2, <2>4, <2>5, <2>6 DEF RoutePush, RouteAnswer, TypeOK, Holds
<1>2. CASE TellClosed
  <2>1. downq' = downq \/ (HasRoom /\ downq' = Append(downq, CloseFrame))
    BY <1>2 DEF TellClosed
  <2>2. downq' \in Seq(Frame) /\ Len(downq') <= OutboundCapacity
    BY <2>1, CloseFrameType, EnqueueType DEF TypeOK
  <2>3. closing' \in BOOLEAN
    BY <1>2 DEF TellClosed
  <2> QED
    BY <1>2, <2>2, <2>3 DEF TellClosed, TypeOK, Holds
<1> QED
  BY <1>1, <1>2 DEF Relay

(* The phone's connection, and the engine behind it, keep the types; its channel and its
   queue stay within their bounds. *)
LEMMA EngineType == ASSUME TypeOK, PhoneConnect \/ PhoneDisconnect \/ Engine PROVE TypeOK'
<1> USE CapacitiesArePositive DEF spool, links, inbound, calls, history
<1>1. CASE PhoneConnect
  <2>1. /\ phase' \in [Callers -> {"idle", "due", "queued", "asked", "answered"}]
        /\ \A j, k \in Callers : Holds(j)' /\ Holds(k)' => j = k
    BY <1>1 DEF PhoneConnect, TypeOK, Holds
  <2>2. phoneUp' \in BOOLEAN
    BY <1>1 DEF PhoneConnect
  <2> QED
    BY <1>1, <2>1, <2>2 DEF PhoneConnect, TypeOK
<1>2. ASSUME PhoneDisconnect \/ ReadClose PROVE TypeOK'
  <2>1. Drop /\ End(Holders) /\ Holders \in SUBSET Callers
    BY <1>2 DEF PhoneDisconnect, ReadClose, Holders
  <2>2. UNCHANGED <<spool, hostUp, inbound, cursor, subscribed, applied, start>>
    BY <1>2 DEF PhoneDisconnect, ReadClose
  <2> QED
    BY <2>1, <2>2, DropType, EndType DEF TypeOK
<1>3. CASE ReadPush
  <2>1. Head(downq) \in Frame /\ downq' \in Seq(Frame) /\ Len(downq') <= OutboundCapacity
    <3>1. downq \in Seq(Frame) /\ downq # <<>> /\ downq' = Tail(downq) /\ Len(downq) <= OutboundCapacity
      BY <1>3 DEF ReadPush, TypeOK
    <3> QED
      BY <3>1, QueueType
  <2>2. chan' \in Seq(Frame) /\ Len(chan') <= ChannelCapacity
    <3>1. /\ chan \in Seq(Frame) /\ Len(chan) <= ChannelCapacity
          /\ chan' = chan \/ (Len(chan) < ChannelCapacity /\ chan' = Append(chan, Head(downq)))
      BY <1>3 DEF ReadPush, TypeOK
    <3> QED
      BY <2>1, <3>1, QueueType
  <2>3. lost' \subseteq 1..MaxEvents
    BY <1>3, <2>1, EventsType DEF ReadPush, Lose, TypeOK
  <2> QED
    BY <1>3, <2>1, <2>2, <2>3 DEF ReadPush, TypeOK, Holds
<1>4. ASSUME NEW k \in Callers, ReadAnswer(k) PROVE TypeOK'
  <2>1. Head(downq) \in Frame /\ downq' \in Seq(Frame) /\ Len(downq') <= OutboundCapacity
    <3>1. downq \in Seq(Frame) /\ downq # <<>> /\ downq' = Tail(downq) /\ Len(downq) <= OutboundCapacity
      BY <1>4 DEF ReadAnswer, TypeOK
    <3> QED
      BY <3>1, QueueType
  <2>2. /\ phase' \in [Callers -> {"idle", "due", "queued", "asked", "answered"}]
        /\ \A j, l \in Callers : Holds(j)' /\ Holds(l)' => j = l
    BY <1>4 DEF ReadAnswer, TypeOK, Holds
  <2>3. answer' \in [Callers -> Frame]
    BY <1>4, <2>1 DEF ReadAnswer, TypeOK
  <2> QED
    BY <1>4, <2>1, <2>2, <2>3 DEF ReadAnswer, TypeOK
<1>5. CASE Pump
  <2>1. /\ Head(chan) \in Frame /\ chan' \in Seq(Frame) /\ Len(chan') <= ChannelCapacity
    <3>1. chan \in Seq(Frame) /\ chan # <<>> /\ chan' = Tail(chan) /\ Len(chan) <= ChannelCapacity
      BY <1>5 DEF Pump, TypeOK
    <3> QED
      BY <3>1, QueueType
  <2>2. queue \in Seq(Frame) /\ Len(queue) <= QueueCapacity
    BY DEF TypeOK
  <2>3. CASE Len(queue) < QueueCapacity
    <3>1. queue' = Append(queue, Head(chan)) /\ lost' = lost
      BY <1>5, <2>3 DEF Pump
    <3>2. queue' \in Seq(Frame) /\ Len(queue') <= QueueCapacity
      BY <2>1, <2>2, <2>3, <3>1, QueueType
    <3> QED
      BY <1>5, <2>1, <3>1, <3>2 DEF Pump, TypeOK, Holds
  <2>4. CASE ~(Len(queue) < QueueCapacity)
    <3>1. queue' = Append(Tail(queue), Head(chan)) /\ Lose(Events(Head(queue)))
      BY <1>5, <2>4 DEF Pump
    <3>2. queue # <<>>
      BY <2>4
    <3>3. Tail(queue) \in Seq(Frame) /\ Len(Tail(queue)) = Len(queue) - 1 /\ Head(queue) \in Frame
      BY <2>2, <3>2, QueueType
    <3>4. queue' \in Seq(Frame) /\ Len(queue') <= QueueCapacity
      BY <2>1, <2>2, <3>1, <3>3, QueueType
    <3>5. lost' \subseteq 1..MaxEvents
      BY <3>1, <3>3, EventsType DEF Lose, TypeOK
    <3> QED
      BY <1>5, <2>1, <3>4, <3>5 DEF Pump, TypeOK, Holds
  <2> QED
    BY <2>3, <2>4
<1> QED
  BY <1>1, <1>2, <1>3, <1>4, <1>5 DEF Engine

(* What the app does, its two resume callers included, keeps the types. *)
LEMMA AppType == ASSUME TypeOK, App PROVE TypeOK'
<1> USE CapacitiesArePositive DEF spool, links, inbound, calls, history
<1>1. ASSUME NEW k \in Callers, Begin(k), ~Holds(k)
      PROVE  /\ phase' \in [Callers -> {"idle", "due", "queued", "asked", "answered"}]
             /\ \A j, l \in Callers : Holds(j)' /\ Holds(l)' => j = l
             /\ after' \in [Callers -> Cursor]
  BY <1>1 DEF Begin, TypeOK, Holds
<1>2. CASE Subscribe
  <2>1. Begin("screen") /\ ~Holds("screen") /\ "screen" \in Callers /\ subscribed' \in BOOLEAN
    BY <1>2 DEF Subscribe, Holds, Callers
  <2> QED
    BY <1>1, <1>2, <2>1 DEF Subscribe, TypeOK
<1>3. CASE Unsubscribe
  BY <1>3 DEF Unsubscribe, TypeOK, Holds
<1>4. CASE Resubscribe
  <2>1. "reconnect" \in Callers /\ ~Holds("reconnect") /\ {"reconnect"} \in SUBSET Callers
    BY <1>4 DEF Resubscribe, Holds, Callers
  <2>2. CASE Begin("reconnect") /\ UNCHANGED answer
    BY <1>1, <1>4, <2>1, <2>2 DEF Resubscribe, TypeOK
  <2>3. CASE End({"reconnect"})
    BY <1>4, <2>1, <2>3, EndType DEF Resubscribe, TypeOK
  <2> QED
    BY <1>4, <2>2, <2>3 DEF Resubscribe
<1>5. CASE PollDrain
  BY <1>5 DEF PollDrain, TypeOK, Holds
<1>6. CASE PollApply
  <2>1. cursor' \in Cursor /\ start' \in 0..MaxEvents
    BY <1>6, AcknowledgeType DEF PollApply, TypeOK
  <2>2. applied' \subseteq 1..MaxEvents /\ lost' \subseteq 1..MaxEvents
    BY <1>6, EventsInType DEF PollApply, Apply, TypeOK
  <2>3. batch' = <<>>
    BY <1>6 DEF PollApply
  <2> QED
    BY <1>6, <2>1, <2>2, <2>3 DEF PollApply, TypeOK, Holds
<1>7. CASE DiscardAnswer
  <2>1. End({"screen"}) /\ {"screen"} \in SUBSET Callers /\ answer["screen"] \in Frame
    BY <1>7 DEF DiscardAnswer, Callers, TypeOK
  <2>2. lost' \subseteq 1..MaxEvents
    BY <1>7, <2>1, EventsType DEF DiscardAnswer, Lose, TypeOK
  <2> QED
    BY <1>7, <2>1, <2>2, EndType DEF DiscardAnswer, TypeOK
<1>8. ASSUME NEW k \in Callers, Resume(k) PROVE TypeOK'
  <2>0. {k} \in SUBSET Callers /\ answer[k] \in Frame
    BY DEF TypeOK
  <2>1. CASE AskInVain(k)
    BY <2>0, <2>1, EndType DEF AskInVain, TypeOK
  <2>2. CASE AskOffline(k)
    BY <2>0, <2>2, EndType, DropType DEF AskOffline, TypeOK
  <2>3. CASE Ask(k)
    <3>1. request' \in {<<a>> : a \in 0..MaxEvents}
      BY <2>3 DEF Ask, TypeOK, Cursor
    <3>2. /\ phase' \in [Callers -> {"idle", "due", "queued", "asked", "answered"}]
          /\ \A j, l \in Callers : Holds(j)' /\ Holds(l)' => j = l
      BY <2>3 DEF Ask, MutexFree, TypeOK, Holds
    <3> QED
      BY <2>3, <3>1, <3>2 DEF Ask, TypeOK
  <2>4. CASE ApplyReplay(k)
    <3>1. End({k}) /\ Acknowledge(<<answer[k]>>) /\ <<answer[k]>> \in Seq(Frame)
      BY <2>0, <2>4 DEF ApplyReplay
    <3>2. applied' \subseteq 1..MaxEvents /\ lost' \subseteq 1..MaxEvents
      BY <2>0, <2>4, EventsType DEF ApplyReplay, Apply, TypeOK
    <3> QED
      BY <2>0, <2>4, <3>1, <3>2, AcknowledgeType, EndType DEF ApplyReplay, TypeOK
  <2>5. CASE ApplySnapshot(k)
    <3>1. 1..answer[k].upto \subseteq 1..MaxEvents
      BY <2>0, BoundsAreNat DEF Frame
    <3>2. applied' \subseteq 1..MaxEvents /\ lost' \subseteq 1..MaxEvents
      BY <2>5, <3>1 DEF ApplySnapshot, Snapshot, Apply, TypeOK
    <3>3. cursor' \in Cursor /\ start' \in 0..MaxEvents
      BY <2>5, CloseFrameType, BoundsAreNat DEF ApplySnapshot, Snapshot
    <3> QED
      BY <2>0, <2>5, <3>2, <3>3, EndType DEF ApplySnapshot, TypeOK
  <2> QED
    BY <1>8, <2>1, <2>2, <2>3, <2>4, <2>5 DEF Resume
<1> QED
  BY <1>2, <1>3, <1>4, <1>5, <1>6, <1>7, <1>8 DEF App

(* The types are inductive. *)
LEMMA NextType == TypeOK /\ [Next]_vars => TypeOK'
<1>1. TypeOK /\ UNCHANGED vars => TypeOK'
  BY DEF vars, spool, links, inbound, calls, history, TypeOK, Holds
<1> QED
  BY <1>1, HostdType, RelayType, EngineType, AppType DEF Next

(* Every variable keeps its type: the spool never holds more than MaxRetained events of
   the workspace, no queue on the way exceeds its capacity, and one call at a time holds
   the engine's connection. *)
THEOREM TypeCorrect == Spec => []TypeOK
BY InitType, NextType, PTL DEF Spec

(* What resume answers is complete, whatever has been evicted: a replay starts right
   after the cursor it was asked for and ends at the latest event, and everything in
   between is still retained.  It is a fact about the window that TypeOK describes. *)
THEOREM ReplaysAreGapless == Spec => []ReplayIsGapless
<1>1. TypeOK => ReplayIsGapless
  <2> SUFFICES ASSUME TypeOK, NEW a \in 1..next - 1, NEW o \in oldest..next,
                      Answer(a, o).kind = "replayed"
               PROVE  Answer(a, o).from = a + 1 /\ Answer(a, o).upto = next - 1 /\ o <= a + 1
    BY DEF ReplayIsGapless
  <2>1. next \in Nat /\ oldest \in Nat /\ a >= 1 /\ a <= next - 1 /\ o <= next
    BY BoundsAreNat DEF TypeOK
  <2> QED
    BY <2>1 DEF Answer
<1> QED
  BY <1>1, TypeCorrect, PTL

-----------------------------------------------------------------------------
\* A pair of a process and a sequence that has been drawn: by an earlier process, or
\* by this one.
Drawn(p, n) == p < process \/ (p = process /\ n < next)

\* The frames on any link, in any queue and in any caller's hands.
Frames ==
    ToSet(uplink) \cup ToSet(downq) \cup ToSet(chan) \cup ToSet(queue) \cup ToSet(batch)
      \cup {answer[k] : k \in Callers}

\* The invariant under CursorWasRecorded: it is inductive because the cursor only
\* takes a value that a frame carries, or none.
OnlyDrawn ==
    /\ \A f \in Frames : Drawn(f.process, f.upto)
    /\ Drawn(cursor.process, cursor.seq)

(* What is in a queue after a frame is appended to it ... *)
LEMMA AppendElements ==
    ASSUME NEW s \in Seq(Frame), NEW f \in Frame
    PROVE  ToSet(Append(s, f)) \subseteq ToSet(s) \cup {f}
<1>1. /\ DOMAIN Append(s, f) = 1..Len(s) + 1 /\ Len(s) \in Nat /\ DOMAIN s = 1..Len(s)
      /\ \A i \in 1..Len(s) + 1 : Append(s, f)[i] = IF i = Len(s) + 1 THEN f ELSE s[i]
  BY AppendProperties
<1>2. ASSUME NEW i \in 1..Len(s) + 1 PROVE Append(s, f)[i] \in ToSet(s) \cup {f}
  BY <1>1 DEF ToSet
<1> QED
  BY <1>1, <1>2 DEF ToSet

(* ... after its head is taken ... *)
LEMMA TailElements ==
    ASSUME NEW s \in Seq(Frame), s # <<>>
    PROVE  Head(s) \in ToSet(s) /\ Head(s) \in Frame /\ ToSet(Tail(s)) \subseteq ToSet(s)
BY DEF ToSet

(* ... and after an answer is removed. *)
LEMMA DropElements ==
    ASSUME TypeOK, Drop
    PROVE  ToSet(uplink') \subseteq ToSet(uplink) /\ ToSet(downq') = {}
<1>1. uplink \in Seq(Frame) /\ uplink' = WithoutAnswer(uplink) /\ downq' = <<>>
  BY DEF TypeOK, Drop
<1>2. ToSet(uplink') \subseteq ToSet(uplink)
  BY <1>1, WithoutAnswerType DEF ToSet
<1>3. ToSet(downq') = {}
  BY <1>1 DEF ToSet
<1> QED
  BY <1>2, <1>3

(* What has been drawn stays drawn. *)
LEMMA DrawnStays ==
    ASSUME TypeOK, [Next]_vars, NEW p \in Processes, NEW n \in 0..MaxEvents, Drawn(p, n)
    PROVE  Drawn(p, n)'
<1> USE BoundsAreNat DEF spool, links, inbound, calls, history
<1>1. \/ process' = process /\ next' = next
      \/ process' = process /\ next' = next + 1
      \/ process' = process + 1
  <2>1. CASE UNCHANGED vars
    BY <2>1 DEF vars
  <2>2. CASE Hostd
    BY <2>2 DEF Hostd, Record, AnswerResume, HostConnect, HostDisconnect, HostRestart
  <2>3. CASE Relay
    BY <2>3 DEF Relay, RoutePush, RouteAnswer, TellClosed
  <2>4. CASE PhoneConnect \/ PhoneDisconnect \/ Engine
    BY <2>4 DEF PhoneConnect, PhoneDisconnect, Engine, ReadPush, ReadClose, Pump, ReadAnswer
  <2>5. CASE App
    BY <2>5 DEF App, Subscribe, Unsubscribe, Resubscribe, PollDrain, PollApply, DiscardAnswer,
                Resume, AskInVain, AskOffline, Ask, ApplyReplay, ApplySnapshot
  <2> QED
    BY <2>1, <2>2, <2>3, <2>4, <2>5 DEF Next
<1>2. process \in Nat /\ next \in Nat /\ p \in Nat /\ n \in Nat
  BY DEF TypeOK, Processes
<1> QED
  BY <1>1, <1>2 DEF Drawn

(* The end of a call leaves each caller with the frame it had or with none. *)
LEMMA EndElements ==
    ASSUME TypeOK, NEW K \in SUBSET Callers, End(K)
    PROVE  {answer'[k] : k \in Callers} \subseteq {answer[k] : k \in Callers} \cup {CloseFrame}
BY DEF End, TypeOK

(* Every frame in the next state was there, is none at all, or carries an event that
   this process has drawn, with this step or before. *)
LEMMA FramesStep ==
    ASSUME TypeOK, [Next]_vars, NEW f \in Frames'
    PROVE  f \in Frames \/ f = CloseFrame \/ (f.process = process' /\ f.upto < next')
<1> USE BoundsAreNat DEF spool, links, inbound, calls, history
<1>1. CASE UNCHANGED vars
  BY <1>1 DEF vars, Frames
<1>2. CASE Hostd
  <2>1. CASE Record
    <3> DEFINE g == [kind |-> "push", process |-> process, from |-> next, upto |-> next]
    <3>1. g \in Frame
      BY <2>1 DEF Record, TypeOK, Frame
    <3>2. ToSet(uplink') \subseteq ToSet(uplink) \cup {g}
      BY <2>1, <3>1, AppendElements DEF Record, TypeOK
    <3>3. g.process = process' /\ g.upto < next'
      BY <2>1 DEF Record, TypeOK
    <3> QED
      BY <2>1, <3>2, <3>3 DEF Record, Frames
  <2>2. CASE AnswerResume
    <3>1. PICK o \in oldest..next : uplink' = Append(uplink, Answer(Head(request), o))
      BY <2>2 DEF AnswerResume
    <3> DEFINE g == Answer(Head(request), o)
    <3>2. Head(request) \in 0..MaxEvents
      BY <2>2 DEF AnswerResume, TypeOK
    <3>3. g \in Frame /\ g.process = process /\ g.upto = next - 1
      BY <3>2, AnswerType
    <3> HIDE DEF g
    <3>4. ToSet(uplink') \subseteq ToSet(uplink) \cup {g}
      BY <3>1, <3>3, AppendElements DEF TypeOK, g
    <3>5. g.process = process' /\ g.upto < next'
      BY <2>2, <3>3 DEF AnswerResume, TypeOK
    <3> QED
      BY <2>2, <3>4, <3>5 DEF AnswerResume, Frames
  <2>3. CASE HostConnect \/ HostRestart
    BY <2>3 DEF HostConnect, HostRestart, Frames
  <2>4. CASE HostDisconnect
    BY <2>4 DEF HostDisconnect, Frames, ToSet
  <2> QED
    BY <1>2, <2>1, <2>2, <2>3, <2>4 DEF Hostd
<1>3. CASE Relay
  <2>1. CASE RoutePush \/ RouteAnswer
    <3>1. /\ Head(uplink) \in ToSet(uplink) /\ Head(uplink) \in Frame
          /\ ToSet(uplink') \subseteq ToSet(uplink)
      BY <2>1, TailElements DEF RoutePush, RouteAnswer, TypeOK
    <3>2. ToSet(downq') \subseteq ToSet(downq) \cup {Head(uplink)}
      <4>1. downq \in Seq(Frame) /\ downq' \in {downq, Append(downq, Head(uplink))}
        BY <2>1 DEF RoutePush, RouteAnswer, TypeOK
      <4> QED
        BY <3>1, <4>1, AppendElements
    <3> QED
      BY <2>1, <3>1, <3>2 DEF RoutePush, RouteAnswer, Frames
  <2>2. CASE TellClosed
    <3>1. ToSet(downq') \subseteq ToSet(downq) \cup {CloseFrame}
      BY <2>2, CloseFrameType, AppendElements DEF TellClosed, TypeOK
    <3> QED
      BY <2>2, <3>1 DEF TellClosed, Frames
  <2> QED
    BY <1>3, <2>1, <2>2 DEF Relay
<1>4. ASSUME Drop PROVE ToSet(uplink') \subseteq ToSet(uplink) /\ ToSet(downq') = {}
  BY <1>4, DropElements
<1>5. CASE PhoneConnect \/ PhoneDisconnect \/ Engine
  <2>1. CASE PhoneConnect
    BY <2>1 DEF PhoneConnect, Frames
  <2>2. CASE PhoneDisconnect \/ ReadClose
    <3>1. Holders \in SUBSET Callers
      BY DEF Holders
    <3> QED
      BY <1>4, <2>2, <3>1, EndElements DEF PhoneDisconnect, ReadClose, Frames
  <2>3. CASE ReadPush
    <3>1. Head(downq) \in ToSet(downq) /\ Head(downq) \in Frame /\ ToSet(downq') \subseteq ToSet(downq)
      BY <2>3, TailElements DEF ReadPush, TypeOK
    <3>2. ToSet(chan') \subseteq ToSet(chan) \cup {Head(downq)}
      <4>1. chan \in Seq(Frame) /\ chan' \in {chan, Append(chan, Head(downq))}
        BY <2>3 DEF ReadPush, TypeOK
      <4> QED
        BY <3>1, <4>1, AppendElements
    <3> QED
      BY <2>3, <3>1, <3>2 DEF ReadPush, Frames
  <2>4. ASSUME NEW k \in Callers, ReadAnswer(k)
        PROVE  f \in Frames
    <3>1. Head(downq) \in ToSet(downq) /\ ToSet(downq') \subseteq ToSet(downq)
      BY <2>4, TailElements DEF ReadAnswer, TypeOK
    <3>2. {answer'[j] : j \in Callers} \subseteq {answer[j] : j \in Callers} \cup {Head(downq)}
      BY <2>4 DEF ReadAnswer, TypeOK
    <3> QED
      BY <2>4, <3>1, <3>2 DEF ReadAnswer, Frames
  <2>5. CASE Pump
    <3>1. Head(chan) \in ToSet(chan) /\ Head(chan) \in Frame /\ ToSet(chan') \subseteq ToSet(chan)
      BY <2>5, TailElements DEF Pump, TypeOK
    <3>2. ToSet(queue') \subseteq ToSet(queue) \cup {Head(chan)}
      <4>1. CASE Len(queue) < QueueCapacity
        <5>1. queue \in Seq(Frame) /\ queue' = Append(queue, Head(chan))
          BY <2>5, <4>1 DEF Pump, TypeOK
        <5> QED
          BY <3>1, <5>1, AppendElements
      <4>2. CASE ~(Len(queue) < QueueCapacity)
        <5>1. queue \in Seq(Frame) /\ queue # <<>> /\ queue' = Append(Tail(queue), Head(chan))
          BY <2>5, <4>2, CapacitiesArePositive DEF Pump, TypeOK
        <5>2. Tail(queue) \in Seq(Frame) /\ ToSet(Tail(queue)) \subseteq ToSet(queue)
          BY <5>1, QueueType, TailElements
        <5> QED
          BY <3>1, <5>1, <5>2, AppendElements
      <4> QED
        BY <4>1, <4>2
    <3> QED
      BY <2>5, <3>1, <3>2 DEF Pump, Frames
  <2> QED
    BY <1>5, <2>1, <2>2, <2>3, <2>4, <2>5 DEF Engine
<1>6. CASE App
  <2>1. CASE Subscribe \/ Unsubscribe
    BY <2>1 DEF Subscribe, Unsubscribe, Begin, Frames
  <2>2. CASE Resubscribe
    <3>1. {"reconnect"} \in SUBSET Callers
      BY DEF Callers
    <3> QED
      BY <2>2, <3>1, EndElements DEF Resubscribe, Begin, Frames
  <2>3. CASE PollDrain \/ PollApply
    BY <2>3 DEF PollDrain, PollApply, Frames, ToSet
  <2>4. CASE DiscardAnswer
    <3>1. {"screen"} \in SUBSET Callers
      BY DEF Callers
    <3> QED
      BY <2>4, <3>1, EndElements DEF DiscardAnswer, Frames
  <2>5. ASSUME NEW k \in Callers, Resume(k) PROVE f \in Frames \/ f = CloseFrame
    <3>1. {k} \in SUBSET Callers
      OBVIOUS
    <3>2. CASE AskInVain(k) \/ ApplyReplay(k) \/ ApplySnapshot(k)
      BY <3>1, <3>2, EndElements DEF AskInVain, ApplyReplay, ApplySnapshot, Frames
    <3>3. CASE AskOffline(k)
      BY <1>4, <3>1, <3>3, EndElements DEF AskOffline, Frames
    <3>4. CASE Ask(k)
      BY <3>4 DEF Ask, Frames
    <3> QED
      BY <2>5, <3>2, <3>3, <3>4 DEF Resume
  <2> QED
    BY <1>6, <2>1, <2>2, <2>3, <2>4, <2>5 DEF App
<1> QED
  BY <1>1, <1>2, <1>3, <1>5, <1>6 DEF Next

(* The cursor stays, is reset, or moves to the end of a frame in the app's hands. *)
LEMMA CursorStep ==
    ASSUME TypeOK, [Next]_vars
    PROVE  \/ cursor' = cursor
           \/ cursor' = NoCursor
           \/ \E f \in Frames : cursor' = [process |-> f.process, seq |-> f.upto]
<1> USE DEF spool, links, inbound, calls, history
<1>1. CASE UNCHANGED vars
  BY <1>1 DEF vars
<1>2. CASE Hostd
  BY <1>2 DEF Hostd, Record, AnswerResume, HostConnect, HostDisconnect, HostRestart
<1>3. CASE Relay
  BY <1>3 DEF Relay, RoutePush, RouteAnswer, TellClosed
<1>4. CASE PhoneConnect \/ PhoneDisconnect \/ Engine
  BY <1>4 DEF PhoneConnect, PhoneDisconnect, Engine, ReadPush, ReadClose, Pump, ReadAnswer
<1>5. CASE PollApply
  <2>1. batch \in Seq(Frame) /\ Acknowledge(batch)
    BY <1>5 DEF PollApply, TypeOK
  <2>2. cursor' = cursor \/ \E i \in DOMAIN batch :
                               cursor' = [process |-> batch[i].process, seq |-> batch[i].upto]
    BY <2>1, AcknowledgeType
  <2> QED
    BY <2>2 DEF Frames, ToSet
<1>6. ASSUME NEW k \in Callers, ApplyReplay(k)
      PROVE  cursor' = cursor \/ cursor' = [process |-> answer[k].process, seq |-> answer[k].upto]
  <2>1. <<answer[k]>> \in Seq(Frame) /\ Acknowledge(<<answer[k]>>)
    BY <1>6 DEF ApplyReplay, TypeOK
  <2>2. cursor' = cursor \/ \E i \in DOMAIN <<answer[k]>> :
          cursor' = [process |-> <<answer[k]>>[i].process, seq |-> <<answer[k]>>[i].upto]
    BY <2>1, AcknowledgeType
  <2> QED
    BY <2>2
<1>7. ASSUME App, ~PollApply, \A k \in Callers : ~ApplyReplay(k)
      PROVE  cursor' = cursor \/ cursor' = NoCursor
  BY <1>7 DEF App, Subscribe, Unsubscribe, Resubscribe, PollDrain, DiscardAnswer, Resume, AskInVain,
              AskOffline, Ask, ApplySnapshot, Snapshot
<1> QED
  BY <1>1, <1>2, <1>3, <1>4, <1>5, <1>6, <1>7 DEF Next, Frames

(* No process ever meets a cursor of its own that is ahead of it: what the phone has
   acknowledged of the running serve process, that process has recorded. *)
THEOREM CursorRecorded == Spec => []CursorWasRecorded
<1>1. Init => OnlyDrawn
  <2> SUFFICES ASSUME Init PROVE OnlyDrawn
    OBVIOUS
  <2>1. Frames \subseteq {CloseFrame}
    BY DEF Init, Frames, ToSet
  <2> QED
    BY <2>1 DEF Init, OnlyDrawn, Drawn, CloseFrame, NoCursor
<1>2. TypeOK /\ OnlyDrawn /\ [Next]_vars => OnlyDrawn'
  <2> SUFFICES ASSUME TypeOK, OnlyDrawn, [Next]_vars PROVE OnlyDrawn'
    OBVIOUS
  <2>1. TypeOK'
    BY NextType
  <2>2. Frames \subseteq Frame
    BY DEF Frames, TypeOK, ToSet
  <2>3. \A f \in Frames : f.process \in Processes /\ f.upto \in 0..MaxEvents
    BY <2>2 DEF Frame
  <2>4. \A f \in Frames : Drawn(f.process, f.upto)'
    <3> SUFFICES ASSUME NEW f \in Frames PROVE Drawn(f.process, f.upto)'
      OBVIOUS
    <3>1. Drawn(f.process, f.upto)
      BY DEF OnlyDrawn
    <3> QED
      BY <2>3, <3>1, DrawnStays
  <2>5. Drawn(1, 0)'
    <3>1. process' >= 1 /\ next' >= 1 /\ process' \in Nat /\ next' \in Nat
      BY <2>1, BoundsAreNat DEF TypeOK, Processes
    <3> QED
      BY <3>1 DEF Drawn
  <2>6. ASSUME NEW f \in Frames' PROVE (Drawn(f.process, f.upto))'
    <3>1. CASE f \in Frames
      BY <2>4, <3>1
    <3>2. CASE f = CloseFrame
      BY <2>5, <3>2 DEF CloseFrame
    <3>3. CASE f.process = process' /\ f.upto < next'
      BY <3>3 DEF Drawn
    <3> QED
      BY <3>1, <3>2, <3>3, FramesStep
  <2>7. (Drawn(cursor.process, cursor.seq))'
    <3>1. CASE cursor' = cursor
      <4>1. cursor.process \in Processes /\ cursor.seq \in 0..MaxEvents
        BY DEF TypeOK, Cursor
      <4>2. Drawn(cursor.process, cursor.seq)
        BY DEF OnlyDrawn
      <4>3. cursor.process < process' \/ (cursor.process = process' /\ cursor.seq < next')
        BY <4>1, <4>2, DrawnStays DEF Drawn
      <4> QED
        BY <3>1, <4>3 DEF Drawn
    <3>2. CASE cursor' = NoCursor
      BY <2>5, <3>2 DEF NoCursor, Drawn
    <3>3. ASSUME NEW f \in Frames, cursor' = [process |-> f.process, seq |-> f.upto]
          PROVE  (Drawn(cursor.process, cursor.seq))'
      BY <2>4, <3>3 DEF Drawn
    <3> QED
      BY <3>1, <3>2, <3>3, CursorStep
  <2> QED
    BY <2>6, <2>7 DEF OnlyDrawn
<1>3. TypeOK /\ OnlyDrawn => CursorWasRecorded
  <2> SUFFICES ASSUME TypeOK, OnlyDrawn, cursor.process = process PROVE cursor.seq < next
    BY DEF CursorWasRecorded
  <2>1. process \in Nat
    BY DEF TypeOK, Processes
  <2> QED
    BY <2>1 DEF OnlyDrawn, Drawn
<1> QED
  BY <1>1, <1>2, <1>3, TypeCorrect, PTL DEF Spec

-----------------------------------------------------------------------------
(* What is left of a resume: OneTrace. *)

\* A queue holds one answer or close at most.
Lone(s) == \A i, j \in AnswersIn(s) : i = j

Asked    == request # <<>>
Upward   == AnswersIn(uplink) # {}
Downward == AnswersIn(downq) # {}

\* The invariant under OneTrace, with its count spelled out: no two of the four places
\* hold a trace, neither link holds two, and a trace has a caller that waits for it.
TraceInv ==
    /\ Lone(uplink) /\ Lone(downq)
    /\ Asked => ~Upward /\ ~Downward /\ ~closing
    /\ Upward => ~Downward /\ ~closing
    /\ Downward => ~closing
    /\ Asked \/ Upward \/ Downward \/ closing => Holders # {}

(* A push leaves the answers of a queue where they are ... *)
LEMMA PushAppended ==
    ASSUME NEW s \in Seq(Frame), NEW f \in Frame, IsPush(f)
    PROVE  AnswersIn(Append(s, f)) = AnswersIn(s)
<1>1. /\ DOMAIN Append(s, f) = 1..Len(s) + 1 /\ Len(s) \in Nat /\ DOMAIN s = 1..Len(s)
      /\ \A i \in 1..Len(s) + 1 : Append(s, f)[i] = IF i = Len(s) + 1 THEN f ELSE s[i]
  BY AppendProperties
<1> QED
  BY <1>1 DEF AnswersIn

(* ... and an answer is the only one where there was none. *)
LEMMA AnswerAppended ==
    ASSUME NEW s \in Seq(Frame), NEW f \in Frame, AnswersIn(s) = {}
    PROVE  Lone(Append(s, f))
<1>1. /\ DOMAIN Append(s, f) = 1..Len(s) + 1 /\ Len(s) \in Nat /\ DOMAIN s = 1..Len(s)
      /\ \A i \in 1..Len(s) + 1 : Append(s, f)[i] = IF i = Len(s) + 1 THEN f ELSE s[i]
  BY AppendProperties
<1>2. AnswersIn(Append(s, f)) \subseteq {Len(s) + 1}
  BY <1>1 DEF AnswersIn
<1> QED
  BY <1>2 DEF Lone

(* The tail of a queue has the answers of the queue, its head apart. *)
LEMMA HeadTaken ==
    ASSUME NEW s \in Seq(Frame), s # <<>>, Lone(s)
    PROVE  /\ Lone(Tail(s))
           /\ AnswersIn(Tail(s)) # {} => AnswersIn(s) # {}
           /\ ~IsPush(Head(s)) => AnswersIn(s) # {} /\ AnswersIn(Tail(s)) = {}
<1>1. /\ Tail(s) \in Seq(Frame) /\ Len(s) \in Nat /\ Len(s) >= 1 /\ Len(Tail(s)) = Len(s) - 1
      /\ DOMAIN s = 1..Len(s) /\ DOMAIN Tail(s) = 1..Len(s) - 1 /\ Head(s) = s[1]
      /\ \A i \in 1..Len(s) - 1 : Tail(s)[i] = s[i + 1]
  OBVIOUS
<1> DEFINE t == Tail(s)
<1> HIDE DEF t
<1>2. ASSUME NEW i \in AnswersIn(t) PROVE i \in Int /\ i >= 1 /\ i + 1 \in AnswersIn(s)
  BY <1>1, <1>2 DEF AnswersIn, t
<1>3. ~IsPush(Head(s)) => 1 \in AnswersIn(s)
  BY <1>1 DEF AnswersIn
<1>4. Lone(t)
  <2>1. ASSUME NEW i \in AnswersIn(t), NEW j \in AnswersIn(t) PROVE i = j
    <3>1. i + 1 = j + 1
      BY <1>2 DEF Lone
    <3> QED
      BY <1>2, <3>1
  <2> QED
    BY <2>1 DEF Lone
<1>5. AnswersIn(t) # {} => AnswersIn(s) # {}
  BY <1>2
<1>6. ASSUME ~IsPush(Head(s)), NEW i \in AnswersIn(t) PROVE FALSE
  <2>1. i + 1 = 1
    BY <1>2, <1>3, <1>6 DEF Lone
  <2> QED
    BY <1>2, <2>1
<1> QED
  BY <1>3, <1>4, <1>5, <1>6 DEF t

(* Closing a tunnel takes the only answer there is, and nothing else. *)
LEMMA AnswerRemoved ==
    ASSUME NEW s \in Seq(Frame), Lone(s)
    PROVE  /\ AnswersIn(WithoutAnswer(s)) = {}
           /\ ToSet(s) \subseteq ToSet(WithoutAnswer(s)) \cup {s[i] : i \in AnswersIn(s)}
<1>1. CASE AnswersIn(s) = {}
  BY <1>1 DEF WithoutAnswer
<1>2. CASE AnswersIn(s) # {}
  <2> DEFINE w == WithoutAnswer(s)
  <2>1. PICK k \in AnswersIn(s) :
          /\ w \in Seq(Frame) /\ Len(w) = Len(s) - 1
          /\ \A i \in 1..Len(s) - 1 : w[i] = IF i <= k - 1 THEN s[i] ELSE s[i + 1]
    BY <1>2, WithoutAnswerIs
  <2> HIDE DEF w
  <2>2. /\ DOMAIN w = 1..Len(s) - 1 /\ DOMAIN s = 1..Len(s) /\ Len(s) \in Nat
        /\ k \in 1..Len(s)
    BY <2>1 DEF AnswersIn
  <2>3. \A j \in 1..Len(s) : j # k => ~(j \in AnswersIn(s))
    BY <2>1 DEF Lone
  <2>4. \A j \in 1..Len(s) : j # k => IsPush(s[j])
    BY <2>2, <2>3 DEF AnswersIn
  <2>5. \A i \in 1..Len(s) - 1 : IsPush(w[i])
    <3>1. \A i \in 1..Len(s) - 1 : \E j \in 1..Len(s) : j # k /\ w[i] = s[j]
      BY <2>1, <2>2
    <3> QED
      BY <2>4, <3>1
  <2>6. \A j \in 1..Len(s) : j # k => \E i \in 1..Len(s) - 1 : w[i] = s[j]
    <3>1. ASSUME NEW j \in 1..Len(s), j < k PROVE j \in 1..Len(s) - 1 /\ w[j] = s[j]
      BY <2>1, <2>2, <3>1
    <3>2. ASSUME NEW j \in 1..Len(s), j > k PROVE j - 1 \in 1..Len(s) - 1 /\ w[j - 1] = s[j]
      BY <2>1, <2>2, <3>2
    <3> QED
      BY <2>2, <3>1, <3>2
  <2>7. AnswersIn(w) = {}
    BY <2>2, <2>5 DEF AnswersIn
  <2>8. ToSet(s) \subseteq ToSet(w) \cup {s[i] : i \in AnswersIn(s)}
    BY <2>1, <2>2, <2>6 DEF ToSet
  <2> QED
    BY <2>7, <2>8 DEF w
<1> QED
  BY <1>1, <1>2

(* An answer ended by closing its tunnel, wherever it was, leaves no trace. *)
LEMMA DropTrace ==
    ASSUME TypeOK, TraceInv, Drop
    PROVE  ~Asked' /\ ~Upward' /\ ~Downward' /\ ~closing' /\ TraceInv'
<1>1. uplink \in Seq(Frame) /\ Lone(uplink) /\ uplink' = WithoutAnswer(uplink) /\ downq' = <<>>
  BY DEF TypeOK, TraceInv, Drop
<1>2. AnswersIn(uplink') = {} /\ AnswersIn(downq') = {}
  BY <1>1, AnswerRemoved DEF AnswersIn
<1>3. request' = <<>> /\ closing' = FALSE
  BY DEF Drop, NoRequest
<1> QED
  BY <1>2, <1>3 DEF Asked, Upward, Downward, TraceInv, Lone

(* Calls that do not wait for an answer may end, and wait, without a trace of them. *)
LEMMA CallTrace ==
    ASSUME TraceInv, UNCHANGED <<uplink, request, downq, closing>>, Holders \subseteq Holders'
    PROVE  TraceInv'
BY DEF TraceInv, Asked, Upward, Downward

(* choosh-hostd moves a trace up its link, or loses it to the relay's close. *)
LEMMA HostdTrace == ASSUME TypeOK, TraceInv, Hostd PROVE TraceInv'
<1> USE DEF calls, spool, inbound, history, links
<1>0. phase' = phase /\ Holders' = Holders
  BY DEF Hostd, Record, AnswerResume, HostConnect, HostDisconnect, HostRestart, Holders, Holds
<1>1. CASE Record
  <2>1. [kind |-> "push", process |-> process, from |-> next, upto |-> next] \in Frame
    BY <1>1 DEF Record, TypeOK, Frame
  <2>2. AnswersIn(uplink') = AnswersIn(uplink)
    BY <1>1, <2>1, PushAppended DEF Record, IsPush, TypeOK
  <2> QED
    BY <1>0, <1>1, <2>2 DEF Record, TraceInv, Lone, Asked, Upward, Downward
<1>2. CASE AnswerResume
  <2>1. PICK o \in oldest..next : uplink' = Append(uplink, Answer(Head(request), o))
    BY <1>2 DEF AnswerResume
  <2>2. Head(request) \in 0..MaxEvents /\ Asked
    BY <1>2 DEF AnswerResume, TypeOK, Asked
  <2>3. Answer(Head(request), o) \in Frame /\ AnswersIn(uplink) = {}
    BY <2>2, AnswerType DEF TraceInv, Upward
  <2>4. Lone(uplink')
    BY <2>1, <2>3, AnswerAppended DEF TypeOK
  <2>5. request' = <<>> /\ downq' = downq /\ closing' = closing
    BY <1>2 DEF AnswerResume, NoRequest
  <2> QED
    BY <1>0, <2>2, <2>4, <2>5 DEF TraceInv, Asked, Upward, Downward
<1>3. CASE HostConnect \/ HostRestart
  BY <1>0, <1>3, CallTrace DEF HostConnect, HostRestart
<1>4. CASE HostDisconnect
  <2>1. request' = <<>> /\ downq' = downq /\ AnswersIn(uplink') = {}
    BY <1>4 DEF HostDisconnect, NoRequest, AnswersIn
  <2>2. closing' = (closing \/ Asked \/ Upward)
    BY <1>4 DEF HostDisconnect, TunnelOpen, Asked, Upward
  <2> QED
    BY <1>0, <2>1, <2>2 DEF TraceInv, Asked, Upward, Downward, Lone
<1> QED
  BY <1>1, <1>2, <1>3, <1>4 DEF Hostd

(* The relay moves a trace down to the phone, or turns it into a close. *)
LEMMA RelayTrace == ASSUME TypeOK, TraceInv, Relay PROVE TraceInv'
<1> USE DEF calls, spool, inbound, history, links
<1>0. request' = request /\ Holders' = Holders
  BY DEF Relay, RoutePush, RouteAnswer, TellClosed, Holders, Holds
<1>1. ASSUME RoutePush \/ RouteAnswer
      PROVE  /\ uplink \in Seq(Frame) /\ uplink # <<>> /\ uplink' = Tail(uplink) /\ Lone(uplink')
             /\ Upward' => Upward
             /\ Head(uplink) \in Frame
  BY <1>1, HeadTaken, QueueType DEF RoutePush, RouteAnswer, TypeOK, TraceInv, Upward
<1>2. CASE RoutePush
  <2>1. IsPush(Head(uplink)) /\ closing' = closing /\ downq' \in {downq, Append(downq, Head(uplink))}
    BY <1>2 DEF RoutePush
  <2>2. AnswersIn(downq') = AnswersIn(downq)
    BY <1>1, <1>2, <2>1, PushAppended DEF TypeOK
  <2> QED
    BY <1>0, <1>1, <1>2, <2>1, <2>2 DEF TraceInv, Lone, Asked, Upward, Downward
<1>3. CASE RouteAnswer
  <2>1. Upward /\ ~Upward'
    BY <1>1, <1>3, HeadTaken DEF RouteAnswer, TraceInv, Upward
  <2>2. AnswersIn(downq) = {} /\ ~closing /\ ~Asked
    BY <2>1 DEF TraceInv, Downward
  <2>3. \/ closing' = closing /\ downq' = Append(downq, Head(uplink))
        \/ closing' = TRUE /\ downq' = downq
    BY <1>3 DEF RouteAnswer
  <2>4. Lone(downq')
    BY <1>1, <1>3, <2>2, <2>3, AnswerAppended DEF TypeOK, TraceInv
  <2> QED
    BY <1>0, <1>1, <1>3, <2>1, <2>2, <2>3, <2>4 DEF TraceInv, Asked, Upward, Downward
<1>4. CASE TellClosed
  <2>1. closing /\ ~closing' /\ uplink' = uplink /\ downq' \in {downq, Append(downq, CloseFrame)}
    BY <1>4 DEF TellClosed
  <2>2. AnswersIn(downq) = {}
    BY <2>1 DEF TraceInv, Downward
  <2>3. Lone(downq')
    BY <2>1, <2>2, CloseFrameType, AnswerAppended DEF TypeOK, TraceInv
  <2> QED
    BY <1>0, <2>1, <2>3 DEF TraceInv, Asked, Upward, Downward
<1> QED
  BY <1>2, <1>3, <1>4 DEF Relay

(* The phone's connection takes a trace out, with the wait for it. *)
LEMMA EngineTrace ==
    ASSUME TypeOK, TraceInv, PhoneConnect \/ PhoneDisconnect \/ Engine
    PROVE  TraceInv'
<1> USE DEF calls, spool, inbound, history, links
<1>1. CASE PhoneConnect
  <2>1. Holders \subseteq Holders'
    BY <1>1 DEF PhoneConnect, Holders, Holds, TypeOK
  <2> QED
    BY <1>1, <2>1, CallTrace DEF PhoneConnect
<1>2. CASE PhoneDisconnect \/ ReadClose
  BY <1>2, DropTrace DEF PhoneDisconnect, ReadClose
<1>3. CASE ReadPush
  <2>1. /\ downq \in Seq(Frame) /\ downq # <<>> /\ downq' = Tail(downq) /\ Lone(downq')
        /\ Downward' => Downward
    BY <1>3, HeadTaken DEF ReadPush, TypeOK, TraceInv, Downward
  <2>2. /\ uplink' = uplink /\ request' = request /\ closing' = closing /\ phase' = phase
    BY <1>3 DEF ReadPush
  <2> QED
    BY <2>1, <2>2 DEF TraceInv, Asked, Upward, Downward, Holders, Holds
<1>4. ASSUME NEW k \in Callers, ReadAnswer(k) PROVE TraceInv'
  <2>1. downq \in Seq(Frame) /\ downq # <<>> /\ downq' = Tail(downq) /\ ~IsPush(Head(downq))
    BY <1>4 DEF ReadAnswer, TypeOK, IsPush
  <2>2. Downward /\ ~Downward' /\ Lone(downq')
    BY <2>1, HeadTaken DEF TraceInv, Downward
  <2>3. /\ uplink' = uplink /\ request' = request /\ closing' = closing
    BY <1>4 DEF ReadAnswer
  <2> QED
    BY <2>2, <2>3 DEF TraceInv, Asked, Upward, Downward
<1>5. CASE Pump
  BY <1>5, CallTrace DEF Pump, Holders, Holds
<1> QED
  BY <1>1, <1>2, <1>3, <1>4, <1>5 DEF Engine

(* The app asks only when no call is under way, and so when no trace is. *)
LEMMA AppTrace == ASSUME TypeOK, TraceInv, App PROVE TraceInv'
<1> USE DEF calls, spool, inbound, history, links
<1>1. CASE Subscribe \/ Unsubscribe \/ Resubscribe
  <2>1. Holders \subseteq Holders'
    BY <1>1 DEF Subscribe, Unsubscribe, Resubscribe, Begin, End, Holders, Holds, TypeOK
  <2> QED
    BY <1>1, <2>1, CallTrace DEF Subscribe, Unsubscribe, Resubscribe
<1>2. CASE PollDrain \/ PollApply
  BY <1>2, CallTrace DEF PollDrain, PollApply, Holders, Holds
<1>3. CASE DiscardAnswer
  <2>1. Holders \subseteq Holders'
    BY <1>3 DEF DiscardAnswer, End, Holders, Holds, TypeOK
  <2> QED
    BY <1>3, <2>1, CallTrace DEF DiscardAnswer
<1>4. ASSUME NEW k \in Callers, Resume(k) PROVE TraceInv'
  <2>1. CASE AskInVain(k) \/ ApplyReplay(k) \/ ApplySnapshot(k)
    <3>1. Holders \subseteq Holders'
      BY <2>1 DEF AskInVain, ApplyReplay, ApplySnapshot, End, Holders, Holds, TypeOK
    <3> QED
      BY <2>1, <3>1, CallTrace DEF AskInVain, ApplyReplay, ApplySnapshot
  <2>2. CASE AskOffline(k)
    BY <2>2, DropTrace DEF AskOffline
  <2>3. CASE Ask(k)
    <3>1. ~Upward /\ ~Downward /\ ~closing
      BY <2>3 DEF Ask, MutexFree, Holders, TraceInv
    <3>2. uplink' = uplink /\ downq' = downq /\ closing' = closing
      BY <2>3 DEF Ask
    <3>3. k \in Holders'
      BY <2>3 DEF Ask, Holders, Holds, TypeOK
    <3> QED
      BY <3>1, <3>2, <3>3 DEF TraceInv, Asked, Upward, Downward
  <2> QED
    BY <1>4, <2>1, <2>2, <2>3 DEF Resume
<1> QED
  BY <1>1, <1>2, <1>3, <1>4 DEF App

(* TraceInv is an invariant. *)
LEMMA TracesKept == Spec => []TraceInv
<1>1. Init => TraceInv
  BY DEF Init, TraceInv, Lone, Asked, Upward, Downward, AnswersIn
<1>2. TypeOK /\ TraceInv /\ [Next]_vars => TraceInv'
  <2>1. TypeOK /\ TraceInv /\ UNCHANGED vars => TraceInv'
    BY CallTrace DEF vars, links, calls, Holders, Holds
  <2> QED
    BY <2>1, HostdTrace, RelayTrace, EngineTrace, AppTrace DEF Next
<1> QED
  BY <1>1, <1>2, TypeCorrect, PTL DEF Spec

(* A resume leaves one trace at most: its request, its answer or the news that its tunnel
   is closed, on one of the links, and only while its caller waits.  So no caller is ever
   handed the answer to an earlier call. *)
THEOREM OneTraceEach == Spec => []OneTrace
<1>1. TypeOK /\ TraceInv => OneTrace
  <2> SUFFICES ASSUME TypeOK, TraceInv PROVE OneTrace
    OBVIOUS
  <2>1. ASSUME NEW s, Lone(s)
        PROVE  Cardinality(AnswersIn(s)) = IF AnswersIn(s) = {} THEN 0 ELSE 1
    <3>1. CASE AnswersIn(s) = {}
      BY <3>1, FS_EmptySet
    <3>2. ASSUME NEW i \in AnswersIn(s) PROVE Cardinality(AnswersIn(s)) = 1
      <4>1. AnswersIn(s) = {i}
        BY <2>1, <3>2 DEF Lone
      <4> QED
        BY <4>1, FS_Singleton
    <3> QED
      BY <3>1, <3>2
  <2>2. Cardinality(AnswersIn(uplink)) = IF Upward THEN 1 ELSE 0
    BY <2>1 DEF TraceInv, Upward
  <2>3. Cardinality(AnswersIn(downq)) = IF Downward THEN 1 ELSE 0
    BY <2>1 DEF TraceInv, Downward
  <2>4. Len(request) = IF Asked THEN 1 ELSE 0
    BY DEF TypeOK, Asked
  <2>5. closing \in BOOLEAN
    BY DEF TypeOK
  <2> QED
    BY <2>2, <2>3, <2>4, <2>5 DEF TraceInv, OneTrace
<1> QED
  BY <1>1, TracesKept, TypeCorrect, PTL

-----------------------------------------------------------------------------
(* What becomes of an event: HandoffHasNoHole. *)

\* What the phone has applied, what is on its way to it, and what is known to be lost.
Known == applied \cup InFlight \cup lost

(* A queue carries what its frames carry: a frame appended, a head taken, an answer
   removed. *)
LEMMA EventsQueued ==
    ASSUME NEW s \in Seq(Frame)
    PROVE  /\ \A f \in Frame : EventsIn(Append(s, f)) = EventsIn(s) \cup Events(f)
           /\ s # <<>> => EventsIn(s) = Events(Head(s)) \cup EventsIn(Tail(s))
           /\ Lone(s) => EventsIn(s) \subseteq EventsIn(WithoutAnswer(s))
                                                \cup UNION {Events(s[i]) : i \in AnswersIn(s)}
<1>1. ASSUME NEW f \in Frame PROVE ToSet(Append(s, f)) = ToSet(s) \cup {f}
  <2>1. /\ DOMAIN Append(s, f) = 1..Len(s) + 1 /\ Len(s) \in Nat /\ DOMAIN s = 1..Len(s)
        /\ \A i \in 1..Len(s) + 1 : Append(s, f)[i] = IF i = Len(s) + 1 THEN f ELSE s[i]
    BY AppendProperties
  <2>2. ToSet(s) \subseteq ToSet(Append(s, f))
    BY <2>1 DEF ToSet
  <2>3. f \in ToSet(Append(s, f))
    BY <2>1 DEF ToSet
  <2> QED
    BY <2>2, <2>3, AppendElements
<1>2. ASSUME s # <<>> PROVE ToSet(s) = {Head(s)} \cup ToSet(Tail(s))
  <2>1. /\ Tail(s) \in Seq(Frame) /\ Len(s) \in Nat /\ Len(s) >= 1
        /\ DOMAIN s = 1..Len(s) /\ DOMAIN Tail(s) = 1..Len(s) - 1 /\ Head(s) = s[1]
        /\ \A i \in 1..Len(s) - 1 : Tail(s)[i] = s[i + 1]
    BY <1>2
  <2>2. ASSUME NEW i \in 1..Len(s), i # 1 PROVE s[i] \in ToSet(Tail(s))
    <3>1. i - 1 \in 1..Len(s) - 1 /\ (i - 1) + 1 = i
      BY <2>1, <2>2
    <3>2. Tail(s)[i - 1] = s[i]
      BY <2>1, <3>1
    <3> QED
      BY <2>1, <3>1, <3>2 DEF ToSet
  <2>3. ToSet(s) \subseteq {Head(s)} \cup ToSet(Tail(s))
    BY <2>1, <2>2 DEF ToSet
  <2> QED
    BY <1>2, <2>3, TailElements
<1>3. ASSUME Lone(s) PROVE ToSet(s) \subseteq ToSet(WithoutAnswer(s)) \cup {s[i] : i \in AnswersIn(s)}
  BY <1>3, AnswerRemoved
<1> QED
  BY <1>1, <1>2, <1>3 DEF EventsIn

(* What a replay promises, in the app's own terms of its cursor, is what it carries. *)
LEMMA AnswerCovers ==
    ASSUME TypeOK, NEW a \in 0..MaxEvents, NEW o \in oldest..next,
           Answer(a, o).kind = "replayed"
    PROVE  (a + 1..Answer(a, o).upto \ IF a = 0 THEN 1..o - 1 ELSE {}) \subseteq Events(Answer(a, o))
<1>1. /\ next \in Nat /\ o \in Nat /\ a \in Nat /\ o >= 1 /\ o <= next
  BY BoundsAreNat DEF TypeOK
<1> DEFINE f == Answer(a, o)
<1>2. /\ f.process = process /\ f.upto = next - 1 /\ f.kind = "replayed"
      /\ f.from = IF a = 0 THEN o ELSE IF a >= next - 1 THEN next ELSE a + 1
  BY DEF Answer
<1>3. Events(f) = f.from..f.upto
  BY <1>2 DEF Events
<1> HIDE DEF f
<1> QED
  BY <1>1, <1>2, <1>3 DEF f

(* As long as the process is the same, a frame carries the same events. *)
LEMMA SameEvents ==
    ASSUME process' = process
    PROVE  /\ \A f : Events(f)' = Events(f)
           /\ \A s : EventsIn(s)' = EventsIn(s)
BY DEF Events, EventsIn

(* What is in flight, place by place. *)
LEMMA InFlightIs ==
    InFlight = EventsIn(uplink) \cup EventsIn(downq) \cup EventsIn(chan) \cup EventsIn(queue)
                 \cup EventsIn(batch) \cup Pending("screen") \cup Pending("reconnect")
BY DEF InFlight, Callers

(* A caller that goes on with the same answer has the same events to apply; a caller whose
   call ends, or that has no answer, none. *)
LEMMA PendingKept ==
    ASSUME TypeOK, process' = process, NEW k \in Callers
    PROVE  /\ phase'[k] = phase[k] /\ answer'[k] = answer[k] => Pending(k)' = Pending(k)
           /\ phase[k] # "answered" => Pending(k) = {}
BY SameEvents DEF Pending

(* The calls that are not ended go on. *)
LEMMA EndPending ==
    ASSUME TypeOK, process' = process, NEW K \in SUBSET Callers, End(K)
    PROVE  \A k \in Callers \ K : Pending(k)' = Pending(k)
BY PendingKept DEF End

(* When the app's callers and queues stay as they are, what is known of the events rests on
   the links alone. *)
LEMMA CallersRest ==
    ASSUME TypeOK, process' = process, UNCHANGED <<phase, answer>>
    PROVE  \A k \in Callers : Pending(k)' = Pending(k)
BY PendingKept

(* An event that is in one of its places before a step is in one after it: the places
   may exchange events, as long as together they give none up. *)
LEMMA NothingForgotten ==
    ASSUME applied \subseteq applied',
           lost \subseteq Known',
           EventsIn(uplink) \subseteq Known', EventsIn(downq) \subseteq Known',
           EventsIn(chan) \subseteq Known', EventsIn(queue) \subseteq Known',
           EventsIn(batch) \subseteq Known',
           \A k \in Callers : Pending(k) \subseteq Known'
    PROVE  Known \subseteq Known'
<1>1. InFlight \subseteq Known'
  BY DEF InFlight
<1>2. applied \subseteq Known'
  BY DEF Known
<1> QED
  BY <1>1, <1>2 DEF Known

(* Each place is part of what is known after a step. *)
LEMMA KnownParts ==
    ASSUME process' = process
    PROVE  /\ applied' \subseteq Known' /\ lost' \subseteq Known'
           /\ EventsIn(uplink') \subseteq Known' /\ EventsIn(downq') \subseteq Known'
           /\ EventsIn(chan') \subseteq Known' /\ EventsIn(queue') \subseteq Known'
           /\ EventsIn(batch') \subseteq Known'
           /\ \A k \in Callers : Pending(k)' \subseteq Known'
<1>1. \A s : EventsIn(s)' = EventsIn(s)
  BY SameEvents
<1>2. /\ applied' \subseteq Known' /\ lost' \subseteq Known'
      /\ (EventsIn(uplink) \subseteq Known)' /\ (EventsIn(downq) \subseteq Known)'
      /\ (EventsIn(chan) \subseteq Known)' /\ (EventsIn(queue) \subseteq Known)'
      /\ (EventsIn(batch) \subseteq Known)'
      /\ (\A k \in Callers : Pending(k) \subseteq Known)'
  BY DEF Known, InFlight
<1> QED
  BY <1>1, <1>2

(* What a step loses is known to be lost, unless it was applied. *)
LEMMA Losing ==
    ASSUME NEW S, Lose(S), applied' = applied
    PROVE  S \subseteq Known' /\ lost \subseteq Known'
BY DEF Lose, Known

(* The death of the phone's connection loses what was in it, and forgets nothing. *)
LEMMA DropKnown ==
    ASSUME TypeOK, TraceInv, Drop, process' = process, applied' = applied
    PROVE  /\ lost \subseteq Known'
           /\ EventsIn(uplink) \subseteq Known' /\ EventsIn(downq) \subseteq Known'
<1> DEFINE S == EventsIn(downq) \cup UNION {Events(uplink[i]) : i \in AnswersIn(uplink)}
<1>1. Lose(S) /\ uplink' = WithoutAnswer(uplink) /\ uplink \in Seq(Frame) /\ Lone(uplink)
  BY DEF Drop, TypeOK, TraceInv
<1>2. S \subseteq Known' /\ lost \subseteq Known'
  BY <1>1, Losing
<1>3. EventsIn(uplink) \subseteq EventsIn(WithoutAnswer(uplink))
                                  \cup UNION {Events(uplink[i]) : i \in AnswersIn(uplink)}
  BY <1>1, EventsQueued
<1>4. EventsIn(WithoutAnswer(uplink)) \subseteq Known'
  BY <1>1, KnownParts
<1> QED
  BY <1>2, <1>3, <1>4

(* choosh-hostd answers with all it takes off the list of lost events; a push carries the
   event that was just recorded. *)
LEMMA HostdKnown ==
    ASSUME TypeOK, TraceInv, Hostd, process' = process
    PROVE  Known \subseteq Known' /\ (Record => next \in Known')
<1> USE DEF calls, spool, inbound, history, links
<1>1. \A k \in Callers : Pending(k)' = Pending(k)
  BY CallersRest DEF Hostd, Record, AnswerResume, HostConnect, HostDisconnect, HostRestart
<1>2. ~HostRestart
  BY DEF HostRestart, TypeOK, Processes
<1>3. /\ applied' = applied /\ downq' = downq /\ chan' = chan /\ queue' = queue /\ batch' = batch
  BY <1>2 DEF Hostd, Record, AnswerResume, HostConnect, HostDisconnect
<1>4. CASE Record
  <2> DEFINE f == [kind |-> "push", process |-> process, from |-> next, upto |-> next]
  <2>1. f \in Frame
    BY <1>4 DEF Record, TypeOK, Frame
  <2>2. next \in Events(f)
    BY DEF Events, TypeOK
  <2>3. uplink' = Append(uplink, f) /\ uplink \in Seq(Frame) /\ lost' = lost
    BY <1>4 DEF Record, TypeOK
  <2> HIDE DEF f
  <2>4. EventsIn(uplink') = EventsIn(uplink) \cup Events(f)
    BY <2>1, <2>3, EventsQueued
  <2> QED
    BY <1>1, <1>3, <2>2, <2>3, <2>4, KnownParts, NothingForgotten
<1>5. CASE AnswerResume
  <2> DEFINE a == Head(request)
  <2>1. a \in 0..MaxEvents
    BY <1>5 DEF AnswerResume, TypeOK
  <2>2. PICK o \in oldest..next :
          /\ uplink' = Append(uplink, Answer(a, o))
          /\ \/ lost' = lost
             \/ /\ Answer(a, o).kind # "snapshot"
                /\ lost' = lost \ (Events(Answer(a, o)) \cup (a + 1..Answer(a, o).upto
                                    \ IF a = 0 THEN 1..o - 1 ELSE {}))
    BY <1>5 DEF AnswerResume
  <2> HIDE DEF a
  <2> DEFINE f == Answer(a, o)
  <2>3. f \in Frame /\ f.kind \in {"replayed", "snapshot"}
    BY <2>1, AnswerType
  <2>4. lost \subseteq lost' \cup Events(f)
    BY <2>1, <2>2, <2>3, AnswerCovers
  <2>5. uplink' = Append(uplink, f) /\ uplink \in Seq(Frame)
    BY <2>2 DEF TypeOK
  <2> HIDE DEF f
  <2>6. EventsIn(uplink') = EventsIn(uplink) \cup Events(f)
    BY <2>3, <2>5, EventsQueued
  <2>7. ~Record
    BY <2>5, <1>5 DEF AnswerResume, Record, TypeOK
  <2> QED
    BY <1>1, <1>3, <2>4, <2>6, <2>7, KnownParts, NothingForgotten
<1>6. CASE HostConnect
  <2>1. uplink' = uplink /\ lost' = lost /\ ~Record
    BY <1>6 DEF HostConnect, Record
  <2> QED
    BY <1>1, <1>3, <2>1, KnownParts, NothingForgotten
<1>7. CASE HostDisconnect
  <2>1. Lose(EventsIn(uplink)) /\ ~Record
    BY <1>7 DEF HostDisconnect, Record
  <2> QED
    BY <1>1, <1>3, <2>1, Losing, KnownParts, NothingForgotten
<1> QED
  BY <1>4, <1>5, <1>6, <1>7, <1>2 DEF Hostd

(* The relay passes a frame on, or loses it. *)
LEMMA RelayKnown == ASSUME TypeOK, TraceInv, Relay PROVE Known \subseteq Known'
<1> USE DEF calls, spool, inbound, history, links
<1>0. process' = process /\ \A k \in Callers : Pending(k)' = Pending(k)
  <2>1. process' = process /\ phase' = phase /\ answer' = answer
    BY DEF Relay, RoutePush, RouteAnswer, TellClosed
  <2> QED
    BY <2>1, CallersRest
<1>1. /\ applied' = applied /\ chan' = chan /\ queue' = queue /\ batch' = batch
  BY DEF Relay, RoutePush, RouteAnswer, TellClosed
<1>2. CASE RoutePush \/ RouteAnswer
  <2> DEFINE f == Head(uplink)
  <2>1. /\ uplink \in Seq(Frame) /\ uplink # <<>> /\ uplink' = Tail(uplink)
        /\ downq \in Seq(Frame) /\ f \in Frame
    BY <1>2, QueueType DEF RoutePush, RouteAnswer, TypeOK
  <2>2. \/ downq' = Append(downq, f) /\ lost' = lost
        \/ downq' = downq /\ Lose(Events(f))
    BY <1>2 DEF RoutePush, RouteAnswer
  <2> HIDE DEF f
  <2>3. EventsIn(uplink) = Events(f) \cup EventsIn(uplink')
    BY <2>1, EventsQueued DEF f
  <2>4. CASE downq' = Append(downq, f) /\ lost' = lost
    <3>1. EventsIn(downq') = EventsIn(downq) \cup Events(f)
      BY <2>1, <2>4, EventsQueued
    <3> QED
      BY <1>0, <1>1, <2>3, <2>4, <3>1, KnownParts, NothingForgotten
  <2>5. CASE downq' = downq /\ Lose(Events(f))
    BY <1>0, <1>1, <2>3, <2>5, Losing, KnownParts, NothingForgotten
  <2> QED
    BY <2>2, <2>4, <2>5
<1>3. CASE TellClosed
  <2>1. /\ uplink' = uplink /\ lost' = lost /\ downq \in Seq(Frame)
        /\ downq' \in {downq, Append(downq, CloseFrame)}
    BY <1>3 DEF TellClosed, TypeOK
  <2>2. EventsIn(downq) \subseteq EventsIn(downq')
    <3>1. EventsIn(Append(downq, CloseFrame)) = EventsIn(downq) \cup Events(CloseFrame)
      BY <2>1, CloseFrameType, EventsQueued
    <3> QED
      BY <2>1, <3>1
  <2> QED
    BY <1>0, <1>1, <2>1, <2>2, KnownParts, NothingForgotten
<1> QED
  BY <1>2, <1>3 DEF Relay

(* The phone's transport and engine queue what they read, hand it to the caller that waits,
   or lose it. *)
LEMMA EngineKnown ==
    ASSUME TypeOK, TraceInv, PhoneConnect \/ PhoneDisconnect \/ Engine
    PROVE  Known \subseteq Known'
<1> USE DEF calls, spool, inbound, history, links
<1>0. process' = process /\ applied' = applied /\ batch' = batch
  BY DEF PhoneConnect, PhoneDisconnect, Engine, ReadPush, ReadClose, ReadAnswer, Pump
<1>1. CASE PhoneConnect
  <2>1. \A k \in Callers : Pending(k) \subseteq Pending(k)'
    BY <1>0, <1>1, PendingKept DEF PhoneConnect, TypeOK
  <2>2. uplink' = uplink /\ downq' = downq /\ chan' = chan /\ queue' = queue /\ lost' = lost
    BY <1>1 DEF PhoneConnect
  <2> QED
    BY <1>0, <2>1, <2>2, KnownParts, NothingForgotten
<1>2. CASE PhoneDisconnect \/ ReadClose
  <2>1. Drop /\ End(Holders) /\ Holders \in SUBSET Callers /\ chan' = chan /\ queue' = queue
    BY <1>2 DEF PhoneDisconnect, ReadClose, Holders
  <2>2. \A k \in Callers : Pending(k) \subseteq Pending(k)'
    BY <1>0, <2>1, EndPending, PendingKept DEF Holders, Holds
  <2> QED
    BY <1>0, <2>1, <2>2, DropKnown, KnownParts, NothingForgotten
<1>3. CASE ReadPush
  <2> DEFINE f == Head(downq)
  <2>1. /\ downq \in Seq(Frame) /\ downq # <<>> /\ downq' = Tail(downq)
        /\ chan \in Seq(Frame) /\ f \in Frame
    BY <1>3, QueueType DEF ReadPush, TypeOK
  <2>2. \/ chan' = Append(chan, f) /\ lost' = lost
        \/ chan' = chan /\ Lose(Events(f))
    BY <1>3 DEF ReadPush
  <2> HIDE DEF f
  <2>3. EventsIn(downq) = Events(f) \cup EventsIn(downq')
    BY <2>1, EventsQueued DEF f
  <2>4. /\ uplink' = uplink /\ queue' = queue
        /\ \A k \in Callers : Pending(k)' = Pending(k)
    BY <1>0, <1>3, CallersRest DEF ReadPush
  <2>5. CASE chan' = Append(chan, f) /\ lost' = lost
    <3>1. EventsIn(chan') = EventsIn(chan) \cup Events(f)
      BY <2>1, <2>5, EventsQueued
    <3> QED
      BY <1>0, <2>3, <2>4, <2>5, <3>1, KnownParts, NothingForgotten
  <2>6. CASE chan' = chan /\ Lose(Events(f))
    BY <1>0, <2>3, <2>4, <2>6, Losing, KnownParts, NothingForgotten
  <2> QED
    BY <2>2, <2>5, <2>6
<1>4. ASSUME NEW c \in Callers, ReadAnswer(c) PROVE Known \subseteq Known'
  <2> DEFINE f == Head(downq)
  <2>1. /\ downq \in Seq(Frame) /\ downq # <<>> /\ downq' = Tail(downq)
        /\ uplink' = uplink /\ chan' = chan /\ queue' = queue /\ lost' = lost
    BY <1>4 DEF ReadAnswer, TypeOK
  <2>2. /\ phase[c] = "asked" /\ phase'[c] = "answered" /\ answer'[c] = f
        /\ \A k \in Callers \ {c} : phase'[k] = phase[k] /\ answer'[k] = answer[k]
    BY <1>4 DEF ReadAnswer, Holds, TypeOK
  <2>3. \A k \in Callers : Pending(k) \subseteq Pending(k)'
    BY <1>0, <2>2, PendingKept
  <2>4. Events(f) = Pending(c)'
    BY <1>0, <2>2, SameEvents DEF Pending
  <2> HIDE DEF f
  <2>5. EventsIn(downq) = Events(f) \cup EventsIn(downq')
    BY <2>1, EventsQueued DEF f
  <2> QED
    BY <1>0, <2>1, <2>3, <2>4, <2>5, KnownParts, NothingForgotten
<1>5. CASE Pump
  <2> DEFINE f == Head(chan)
  <2>1. /\ chan \in Seq(Frame) /\ chan # <<>> /\ chan' = Tail(chan)
        /\ queue \in Seq(Frame) /\ f \in Frame
    BY <1>5, QueueType DEF Pump, TypeOK
  <2>2. \/ queue' = Append(queue, f) /\ lost' = lost
        \/ queue # <<>> /\ queue' = Append(Tail(queue), f) /\ Lose(Events(Head(queue)))
    BY <1>5, CapacitiesArePositive DEF Pump, TypeOK
  <2> HIDE DEF f
  <2>3. EventsIn(chan) = Events(f) \cup EventsIn(chan')
    BY <2>1, EventsQueued DEF f
  <2>4. /\ uplink' = uplink /\ downq' = downq
        /\ \A k \in Callers : Pending(k)' = Pending(k)
    BY <1>0, <1>5, CallersRest DEF Pump
  <2>5. CASE queue' = Append(queue, f) /\ lost' = lost
    <3>1. EventsIn(queue') = EventsIn(queue) \cup Events(f)
      BY <2>1, <2>5, EventsQueued
    <3> QED
      BY <1>0, <2>3, <2>4, <2>5, <3>1, KnownParts, NothingForgotten
  <2>6. CASE queue # <<>> /\ queue' = Append(Tail(queue), f) /\ Lose(Events(Head(queue)))
    <3>1. EventsIn(queue) = Events(Head(queue)) \cup EventsIn(Tail(queue)) /\ Tail(queue) \in Seq(Frame)
      BY <2>1, <2>6, EventsQueued, QueueType
    <3>2. EventsIn(queue') = EventsIn(Tail(queue)) \cup Events(f)
      BY <2>1, <2>6, <3>1, EventsQueued
    <3> QED
      BY <1>0, <2>3, <2>4, <2>6, <3>1, <3>2, Losing, KnownParts, NothingForgotten
  <2> QED
    BY <2>2, <2>5, <2>6
<1> QED
  BY <1>1, <1>2, <1>3, <1>4, <1>5 DEF Engine

(* What a caller's answer carries is applied, thrown away or known already when its call
   ends. *)
LEMMA OneEnds ==
    ASSUME TypeOK, process' = process, NEW c \in Callers, End({c}),
           UNCHANGED <<links, inbound>>, applied \subseteq applied',
           lost \subseteq Known', Pending(c) \subseteq Known'
    PROVE  Known \subseteq Known'
<1>1. \A k \in Callers : Pending(k) \subseteq Known'
  <2>1. \A k \in Callers \ {c} : Pending(k)' = Pending(k)
    BY EndPending
  <2> QED
    BY <2>1, KnownParts
<1>2. /\ uplink' = uplink /\ downq' = downq /\ chan' = chan /\ queue' = queue /\ batch' = batch
  BY DEF links, inbound
<1> QED
  BY <1>1, <1>2, KnownParts, NothingForgotten

(* The app applies what it takes off its queues and off its answers. *)
LEMMA AppKnown == ASSUME TypeOK, TraceInv, App PROVE Known \subseteq Known'
<1>0. process' = process /\ applied \subseteq applied'
  BY DEF App, Subscribe, Unsubscribe, Resubscribe, PollDrain, PollApply, DiscardAnswer, Resume, AskInVain,
         AskOffline, Ask, ApplyReplay, ApplySnapshot, Snapshot, Apply, spool, history
<1>1. ASSUME UNCHANGED <<links, inbound, applied, lost>>,
             \A k \in Callers : Pending(k) \subseteq Pending(k)'
      PROVE  Known \subseteq Known'
  <2>1. /\ uplink' = uplink /\ downq' = downq /\ chan' = chan /\ queue' = queue /\ batch' = batch
        /\ lost' = lost
    BY <1>1 DEF links, inbound
  <2> QED
    BY <1>0, <1>1, <2>1, KnownParts, NothingForgotten
<1>2. CASE Subscribe \/ Unsubscribe \/ Resubscribe
  <2>1. \A k \in Callers : Pending(k) \subseteq Pending(k)'
    <3>1. CASE Subscribe
      <4>1. \A k \in Callers : k # "screen" => phase'[k] = phase[k] /\ answer'[k] = answer[k]
        BY <3>1 DEF Subscribe, Begin, TypeOK
      <4>2. phase["screen"] # "answered"
        BY <3>1 DEF Subscribe
      <4> QED
        BY <1>0, <4>1, <4>2, PendingKept
    <3>2. CASE Unsubscribe
      BY <1>0, <3>2, CallersRest DEF Unsubscribe
    <3>3. CASE Resubscribe
      <4>1. \A k \in Callers : k # "reconnect" => phase'[k] = phase[k] /\ answer'[k] = answer[k]
        BY <3>3 DEF Resubscribe, Begin, End, TypeOK
      <4>2. phase["reconnect"] # "answered"
        BY <3>3 DEF Resubscribe
      <4> QED
        BY <1>0, <4>1, <4>2, PendingKept
    <3> QED
      BY <1>2, <3>1, <3>2, <3>3
  <2>2. UNCHANGED <<links, inbound, applied, lost>>
    BY <1>2 DEF Subscribe, Unsubscribe, Resubscribe, history
  <2> QED
    BY <1>1, <2>1, <2>2
<1>3. CASE PollDrain
  <2>1. /\ uplink' = uplink /\ downq' = downq /\ chan' = chan /\ batch' = queue /\ batch = <<>>
        /\ lost' = lost
    BY <1>3 DEF PollDrain, links, history
  <2>2. EventsIn(batch) = {}
    BY <2>1 DEF EventsIn, ToSet
  <2>3. \A k \in Callers : Pending(k)' = Pending(k)
    BY <1>0, <1>3, CallersRest DEF PollDrain, calls
  <2> QED
    BY <1>0, <2>1, <2>2, <2>3, KnownParts, NothingForgotten
<1>4. CASE PollApply
  <2>1. /\ uplink' = uplink /\ downq' = downq /\ chan' = chan /\ queue' = queue
        /\ lost' = lost \ EventsIn(batch) /\ EventsIn(batch) \subseteq applied'
    BY <1>4 DEF PollApply, links, Apply
  <2>2. \A k \in Callers : Pending(k)' = Pending(k)
    BY <1>0, <1>4, CallersRest DEF PollApply, calls
  <2> QED
    BY <1>0, <2>1, <2>2, KnownParts, NothingForgotten
<1>5. CASE DiscardAnswer
  <2>1. /\ Lose(Events(answer["screen"])) /\ End({"screen"}) /\ applied' = applied
        /\ UNCHANGED <<links, inbound>>
    BY <1>5 DEF DiscardAnswer, links
  <2>2. Events(answer["screen"]) \subseteq Known' /\ lost \subseteq Known'
    BY <2>1, Losing
  <2>3. Pending("screen") \subseteq Events(answer["screen"]) /\ "screen" \in Callers
    BY DEF Pending, Callers
  <2> QED
    BY <1>0, <2>1, <2>2, <2>3, OneEnds
<1>6. ASSUME NEW c \in Callers, Resume(c) PROVE Known \subseteq Known'
  <2>1. CASE AskInVain(c)
    <3>1. /\ End({c}) /\ UNCHANGED <<links, inbound>> /\ lost' = lost /\ phase[c] # "answered"
      BY <2>1 DEF AskInVain, history
    <3> QED
      BY <1>0, <3>1, PendingKept, KnownParts, OneEnds
  <2>2. CASE AskOffline(c)
    <3>1. /\ Drop /\ End({c}) /\ phase[c] # "answered" /\ applied' = applied
          /\ chan' = chan /\ queue' = queue /\ batch' = batch
      BY <2>2 DEF AskOffline, inbound
    <3>2. \A k \in Callers : Pending(k) \subseteq Known'
      <4>1. \A k \in Callers \ {c} : Pending(k)' = Pending(k)
        BY <1>0, <3>1, EndPending
      <4> QED
        BY <1>0, <3>1, <4>1, PendingKept, KnownParts
    <3> QED
      BY <1>0, <3>1, <3>2, DropKnown, KnownParts, NothingForgotten
  <2>3. CASE Ask(c)
    <3>1. /\ phase[c] # "answered" /\ answer' = answer
          /\ \A k \in Callers : k # c => phase'[k] = phase[k]
      BY <2>3 DEF Ask, TypeOK
    <3>2. \A k \in Callers : Pending(k) \subseteq Pending(k)'
      BY <1>0, <3>1, PendingKept
    <3>3. /\ uplink' = uplink /\ downq' = downq /\ chan' = chan /\ queue' = queue /\ batch' = batch
          /\ lost' = lost
      BY <2>3 DEF Ask, inbound, history
    <3> QED
      BY <1>0, <3>2, <3>3, KnownParts, NothingForgotten
  <2>4. CASE ApplyReplay(c)
    <3>1. /\ End({c}) /\ UNCHANGED <<links, inbound>>
          /\ Events(answer[c]) \subseteq applied' /\ lost' = lost \ Events(answer[c])
      BY <2>4 DEF ApplyReplay, Apply
    <3>2. Pending(c) \subseteq Events(answer[c])
      BY DEF Pending
    <3> QED
      BY <1>0, <3>1, <3>2, KnownParts, OneEnds
  <2>5. CASE ApplySnapshot(c)
    <3>1. /\ End({c}) /\ UNCHANGED <<links, inbound>> /\ answer[c].kind = "snapshot"
          /\ lost \subseteq lost' \cup applied'
      BY <2>5 DEF ApplySnapshot, Snapshot, Apply
    <3>2. Pending(c) = {}
      BY <3>1 DEF Pending, Events
    <3> QED
      BY <1>0, <3>1, <3>2, KnownParts, OneEnds
  <2> QED
    BY <1>6, <2>1, <2>2, <2>3, <2>4, <2>5 DEF Resume
<1> QED
  BY <1>2, <1>3, <1>4, <1>5, <1>6 DEF App

(* From the moment the running process has recorded an event, the phone has applied it, or
   it is on its way to the phone in a push or in the answer to a resume, or a queue that
   overflowed or a connection that died has lost it and no answer has promised it since:
   between replay and live push no event falls through. *)
THEOREM NoHole == Spec => []HandoffHasNoHole
<1> DEFINE Inv == 1..next - 1 \subseteq Known
<1>1. Init => Inv
  BY DEF Init
<1>2. TypeOK /\ TraceInv /\ Inv /\ [Next]_vars => Inv'
  <2> SUFFICES ASSUME TypeOK, TraceInv, Inv, [Next]_vars PROVE Inv'
    OBVIOUS
  <2>1. next \in Nat
    BY DEF TypeOK
  <2>2. CASE UNCHANGED vars
    <3>1. Known' = Known /\ next' = next
      BY <2>2 DEF vars, spool, links, inbound, calls, history, Known, InFlight, Pending, EventsIn, Events
    <3> QED
      BY <3>1
  <2>3. CASE Hostd /\ process' # process
    <3>1. next' = 1
      BY <2>3 DEF Hostd, Record, AnswerResume, HostConnect, HostDisconnect, HostRestart, spool
    <3> QED
      BY <3>1
  <2>4. CASE Hostd /\ process' = process
    <3>1. Known \subseteq Known' /\ (Record => next \in Known')
      BY <2>4, HostdKnown
    <3>2. CASE Record
      <4>1. next' = next + 1
        BY <3>2 DEF Record
      <4> QED
        BY <2>1, <3>1, <3>2, <4>1
    <3>3. CASE next' = next
      BY <3>1, <3>3
    <3>4. Record \/ next' = next
      BY <2>4 DEF Hostd, AnswerResume, HostConnect, HostDisconnect, HostRestart, spool, TypeOK, Processes
    <3> QED
      BY <3>2, <3>3, <3>4
  <2>5. CASE Relay \/ PhoneConnect \/ PhoneDisconnect \/ Engine \/ App
    <3>1. Known \subseteq Known'
      BY <2>5, RelayKnown, EngineKnown, AppKnown
    <3>2. next' = next
      <4>1. CASE Relay \/ PhoneConnect \/ PhoneDisconnect \/ Engine
        BY <4>1 DEF Relay, RoutePush, RouteAnswer, TellClosed, PhoneConnect, PhoneDisconnect, Engine,
                    ReadPush, ReadClose, Pump, ReadAnswer, spool
      <4>2. CASE App
        BY <4>2 DEF App, Subscribe, Unsubscribe, Resubscribe, PollDrain, PollApply, DiscardAnswer,
                    Resume, AskInVain, AskOffline, Ask, ApplyReplay, ApplySnapshot, spool
      <4> QED
        BY <2>5, <4>1, <4>2
    <3> QED
      BY <3>1, <3>2
  <2> QED
    BY <2>2, <2>3, <2>4, <2>5 DEF Next
<1>3. Inv => HandoffHasNoHole
  BY DEF HandoffHasNoHole, Known
<1> QED
  BY <1>1, <1>2, <1>3, TypeCorrect, TracesKept, PTL DEF Spec
=============================================================================
