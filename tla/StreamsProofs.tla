----------------------------- MODULE StreamsProofs -----------------------------
(* Proofs about the programs that carry a tunnel's bytes to its user, a section *)
(* for each: the ssh bridge, the clients of the relay on a laptop, with the     *)
(* files ssh reads there, the phone's tunnels, and the frames on the wire.      *)
EXTENDS SshBridge, LaptopProxy, PhoneTunnels, Framing, FiniteSetTheorems, FunctionTheorems,
        SequenceTheorems, WellFoundedInduction, TLAPS

-------------------------------------------------------------------------------
(* Streams on their way.  The view a stream has of a queue is a sequence of       *)
(* numbers: the chunk at that place, or 0 for what is not of the stream.          *)

\* What is in view are, in order, the chunks d + 1 to p.
Chain(v, d, p) ==
    /\ v \in Seq(Nat) /\ d \in Nat /\ p \in Nat /\ d <= p
    /\ \A i \in 1 .. Len(v) : v[i] # 0 => d < v[i] /\ v[i] <= p
    /\ \A i, j \in 1 .. Len(v) : v[i] # 0 /\ v[j] # 0 /\ i < j => v[i] < v[j]
    /\ \A n \in Nat : d < n /\ n <= p => \E i \in 1 .. Len(v) : v[i] = n

\* One step of one stream, from n chunks sent, r received and end e.
OneStep(n, n2, r, r2, e, e2) ==
    \/ n2 = n + 1 /\ r2 = r /\ e2 = e
    \/ e = "open" /\ Len(r) < n /\ r2 = Append(r, Len(r) + 1) /\ n2 = n /\ e2 = e
    \/ e = "open" /\ Len(r) = n /\ e2 = "finished" /\ n2 = n /\ r2 = r
    \/ e = "open" /\ e2 = "cut" /\ n2 = n /\ r2 = r
    \/ n2 = n /\ r2 = r /\ e2 = e

(* Something else is queued, or the next chunk.                                   *)
LEMMA ChainGrows ==
    ASSUME NEW v, NEW d, NEW p, Chain(v, d, p)
    PROVE  Chain(Append(v, 0), d, p) /\ Chain(Append(v, p + 1), d, p + 1)
<1>1. v \in Seq(Nat) /\ d \in Nat /\ p \in Nat
  BY DEF Chain
<1>2. ASSUME NEW x \in Nat
      PROVE  /\ Append(v, x) \in Seq(Nat) /\ Len(Append(v, x)) = Len(v) + 1 /\ Len(v) \in Nat
             /\ \A i \in 1 .. Len(v) : Append(v, x)[i] = v[i] /\ v[i] \in Nat
             /\ Append(v, x)[Len(v) + 1] = x
             /\ \A i \in 1 .. Len(v) + 1 : i \in 1 .. Len(v) \/ i = Len(v) + 1
  BY <1>1
<1>3. Chain(Append(v, 0), d, p)
  BY <1>1, <1>2 DEF Chain
<1>4. Chain(Append(v, p + 1), d, p + 1)
  <2> DEFINE u == Append(v, p + 1)
  <2>1. \A i \in 1 .. Len(u) : u[i] # 0 => d < u[i] /\ u[i] <= p + 1
    BY <1>1, <1>2 DEF Chain
  <2>2. ASSUME NEW i \in 1 .. Len(u), NEW j \in 1 .. Len(u), u[i] # 0, u[j] # 0, i < j
        PROVE  u[i] < u[j]
    <3>1. i \in 1 .. Len(v) /\ u[i] = v[i] /\ v[i] \in Nat
      BY <1>1, <1>2, <2>2
    <3>2. CASE j \in 1 .. Len(v)
      BY <1>1, <1>2, <2>2, <3>1, <3>2 DEF Chain
    <3>3. CASE j = Len(v) + 1
      BY <1>1, <1>2, <2>2, <3>1, <3>3 DEF Chain
    <3> QED
      BY <1>1, <1>2, <3>2, <3>3
  <2>3. ASSUME NEW n \in Nat, d < n, n <= p + 1 PROVE \E i \in 1 .. Len(u) : u[i] = n
    <3>1. CASE n = p + 1
      BY <1>1, <1>2, <3>1
    <3>2. CASE n <= p
      BY <1>1, <1>2, <2>3, <3>2 DEF Chain
    <3> QED
      BY <1>1, <2>3, <3>1, <3>2
  <2>4. u \in Seq(Nat) /\ p + 1 \in Nat /\ d <= p + 1
    BY <1>1, <1>2 DEF Chain
  <2> HIDE DEF u
  <2>5. Chain(u, d, p + 1)
    BY <1>1, <2>1, <2>2, <2>3, <2>4 DEF Chain
  <2> QED
    BY <2>5 DEF u
<1> QED
  BY <1>3, <1>4

(* A head that is not of the stream, or its next chunk, is taken from it.         *)
LEMMA ChainShrinks ==
    ASSUME NEW v, NEW d, NEW p, Chain(v, d, p), v # <<>>
    PROVE  /\ Head(v) = 0 => Chain(Tail(v), d, p)
           /\ Head(v) # 0 => Head(v) = d + 1 /\ d < p /\ Chain(Tail(v), d + 1, p)
<1>1. v \in Seq(Nat) /\ d \in Nat /\ p \in Nat
  BY DEF Chain
<1>2. /\ Tail(v) \in Seq(Nat) /\ Len(Tail(v)) = Len(v) - 1 /\ Len(v) \in Nat \ {0}
      /\ \A i \in 1 .. Len(Tail(v)) : Tail(v)[i] = v[i + 1] /\ i + 1 \in 1 .. Len(v)
      /\ Head(v) = v[1] /\ 1 \in 1 .. Len(v)
      /\ \A i \in 1 .. Len(v) : v[i] \in Nat
      /\ \A i \in 1 .. Len(v) : i # 1 => i - 1 \in 1 .. Len(Tail(v)) /\ v[i] = Tail(v)[i - 1]
  BY <1>1
<1>3. ASSUME NEW i \in 1 .. Len(Tail(v)), NEW j \in 1 .. Len(Tail(v)),
             Tail(v)[i] # 0, Tail(v)[j] # 0, i < j
      PROVE  Tail(v)[i] < Tail(v)[j]
  <2>1. /\ i + 1 \in 1 .. Len(v) /\ j + 1 \in 1 .. Len(v) /\ i + 1 < j + 1
        /\ Tail(v)[i] = v[i + 1] /\ Tail(v)[j] = v[j + 1]
    BY <1>2, <1>3
  <2> QED
    BY <1>3, <2>1 DEF Chain
<1>4. CASE Head(v) = 0
  <2>1. \A n \in Nat : d < n /\ n <= p => \E i \in 1 .. Len(Tail(v)) : Tail(v)[i] = n
    <3> SUFFICES ASSUME NEW n \in Nat, d < n, n <= p PROVE \E i \in 1 .. Len(Tail(v)) : Tail(v)[i] = n
      OBVIOUS
    <3>1. PICK i \in 1 .. Len(v) : v[i] = n
      BY DEF Chain
    <3>2. i # 1
      BY <1>1, <1>2, <1>4, <3>1
    <3> QED
      BY <1>2, <3>1, <3>2
  <2>2. \A i \in 1 .. Len(Tail(v)) : Tail(v)[i] # 0 => d < Tail(v)[i] /\ Tail(v)[i] <= p
    BY <1>2 DEF Chain
  <2>3. d <= p
    BY DEF Chain
  <2> QED
    BY <1>1, <1>2, <1>3, <1>4, <2>1, <2>2, <2>3 DEF Chain
<1>5. CASE Head(v) # 0
  <2>1. d < v[1] /\ v[1] <= p /\ v[1] \in Nat
    BY <1>2, <1>5 DEF Chain
  <2>7. d + 1 \in Nat /\ d < d + 1 /\ d + 1 <= p
    BY <1>1, <2>1
  <2>2. PICK k \in 1 .. Len(v) : v[k] = d + 1
    BY <2>7 DEF Chain
  <2>3. v[1] = d + 1
    <3>1. CASE k = 1
      BY <2>2, <3>1
    <3>2. CASE k # 1
      <4>1. 1 < k /\ v[k] # 0
        BY <1>1, <1>2, <2>2, <3>2
      <4>2. v[1] < v[k]
        BY <1>2, <1>5, <4>1 DEF Chain
      <4> QED
        BY <1>1, <2>1, <2>2, <4>2
    <3> QED
      BY <3>1, <3>2
  <2>4. ASSUME NEW n \in Nat, d + 1 < n, n <= p PROVE \E i \in 1 .. Len(Tail(v)) : Tail(v)[i] = n
    <3>1. PICK i \in 1 .. Len(v) : v[i] = n
      BY <1>1, <2>4 DEF Chain
    <3>2. i # 1
      BY <1>1, <2>3, <2>4, <3>1
    <3> QED
      BY <1>2, <3>1, <3>2
  <2>5. ASSUME NEW i \in 1 .. Len(Tail(v)), Tail(v)[i] # 0 PROVE d + 1 < Tail(v)[i] /\ Tail(v)[i] <= p
    <3>1. i + 1 \in 1 .. Len(v) /\ Tail(v)[i] = v[i + 1] /\ 1 < i + 1
      BY <1>2
    <3>2. v[1] < v[i + 1] /\ v[i + 1] <= p
      BY <1>2, <1>5, <2>5, <3>1 DEF Chain
    <3> QED
      BY <2>3, <3>1, <3>2
  <2>6. d < p /\ d + 1 <= p /\ Head(v) = d + 1
    BY <1>1, <1>2, <2>1, <2>3
  <2> QED
    BY <1>1, <1>2, <1>3, <1>5, <2>4, <2>5, <2>6 DEF Chain
<1> QED
  BY <1>4, <1>5

(* Where none of the stream is in view, all of it has been received.              *)
LEMMA ChainDone ==
    ASSUME NEW v, NEW d, NEW p, Chain(v, d, p), \A i \in 1 .. Len(v) : v[i] = 0
    PROVE  d = p
<1>1. d \in Nat /\ p \in Nat /\ d <= p
  BY DEF Chain
<1>2. ASSUME d < p PROVE FALSE
  <2>1. \E i \in 1 .. Len(v) : v[i] = p
    BY <1>1, <1>2 DEF Chain
  <2> QED
    BY <1>1, <1>2, <2>1
<1> QED
  BY <1>1, <1>2

(* Nothing is queued of a stream of which nothing was sent.                       *)
LEMMA ChainEmpty == \A d \in Nat : Chain(<<>>, d, d)
BY DEF Chain

LEMMA FunctionIsSeq ==
    ASSUME NEW S, NEW n \in Nat, NEW f \in [1 .. n -> S]
    PROVE  f \in Seq(S) /\ Len(f) = n
<1>1. f \in Seq(S)
  BY SeqDef, Zenon
<1>2. DOMAIN f = 1 .. Len(f) /\ Len(f) \in Nat /\ DOMAIN f = 1 .. n
  BY <1>1, LenProperties
<1> QED
  BY <1>1, <1>2

\* What f sees of a queue.
View(q, f) == [i \in 1 .. Len(q) |-> f[q[i]]]

(* An element that is queued, or taken from the queue, is so in any view of it.   *)
LEMMA ViewGrows ==
    ASSUME NEW S, NEW f \in [S -> Nat], NEW q \in Seq(S), NEW m \in S
    PROVE  /\ View(q, f) \in Seq(Nat) /\ Len(View(q, f)) = Len(q)
           /\ View(Append(q, m), f) = Append(View(q, f), f[m])
<1>1. /\ Append(q, m) \in Seq(S) /\ Len(Append(q, m)) = Len(q) + 1 /\ Len(q) \in Nat
      /\ \A i \in 1 .. Len(q) : Append(q, m)[i] = q[i] /\ q[i] \in S
      /\ Append(q, m)[Len(q) + 1] = m
  OBVIOUS
<1>2. f[m] \in Nat /\ \A x \in S : f[x] \in Nat
  OBVIOUS
<1>3. View(q, f) \in Seq(Nat) /\ Len(View(q, f)) = Len(q)
  <2>1. View(q, f) \in [1 .. Len(q) -> Nat]
    BY <1>1, <1>2 DEF View
  <2> QED
    BY <1>1, <2>1, FunctionIsSeq
<1>4. View(Append(q, m), f) = Append(View(q, f), f[m])
  <2> DEFINE u == Append(View(q, f), f[m])
             w == View(Append(q, m), f)
  <2>1. /\ u \in Seq(Nat) /\ Len(u) = Len(q) + 1
        /\ \A i \in 1 .. Len(q) : u[i] = View(q, f)[i]
        /\ u[Len(q) + 1] = f[m]
    BY <1>2, <1>3
  <2>2. \A i \in 1 .. Len(q) + 1 : i \in 1 .. Len(q) \/ i = Len(q) + 1
    BY <1>1
  <2>3. w \in [1 .. Len(q) + 1 -> Nat]
    BY <1>1, <1>2, <2>2 DEF View
  <2>4. w \in Seq(Nat) /\ Len(w) = Len(q) + 1
    <3>1. Len(q) + 1 \in Nat
      BY <1>1
    <3> HIDE DEF u, w
    <3> QED
      BY <2>3, <3>1, FunctionIsSeq
  <2>5. \A i \in 1 .. Len(q) : w[i] = View(q, f)[i]
    BY <1>1 DEF View
  <2>6. w[Len(q) + 1] = f[m]
    BY <1>1 DEF View
  <2> HIDE DEF u, w
  <2>7. \A i \in 1 .. Len(u) : u[i] = w[i]
    BY <2>1, <2>2, <2>5, <2>6
  <2>8. u = w
    BY <2>1, <2>4, <2>7, SeqEqual
  <2> QED
    BY <2>8 DEF u, w
<1> QED
  BY <1>3, <1>4

LEMMA ViewShrinks ==
    ASSUME NEW S, NEW f \in [S -> Nat], NEW q \in Seq(S), q # <<>>
    PROVE  /\ Tail(q) \in Seq(S) /\ Head(q) \in S
           /\ View(q, f) # <<>> /\ View(Tail(q), f) = Tail(View(q, f)) /\ Head(View(q, f)) = f[Head(q)]
<1>1. /\ Tail(q) \in Seq(S) /\ Len(Tail(q)) = Len(q) - 1 /\ Len(q) \in Nat \ {0}
      /\ \A i \in 1 .. Len(q) : q[i] \in S
      /\ \A i \in 1 .. Len(Tail(q)) : Tail(q)[i] = q[i + 1] /\ i + 1 \in 1 .. Len(q)
      /\ Head(q) = q[1] /\ 1 \in 1 .. Len(q)
  OBVIOUS
<1>2. \A x \in S : f[x] \in Nat
  OBVIOUS
<1>3. View(q, f) \in Seq(Nat) /\ Len(View(q, f)) = Len(q)
  <2>1. View(q, f) \in [1 .. Len(q) -> Nat]
    BY <1>1, <1>2 DEF View
  <2>2. Len(q) \in Nat
    BY <1>1
  <2> QED
    BY <2>1, <2>2, FunctionIsSeq
<1>4. View(q, f) # <<>>
  BY <1>1, <1>3
<1>5. Head(View(q, f)) = f[Head(q)]
  <2>1. Head(View(q, f)) = View(q, f)[1]
    BY <1>3, <1>4
  <2> QED
    BY <1>1, <2>1 DEF View
<1>6. View(Tail(q), f) = Tail(View(q, f))
  <2> DEFINE u == Tail(View(q, f))
             w == View(Tail(q), f)
  <2>1. u \in Seq(Nat) /\ Len(u) = Len(q) - 1 /\ \A i \in 1 .. Len(u) : u[i] = View(q, f)[i + 1]
    BY <1>1, <1>3, <1>4
  <2>2. w \in [1 .. Len(q) - 1 -> Nat]
    BY <1>1, <1>2 DEF View
  <2>3. w \in Seq(Nat) /\ Len(w) = Len(q) - 1
    <3>1. Len(q) - 1 \in Nat
      BY <1>1
    <3> HIDE DEF u, w
    <3> QED
      BY <2>2, <3>1, FunctionIsSeq
  <2>4. \A i \in 1 .. Len(q) - 1 : w[i] = View(q, f)[i + 1]
    BY <1>1 DEF View
  <2> HIDE DEF u, w
  <2>5. \A i \in 1 .. Len(u) : u[i] = w[i]
    BY <2>1, <2>4
  <2>6. u = w
    BY <2>1, <2>3, <2>5, SeqEqual
  <2> QED
    BY <2>6 DEF u, w
<1> QED
  BY <1>1, <1>4, <1>5, <1>6

-------------------------------------------------------------------------------
(* SSH sessions.  As long as its channel is open, what is queued of a stream    *)
(* are the chunks between those its client got and those that were read; an     *)
(* exit code is queued behind all of its channel's, by a task that reads no     *)
(* more, and closes the channel, for good.                                      *)

SshMessages == [stream : SshStreams, chunk : (Nat \ {0}) \cup {None}]

\* What is queued of a stream.
OfStream(s) == [m \in SshMessages |-> IF m.stream = s /\ m.chunk # None THEN m.chunk ELSE 0]
Queued(q, s) == View(q, OfStream(s))

ExitQueued(i) == outbox[i].chunk = None

\* The end that the client of a channel sees.
SshEnd(c) == IF c \in exitSent THEN "finished" ELSE IF channelAt[c] = "closed" THEN "cut" ELSE "open"

SshShapes ==
    /\ channelAt \in [SshChannels -> {"idle", "open", "running", "closed"}]
    /\ forwarder \in [SshChannels -> {None, "reading", "locking", "waiting", "reaped", "reporting", "done"}]
    /\ outbox \in Seq(SshMessages)
    /\ forwarded \in [SshStreams -> Nat] /\ received \in [SshStreams -> Seq(Nat)]

Reported(c) == forwarder[c] \in {"reporting", "done"}

\* A channel that an editor is being started on is open.
EditorInv == \A c \in SshChannels : callback \in {<<"provision", c>>, <<"attach", c>>} => channelAt[c] = "open"

ExitInv ==
    /\ exitSent \subseteq {c \in SshChannels : channelAt[c] = "closed"}
    /\ \A i \in 1 .. Len(outbox) : ExitQueued(i) =>
          /\ Reported(outbox[i].stream[1])
          /\ \A j \in 1 .. Len(outbox) : i < j => outbox[j].stream[1] # outbox[i].stream[1]

SshFlow ==
    \A s \in SshStreams :
        channelAt[s[1]] # "closed" => Chain(Queued(outbox, s), Len(received[s]), forwarded[s])

SshInv == SshShapes /\ EditorInv /\ ExitInv /\ SshFlow

\* What a step does to one stream.
SshStep(s) ==
    OneStep(forwarded[s], forwarded'[s], received[s], received'[s], SshEnd(s[1]), SshEnd(s[1])')
SshStreamsStep == \A s \in SshStreams : SshStep(s)

LEMMA ChannelOfStream == \A s \in SshStreams : s[1] \in SshChannels /\ s = <<s[1], s[2]>>
BY DEF SshStreams

(* A message that is queued, or sent from the queue, is so in what is queued of each
   stream. *)
LEMMA QueuedGrows ==
    ASSUME NEW q \in Seq(SshMessages), NEW m \in SshMessages, NEW s
    PROVE  /\ (m.stream = s /\ m.chunk # None) => Queued(Append(q, m), s) = Append(Queued(q, s), m.chunk)
           /\ ~(m.stream = s /\ m.chunk # None) => Queued(Append(q, m), s) = Append(Queued(q, s), 0)
<1>1. OfStream(s) \in [SshMessages -> Nat]
  BY DEF OfStream, SshMessages
<1>2. Queued(Append(q, m), s) = Append(Queued(q, s), OfStream(s)[m])
  BY <1>1, ViewGrows DEF Queued
<1> QED
  BY <1>2 DEF OfStream

LEMMA QueuedShrinks ==
    ASSUME NEW q \in Seq(SshMessages), q # <<>>, NEW s
    PROVE  /\ Queued(q, s) # <<>> /\ Queued(Tail(q), s) = Tail(Queued(q, s))
           /\ Head(Queued(q, s)) = IF Head(q).stream = s /\ Head(q).chunk # None THEN Head(q).chunk ELSE 0
<1>1. OfStream(s) \in [SshMessages -> Nat]
  BY DEF OfStream, SshMessages
<1>2. /\ Queued(q, s) # <<>> /\ Queued(Tail(q), s) = Tail(Queued(q, s))
      /\ Head(Queued(q, s)) = OfStream(s)[Head(q)] /\ Head(q) \in SshMessages
  BY <1>1, ViewShrinks DEF Queued
<1> QED
  BY <1>2 DEF OfStream

(* Channels only close, and nothing is moved: streams rest or are cut.            *)
LEMMA SshCalm ==
    ASSUME SshInv, UNCHANGED <<outbox, forwarded, received, exitSent>>, EditorInv',
           channelAt' \in [SshChannels -> {"idle", "open", "running", "closed"}],
           forwarder' \in [SshChannels -> {None, "reading", "locking", "waiting", "reaped", "reporting", "done"}],
           \A c \in SshChannels : (channelAt[c] = "closed" => channelAt'[c] = "closed")
                                    /\ (Reported(c) => Reported(c)')
    PROVE  SshInv' /\ SshStreamsStep
<1>1. SshShapes'
  BY DEF SshInv, SshShapes
<1>2. ExitInv'
  <2>1. ASSUME NEW i \in 1 .. Len(outbox) PROVE outbox[i].stream[1] \in SshChannels
    <3>1. outbox[i] \in SshMessages
      BY DEF SshInv, SshShapes
    <3> QED
      BY <3>1, ChannelOfStream DEF SshMessages
  <2> QED
    BY <2>1 DEF SshInv, ExitInv, ExitQueued
<1>3. SshFlow'
  BY ChannelOfStream DEF SshInv, SshFlow
<1>4. ASSUME NEW s \in SshStreams PROVE SshStep(s)
  BY ChannelOfStream DEF SshInv, ExitInv, SshStep, OneStep, SshEnd
<1> QED
  BY <1>1, <1>2, <1>3, <1>4 DEF SshInv, SshStreamsStep

(* Callbacks.                                                                     *)
LEMMA SshCallbacks ==
    ASSUME SshInv, NEW c \in SshChannels,
           \/ OpenChannel(c) \/ StartShell(c) \/ StartEditor(c) \/ ProvisionFails(c) \/ SpawnEditor(c)
           \/ AttachEditor(c) \/ CloseChannel(c) \/ KillChild(c)
    PROVE  SshInv' /\ SshStreamsStep
<1>1. UNCHANGED <<outbox, forwarded, received, exitSent>>
  BY DEF OpenChannel, StartShell, StartEditor, ProvisionFails, SpawnEditor, AttachEditor, CloseChannel, KillChild,
         outputVars
<1>2. /\ forwarder' \in [SshChannels -> {None, "reading", "locking", "waiting", "reaped", "reporting", "done"}]
      /\ \A d \in SshChannels : Reported(d) => Reported(d)'
  <2>1. \/ UNCHANGED forwarder
        \/ forwarder[c] = None /\ forwarder' = [forwarder EXCEPT ![c] = "reading"]
    BY DEF OpenChannel, StartShell, StartEditor, ProvisionFails, SpawnEditor, AttachEditor, CloseChannel,
           KillChild, childVars, ForwarderTo
  <2>2. None \notin {"reporting", "done"}
    BY SshBridgeAssumption
  <2> QED
    BY <2>1, <2>2 DEF SshInv, SshShapes, Reported
<1>3. /\ channelAt' \in [SshChannels -> {"idle", "open", "running", "closed"}]
      /\ \A d \in SshChannels : channelAt[d] = "closed" => channelAt'[d] = "closed"
  BY DEF OpenChannel, StartShell, StartEditor, ProvisionFails, SpawnEditor, AttachEditor, CloseChannel,
         KillChild, ChannelTo, Arrives, InCallback, SshInv, SshShapes, EditorInv
<1>4. EditorInv'
  BY SshBridgeAssumption
     DEF OpenChannel, StartShell, StartEditor, ProvisionFails, SpawnEditor, AttachEditor, CloseChannel,
         KillChild, ChannelTo, Arrives, InCallback, Free, SshInv, SshShapes, EditorInv
<1> QED
  BY <1>1, <1>2, <1>3, <1>4, SshCalm

(* The tasks that wait for a process.                                             *)
LEMMA SshWaits ==
    ASSUME SshInv, NEW c \in SshChannels, OutputCloses(c) \/ ProcessExits(c) \/ WaitForChild(c) \/ Reap(c) \/ Detach(c)
    PROVE  SshInv' /\ SshStreamsStep
<1>1. UNCHANGED <<outbox, forwarded, received, exitSent, channelAt, callback>>
  BY DEF OutputCloses, ProcessExits, WaitForChild, Reap, Detach, outputVars, sessionVars
<1>2. \/ UNCHANGED forwarder
      \/ /\ forwarder[c] \in {"reading", "locking", "waiting"}
         /\ \E l \in {"locking", "waiting", "reaped"} : forwarder' = [forwarder EXCEPT ![c] = l]
      \/ forwarder' = [forwarder EXCEPT ![c] = "done"]
  BY DEF OutputCloses, ProcessExits, WaitForChild, Reap, Detach, ForwarderTo
<1>3. /\ forwarder' \in [SshChannels -> {None, "reading", "locking", "waiting", "reaped", "reporting", "done"}]
      /\ \A d \in SshChannels : Reported(d) => Reported(d)'
  BY <1>2 DEF SshInv, SshShapes, Reported
<1>4. EditorInv' /\ channelAt' \in [SshChannels -> {"idle", "open", "running", "closed"}]
  BY <1>1 DEF SshInv, SshShapes, EditorInv
<1> QED
  BY <1>1, <1>3, <1>4, SshCalm

(* A message is sent to the client.                                               *)
LEMMA SshSends == SshInv /\ SendToClient => SshInv' /\ SshStreamsStep
<1> SUFFICES ASSUME SshInv, SendToClient PROVE SshInv' /\ SshStreamsStep
  OBVIOUS
<1> DEFINE m == Head(outbox)
           c == m.stream[1]
<1>1. /\ outbox \in Seq(SshMessages) /\ outbox # <<>> /\ outbox' = Tail(outbox)
      /\ UNCHANGED <<callback, forwarder, forwarded>> /\ callback = None
  BY DEF SendToClient, SshInv, SshShapes, childVars, Free
<1>2. /\ Tail(outbox) \in Seq(SshMessages) /\ Len(Tail(outbox)) = Len(outbox) - 1 /\ Len(outbox) \in Nat \ {0}
      /\ \A i \in 1 .. Len(Tail(outbox)) : Tail(outbox)[i] = outbox[i + 1] /\ i + 1 \in 1 .. Len(outbox)
      /\ m = outbox[1] /\ 1 \in 1 .. Len(outbox) /\ \A i \in 1 .. Len(outbox) : outbox[i] \in SshMessages
  BY <1>1
<1>3. m \in SshMessages /\ m.stream \in SshStreams /\ c \in SshChannels
  BY <1>2, ChannelOfStream DEF SshMessages
<1>4. /\ channelAt \in [SshChannels -> {"idle", "open", "running", "closed"}]
      /\ forwarded \in [SshStreams -> Nat] /\ received \in [SshStreams -> Seq(Nat)]
      /\ exitSent \subseteq {d \in SshChannels : channelAt[d] = "closed"}
  BY DEF SshInv, SshShapes, ExitInv
<1>5. EditorInv'
  BY <1>1, SshBridgeAssumption DEF EditorInv
<1>6. (\A i \in 1 .. Len(outbox) : ExitQueued(i) =>
          /\ Reported(outbox[i].stream[1])
          /\ \A j \in 1 .. Len(outbox) : i < j => outbox[j].stream[1] # outbox[i].stream[1])'
  <2> SUFFICES ASSUME NEW i \in 1 .. Len(outbox'), outbox'[i].chunk = None
               PROVE  /\ forwarder[outbox'[i].stream[1]] \in {"reporting", "done"}
                      /\ \A j \in 1 .. Len(outbox') : i < j => outbox'[j].stream[1] # outbox'[i].stream[1]
    BY <1>1 DEF ExitQueued, Reported
  <2>1. outbox'[i] = outbox[i + 1] /\ i + 1 \in 1 .. Len(outbox) /\ ExitQueued(i + 1)
    BY <1>1, <1>2 DEF ExitQueued
  <2>2. /\ Reported(outbox[i + 1].stream[1])
        /\ \A j \in 1 .. Len(outbox) : i + 1 < j => outbox[j].stream[1] # outbox[i + 1].stream[1]
    BY <2>1 DEF SshInv, ExitInv
  <2>3. ASSUME NEW j \in 1 .. Len(outbox'), i < j PROVE outbox'[j].stream[1] # outbox'[i].stream[1]
    <3>1. outbox'[j] = outbox[j + 1] /\ j + 1 \in 1 .. Len(outbox) /\ i + 1 < j + 1
      BY <1>1, <1>2, <2>3
    <3> QED
      BY <2>1, <2>2, <3>1
  <2> QED
    BY <2>1, <2>2, <2>3 DEF Reported
<1>7. ASSUME NEW s \in SshStreams, channelAt[s[1]] # "closed"
      PROVE  /\ ~(m.stream = s /\ m.chunk # None)
                   => Chain(Queued(outbox', s), Len(received[s]), forwarded[s])
             /\ (m.stream = s /\ m.chunk # None)
                   => /\ m.chunk = Len(received[s]) + 1 /\ Len(received[s]) < forwarded[s]
                      /\ Chain(Queued(outbox', s), Len(received[s]) + 1, forwarded[s])
  <2>1. Chain(Queued(outbox, s), Len(received[s]), forwarded[s])
    BY <1>7 DEF SshInv, SshFlow
  <2>2. /\ Queued(outbox, s) # <<>> /\ Queued(outbox', s) = Tail(Queued(outbox, s))
        /\ Head(Queued(outbox, s)) = IF m.stream = s /\ m.chunk # None THEN m.chunk ELSE 0
    BY <1>1, QueuedShrinks
  <2>3. m.chunk # None => m.chunk # 0
    BY <1>3 DEF SshMessages
  <2> QED
    BY <2>1, <2>2, <2>3, ChainShrinks
<1>8. CASE channelAt[c] = "closed"
  <2>1. UNCHANGED <<channelAt, received, exitSent>>
    BY <1>8 DEF SendToClient
  <2>2. SshShapes' /\ ExitInv'
    BY <1>1, <1>2, <1>6, <2>1 DEF SshInv, SshShapes, ExitInv
  <2>3. SshFlow'
    BY <1>1, <1>7, <1>8, <2>1 DEF SshFlow
  <2>4. SshStreamsStep
    BY <1>1, <2>1 DEF SshStreamsStep, SshStep, OneStep, SshEnd
  <2> QED
    BY <1>5, <2>2, <2>3, <2>4 DEF SshInv
<1>9. CASE channelAt[c] # "closed" /\ m.chunk = None
  <2>1. /\ exitSent' = exitSent \cup {c} /\ channelAt' = [channelAt EXCEPT ![c] = "closed"]
        /\ UNCHANGED received
    BY <1>9 DEF SendToClient, ChannelTo
  <2>2. SshShapes'
    BY <1>1, <1>2, <1>3, <2>1 DEF SshInv, SshShapes
  <2>3. ExitInv'
    BY <1>1, <1>3, <1>4, <1>6, <2>1 DEF ExitInv
  <2>4. SshFlow'
    BY <1>1, <1>3, <1>4, <1>7, <1>9, <2>1, ChannelOfStream DEF SshFlow
  <2>5. ASSUME NEW s \in SshStreams PROVE SshStep(s)
    <3>1. CASE s[1] = c
      <4>1. ASSUME NEW i \in 1 .. Len(outbox), ~ (outbox[i].chunk = None) PROVE outbox[i].stream # s
        <5>1. i # 1 /\ 1 < i
          BY <1>2, <1>9, <4>1
        <5>2. ExitQueued(1)
          BY <1>2, <1>9 DEF ExitQueued
        <5> QED
          BY <1>2, <3>1, <5>1, <5>2 DEF SshInv, ExitInv
      <4>2. Chain(Queued(outbox, s), Len(received[s]), forwarded[s])
        BY <1>9, <3>1 DEF SshInv, SshFlow
      <4>3. Len(Queued(outbox, s)) = Len(outbox)
        <5>1. OfStream(s) \in [SshMessages -> Nat]
          BY DEF OfStream, SshMessages
        <5> QED
          BY <1>1, <1>3, <5>1, ViewGrows DEF Queued
      <4>4. \A i \in 1 .. Len(Queued(outbox, s)) : Queued(outbox, s)[i] = 0
        BY <1>2, <4>1, <4>3 DEF Queued, View, OfStream
      <4>5. Len(received[s]) = forwarded[s]
        BY <4>2, <4>4, ChainDone
      <4> QED
        BY <1>1, <1>4, <1>9, <2>1, <3>1, <4>5 DEF SshStep, OneStep, SshEnd
    <3>2. CASE s[1] # c
      BY <1>1, <1>4, <2>1, <3>2, ChannelOfStream DEF SshStep, OneStep, SshEnd
    <3> QED
      BY <3>1, <3>2
  <2> QED
    BY <1>5, <2>2, <2>3, <2>4, <2>5 DEF SshInv, SshStreamsStep
<1>10. CASE channelAt[c] # "closed" /\ m.chunk # None
  <2>1. /\ received' = [received EXCEPT ![m.stream] = Append(@, m.chunk)]
        /\ UNCHANGED <<channelAt, exitSent>>
    BY <1>10 DEF SendToClient
  <2>2. m.chunk \in Nat
    BY <1>3, <1>10 DEF SshMessages
  <2>3. SshShapes'
    BY <1>1, <1>2, <1>3, <1>4, <2>1, <2>2 DEF SshInv, SshShapes
  <2>4. ExitInv'
    BY <1>1, <1>4, <1>6, <2>1 DEF ExitInv
  <2>5. /\ received'[m.stream] = Append(received[m.stream], m.chunk)
        /\ Len(received'[m.stream]) = Len(received[m.stream]) + 1
        /\ \A s \in SshStreams : s # m.stream => received'[s] = received[s]
    BY <1>3, <1>4, <2>1, <2>2
  <2>6. SshFlow'
    <3> SUFFICES ASSUME NEW s \in SshStreams, channelAt[s[1]] # "closed"
                 PROVE  Chain(Queued(outbox', s), Len(received'[s]), forwarded[s])
      BY <1>1, <2>1 DEF SshFlow
    <3>1. CASE s = m.stream
      BY <1>7, <1>10, <2>5, <3>1
    <3>2. CASE s # m.stream
      BY <1>7, <1>10, <2>5, <3>2
    <3> QED
      BY <3>1, <3>2
  <2>7. ASSUME NEW s \in SshStreams PROVE SshStep(s)
    <3>1. CASE s = m.stream
      <4>1. m.chunk = Len(received[s]) + 1 /\ Len(received[s]) < forwarded[s]
        BY <1>3, <1>7, <1>10, <3>1
      <4>2. c \notin exitSent
        BY <1>4, <1>10
      <4> QED
        BY <1>1, <1>10, <2>1, <2>5, <3>1, <4>1, <4>2 DEF SshStep, OneStep, SshEnd
    <3>2. CASE s # m.stream
      BY <1>1, <2>1, <2>5, <3>2 DEF SshStep, OneStep, SshEnd
    <3> QED
      BY <3>1, <3>2
  <2> QED
    BY <1>5, <2>3, <2>4, <2>6, <2>7 DEF SshInv, SshStreamsStep
<1> QED
  BY <1>8, <1>9, <1>10

(* What the message that is queued for a channel has behind it: nothing of it was
   queued as an exit. *)
LEMMA ExitQueuedLast ==
    ASSUME SshInv, NEW m \in SshMessages, outbox' = Append(outbox, m),
           channelAt' = channelAt, exitSent' = exitSent, ~Reported(m.stream[1]),
           \A c \in SshChannels : Reported(c) => Reported(c)',
           m.chunk = None => Reported(m.stream[1])'
    PROVE  ExitInv'
<1>1. /\ outbox \in Seq(SshMessages) /\ Len(outbox) \in Nat /\ Len(outbox') = Len(outbox) + 1
      /\ \A i \in 1 .. Len(outbox) : outbox'[i] = outbox[i] /\ outbox[i] \in SshMessages
      /\ outbox'[Len(outbox) + 1] = m
  BY DEF SshInv, SshShapes
<1>2. \A i \in 1 .. Len(outbox') : i \in 1 .. Len(outbox) \/ i = Len(outbox) + 1
  BY <1>1
<1>3. (\A i \in 1 .. Len(outbox) : ExitQueued(i) =>
          /\ Reported(outbox[i].stream[1])
          /\ \A j \in 1 .. Len(outbox) : i < j => outbox[j].stream[1] # outbox[i].stream[1])'
  <2> SUFFICES ASSUME NEW i \in 1 .. Len(outbox'), outbox'[i].chunk = None
               PROVE  /\ forwarder'[outbox'[i].stream[1]] \in {"reporting", "done"}
                      /\ \A j \in 1 .. Len(outbox') : i < j => outbox'[j].stream[1] # outbox'[i].stream[1]
    BY DEF ExitQueued, Reported
  <2>1. CASE i \in 1 .. Len(outbox)
    <3>1. /\ outbox'[i] = outbox[i] /\ Reported(outbox[i].stream[1]) /\ outbox[i].stream[1] \in SshChannels
          /\ \A j \in 1 .. Len(outbox) : i < j => outbox[j].stream[1] # outbox[i].stream[1]
      <4>1. outbox'[i] = outbox[i] /\ outbox[i] \in SshMessages
        BY <1>1, <2>1
      <4>2. outbox[i].stream[1] \in SshChannels
        BY <4>1, ChannelOfStream DEF SshMessages
      <4> QED
        BY <2>1, <4>1, <4>2 DEF SshInv, ExitInv, ExitQueued
    <3>2. m.stream[1] # outbox[i].stream[1]
      BY <3>1
    <3> QED
      BY <1>1, <1>2, <3>1, <3>2 DEF Reported
  <2>2. CASE i = Len(outbox) + 1
    <3>1. \A j \in 1 .. Len(outbox') : ~(i < j)
      BY <1>1, <2>2
    <3>2. outbox'[i] = m
      BY <1>1, <2>2
    <3> QED
      BY <3>1, <3>2 DEF Reported
  <2> QED
    BY <1>2, <2>1, <2>2
<1> QED
  BY <1>3 DEF SshInv, ExitInv

(* A chunk is read from a process and queued.                                     *)
LEMMA SshForwards ==
    ASSUME SshInv, NEW s \in SshStreams, ForwardSsh(s)
    PROVE  SshInv' /\ SshStreamsStep
<1>1. /\ UNCHANGED <<channelAt, callback, received, exitSent>> /\ forwarder[s[1]] = "reading"
      /\ s[1] \in SshChannels /\ s[1] \in DOMAIN forwarder
  BY ChannelOfStream DEF ForwardSsh, sessionVars, SshInv, SshShapes
<1>2. EditorInv'
  BY <1>1 DEF SshInv, EditorInv
<1>3. CASE session = "gone"
  <2>1. UNCHANGED <<outbox, forwarded>> /\ forwarder' = [forwarder EXCEPT ![s[1]] = "locking"]
    BY <1>3 DEF ForwardSsh, ForwarderTo
  <2>2. /\ forwarder' \in [SshChannels -> {None, "reading", "locking", "waiting", "reaped", "reporting", "done"}]
        /\ \A d \in SshChannels : Reported(d) => Reported(d)'
    BY <1>1, <2>1 DEF SshInv, SshShapes, Reported
  <2>3. channelAt' \in [SshChannels -> {"idle", "open", "running", "closed"}]
    BY <1>1 DEF SshInv, SshShapes
  <2> QED
    BY <1>1, <1>2, <2>1, <2>2, <2>3, SshCalm
<1>4. CASE session # "gone"
  <2> DEFINE n == forwarded[s]
  <2>1. /\ outbox' = Append(outbox, [stream |-> s, chunk |-> n + 1])
        /\ forwarded' = [forwarded EXCEPT ![s] = n + 1] /\ UNCHANGED forwarder
    BY <1>4 DEF ForwardSsh, Hand
  <2>2. /\ outbox \in Seq(SshMessages) /\ forwarded \in [SshStreams -> Nat]
        /\ received \in [SshStreams -> Seq(Nat)] /\ n \in Nat
    BY DEF SshInv, SshShapes
  <2> HIDE DEF n
  <2>3. PICK m \in SshMessages : m = [stream |-> s, chunk |-> n + 1]
    <3>1. n + 1 \in Nat \ {0}
      BY <2>2
    <3> QED
      BY <3>1 DEF SshMessages
  <2>4. m.stream = s /\ m.chunk = n + 1 /\ m.chunk # None /\ outbox' = Append(outbox, m)
    BY <2>1, <2>2, <2>3, SshBridgeAssumption
  <2>5. SshShapes'
    <3>1. outbox' \in Seq(SshMessages)
      BY <2>2, <2>4
    <3>2. forwarded' \in [SshStreams -> Nat]
      BY <2>1, <2>2
    <3> QED
      BY <1>1, <2>1, <3>1, <3>2 DEF SshInv, SshShapes
  <2>6. ExitInv'
    <3>1. ~Reported(m.stream[1]) /\ \A c \in SshChannels : Reported(c) => Reported(c)'
      BY <1>1, <2>1, <2>4 DEF Reported
    <3> QED
      BY <1>1, <2>4, <3>1, ExitQueuedLast
  <2>7. SshFlow'
    <3> SUFFICES ASSUME NEW u \in SshStreams, channelAt[u[1]] # "closed"
                 PROVE  Chain(Queued(outbox', u), Len(received[u]), forwarded'[u])
      BY <1>1 DEF SshFlow
    <3>1. Chain(Queued(outbox, u), Len(received[u]), forwarded[u])
      BY DEF SshInv, SshFlow
    <3>2. CASE u = s
      <4>1. Queued(outbox', u) = Append(Queued(outbox, u), n + 1)
        BY <2>2, <2>4, <3>2, QueuedGrows
      <4>2. forwarded'[u] = forwarded[u] + 1 /\ forwarded[u] = n
        BY <2>1, <2>2, <3>2 DEF n
      <4> QED
        BY <3>1, <4>1, <4>2, ChainGrows
    <3>3. CASE u # s
      <4>1. Queued(outbox', u) = Append(Queued(outbox, u), 0)
        BY <2>2, <2>4, <3>3, QueuedGrows
      <4>2. forwarded'[u] = forwarded[u]
        BY <2>1, <2>2, <3>3
      <4> QED
        BY <3>1, <4>1, <4>2, ChainGrows
    <3> QED
      BY <3>2, <3>3
  <2>8. SshStreamsStep
    BY <1>1, <2>1, <2>2 DEF SshStreamsStep, SshStep, OneStep, SshEnd, n
  <2> QED
    BY <1>2, <2>5, <2>6, <2>7, <2>8 DEF SshInv
<1> QED
  BY <1>3, <1>4

(* The end of a process is queued.                                                *)
LEMMA SshReports ==
    ASSUME SshInv, NEW c \in SshChannels, ReportExit(c)
    PROVE  SshInv' /\ SshStreamsStep
<1>1. /\ UNCHANGED <<channelAt, callback, forwarded, received, exitSent>> /\ forwarder[c] = "reaped"
      /\ forwarder' = [forwarder EXCEPT ![c] = "reporting"]
  BY DEF ReportExit, sessionVars, outputVars, ForwarderTo
<1>2. /\ forwarder' \in [SshChannels -> {None, "reading", "locking", "waiting", "reaped", "reporting", "done"}]
      /\ Reported(c)' /\ ~Reported(c) /\ \A d \in SshChannels : Reported(d) => Reported(d)'
  BY <1>1 DEF SshInv, SshShapes, Reported
<1>3. EditorInv' /\ channelAt' \in [SshChannels -> {"idle", "open", "running", "closed"}]
  BY <1>1 DEF SshInv, SshShapes, EditorInv
<1>4. CASE outbox' = outbox
  BY <1>1, <1>2, <1>3, <1>4, SshCalm
<1>5. CASE outbox' = Append(outbox, [stream |-> <<c, "out">>, chunk |-> None])
  <2>1. PICK m \in SshMessages : m = [stream |-> <<c, "out">>, chunk |-> None]
    BY DEF SshMessages, SshStreams
  <2>2. m.stream[1] = c /\ m.chunk = None /\ outbox' = Append(outbox, m) /\ outbox \in Seq(SshMessages)
    BY <1>5, <2>1 DEF SshInv, SshShapes
  <2>3. ExitInv'
    BY <1>1, <1>2, <2>2, ExitQueuedLast
  <2>4. SshShapes'
    BY <1>1, <1>2, <2>2 DEF SshInv, SshShapes
  <2>5. ASSUME NEW s \in SshStreams, channelAt[s[1]] # "closed"
        PROVE  Chain(Queued(outbox', s), Len(received[s]), forwarded[s])
    <3>1. Queued(outbox', s) = Append(Queued(outbox, s), 0)
      BY <2>2, QueuedGrows
    <3>2. Chain(Queued(outbox, s), Len(received[s]), forwarded[s])
      BY <2>5 DEF SshInv, SshFlow
    <3> QED
      BY <3>1, <3>2, ChainGrows
  <2>6. SshFlow'
    BY <1>1, <2>5 DEF SshFlow
  <2>7. SshStreamsStep
    BY <1>1 DEF SshStreamsStep, SshStep, OneStep, SshEnd
  <2> QED
    BY <1>3, <2>3, <2>4, <2>6, <2>7 DEF SshInv
<1> QED
  BY <1>4, <1>5 DEF ReportExit, Hand

(* The session ends: every channel is closed, and what was queued is gone.        *)
LEMMA SshEnds == SshInv /\ SessionEnds => SshInv' /\ SshStreamsStep
<1> SUFFICES ASSUME SshInv, SessionEnds PROVE SshInv' /\ SshStreamsStep
  OBVIOUS
<1>1. /\ outbox' = <<>> /\ channelAt' = [c \in SshChannels |-> "closed"]
      /\ UNCHANGED <<callback, forwarder, forwarded, received, exitSent>> /\ callback = None
  BY DEF SessionEnds, childVars, outputVars, Free
<1>2. SshShapes'
  BY <1>1 DEF SshInv, SshShapes
<1>3. EditorInv'
  BY <1>1, SshBridgeAssumption DEF EditorInv
<1>4. ExitInv'
  BY <1>1 DEF SshInv, ExitInv
<1>5. SshFlow'
  BY <1>1, ChannelOfStream DEF SshFlow
<1>6. SshStreamsStep
  BY <1>1, ChannelOfStream DEF SshInv, ExitInv, SshStreamsStep, SshStep, OneStep, SshEnd
<1> QED
  BY <1>2, <1>3, <1>4, <1>5, <1>6 DEF SshInv

(* All of it holds at the start.                                                 *)
LEMMA SshBegins == SshInit => SshInv /\ SshCarried!StreamInit
<1> SUFFICES ASSUME SshInit PROVE SshInv /\ SshCarried!StreamInit
  OBVIOUS
<1>1. SshShapes
  BY DEF SshInit, SshShapes
<1>2. EditorInv
  BY SshBridgeAssumption DEF SshInit, EditorInv
<1>3. ExitInv
  BY DEF SshInit, ExitInv
<1>4. SshFlow
  <2>1. ASSUME NEW s \in SshStreams PROVE Chain(Queued(outbox, s), Len(received[s]), forwarded[s])
    <3>1. Queued(outbox, s) = <<>> /\ Len(received[s]) = 0 /\ forwarded[s] = 0
      BY DEF SshInit, Queued, View
    <3> QED
      BY <3>1, ChainEmpty
  <2> QED
    BY <2>1 DEF SshFlow
<1>5. SshCarried!StreamInit
  BY ChannelOfStream DEF SshInit, SshCarried!StreamInit
<1> QED
  BY <1>1, <1>2, <1>3, <1>4, <1>5 DEF SshInv

(* Every step keeps the invariant, and does to a stream only what a stream allows. *)
LEMMA SshSteps == SshInv /\ [SshNext]_sshVars => SshInv' /\ SshStreamsStep
<1> SUFFICES ASSUME SshInv, [SshNext]_sshVars PROVE SshInv' /\ SshStreamsStep
  OBVIOUS
<1>1. CASE UNCHANGED sshVars
  <2>1. UNCHANGED <<outbox, forwarded, received, exitSent, channelAt, forwarder, callback>>
    BY <1>1 DEF sshVars, sessionVars, childVars, outputVars
  <2>2. EditorInv' /\ SshShapes' /\ \A c \in SshChannels : Reported(c) => Reported(c)'
    BY <2>1 DEF SshInv, EditorInv, SshShapes, Reported
  <2> QED
    BY <2>1, <2>2, SshCalm DEF SshShapes
<1> QED
  BY <1>1, SshSends, SshEnds, SshForwards, SshCallbacks, SshWaits, SshReports DEF SshNext, ForwarderStep

(* An ssh session implements TunnelStream: what the client of a channel sees of its
   process is in order and without a gap, and an exit code comes only after all the
   output that was read, whatever channels, tasks and editors do and however little
   room there is for messages. *)
THEOREM SshKeepsStreams == SshSpec => SshStreamsKept
<1>1. SshStreamsStep => [SshCarried!StreamNext]_(SshCarried!streamVars)
  <2> SUFFICES ASSUME SshStreamsStep PROVE SshCarried!StreamNext
    OBVIOUS
  <2>1. ASSUME NEW s \in SshStreams
        PROVE  \/ SshCarried!Send(s) \/ SshCarried!Receive(s) \/ SshCarried!FinishStream(s)
               \/ SshCarried!Cut(s) \/ SshCarried!Rest(s)
    <3>1. SshStep(s)
      BY DEF SshStreamsStep
    <3> QED
      BY <3>1 DEF SshStep, OneStep, SshEnd, SshCarried!Send, SshCarried!Receive, SshCarried!FinishStream,
                  SshCarried!Cut, SshCarried!Rest, SshCarried!Keeps
  <2> QED
    BY <2>1 DEF SshCarried!StreamNext
<1> QED
  BY <1>1, SshBegins, SshSteps, PTL DEF SshSpec, SshStreamsKept, SshCarried!StreamSpec

(* The types of the rest of the session.                                          *)
SshTypes ==
    /\ session \in {"up", "gone"}
    /\ callback \in {None} \cup {"provision", "attach", "kill"} \X SshChannels
    /\ childKind \in [SshChannels -> {None, "pty", "piped"}]
    /\ children \subseteq {c \in SshChannels : childKind[c] # None}
    /\ Len(outbox) <= SshCapacity
    /\ DOMAIN presence = SshChannels /\ \A c \in SshChannels : presence[c] # None => c \in attributed
    /\ exitSent \subseteq {c \in SshChannels : Reported(c)}

LEMMA SshTypesStep == SshInv /\ SshTypes /\ [SshNext]_sshVars => SshTypes'
<1> SUFFICES ASSUME SshInv, SshTypes, [SshNext]_sshVars PROVE SshTypes'
  OBVIOUS
<1>1. /\ None \notin {"pty", "piped", "reading", "locking", "waiting", "reaped", "reporting", "done"}
      /\ SshCapacity \in Nat \ {0} /\ Len(outbox) \in Nat
  BY SshBridgeAssumption, LenProperties DEF SshInv, SshShapes
<1>2. ASSUME NEW c \in SshChannels,
             \/ OpenChannel(c) \/ StartShell(c) \/ StartEditor(c) \/ ProvisionFails(c) \/ SpawnEditor(c)
             \/ AttachEditor(c) \/ CloseChannel(c) \/ KillChild(c)
      PROVE  SshTypes'
  <2>1. UNCHANGED <<session, outbox, exitSent>>
    BY <1>2 DEF OpenChannel, StartShell, StartEditor, ProvisionFails, SpawnEditor, AttachEditor,
                CloseChannel, KillChild, outputVars
  <2>2. callback' \in {None} \cup {"provision", "attach", "kill"} \X SshChannels
    BY <1>2 DEF OpenChannel, StartShell, StartEditor, ProvisionFails, SpawnEditor, AttachEditor,
                CloseChannel, KillChild, SshTypes
  <2>3. /\ childKind' \in [SshChannels -> {None, "pty", "piped"}]
        /\ children' \subseteq {d \in SshChannels : childKind'[d] # None}
    <3>1. \/ UNCHANGED childKind /\ children' \subseteq children
          \/ \E as \in {"pty", "piped"} : SpawnOn(c, as)
      BY <1>2 DEF OpenChannel, StartShell, StartEditor, ProvisionFails, SpawnEditor, AttachEditor,
                  CloseChannel, KillChild, childVars
    <3> QED
      BY <1>1, <3>1 DEF SpawnOn, SshTypes
  <2>4. DOMAIN presence' = SshChannels /\ \A d \in SshChannels : presence'[d] # None => d \in attributed'
    <3>1. \/ UNCHANGED presence /\ attributed \subseteq attributed'
          \/ UNCHANGED attributed /\ c \in attributed /\ presence' = [presence EXCEPT ![c] = "attached"]
      BY <1>2 DEF OpenChannel, StartShell, StartEditor, ProvisionFails, SpawnEditor, Attribute,
                  AttachEditor, CloseChannel, KillChild, presenceVars
    <3> QED
      BY <3>1 DEF SshTypes
  <2>5. \A d \in SshChannels : Reported(d) => Reported(d)'
    <3>1. UNCHANGED forwarder \/ ForwarderTo(c, None, "reading")
      BY <1>2 DEF OpenChannel, StartShell, StartEditor, ProvisionFails, SpawnEditor, AttachEditor,
                  CloseChannel, KillChild, childVars
    <3> QED
      BY <1>1, <3>1 DEF ForwarderTo, Reported, SshInv, SshShapes
  <2> QED
    BY <2>1, <2>2, <2>3, <2>4, <2>5 DEF SshTypes
<1>3. ASSUME NEW c \in SshChannels,
             OutputCloses(c) \/ ProcessExits(c) \/ WaitForChild(c) \/ Reap(c) \/ Detach(c) \/ ReportExit(c)
      PROVE  SshTypes'
  <2>1. UNCHANGED <<session, callback, childKind, attributed, exitSent>> /\ children' \subseteq children
    BY <1>3 DEF OutputCloses, ProcessExits, WaitForChild, Reap, Detach, ReportExit, sessionVars, outputVars,
                presenceVars
  <2>2. \A d \in SshChannels : Reported(d) => Reported(d)'
    <3>1. \/ UNCHANGED forwarder
          \/ forwarder[c] \in {"reading", "locking", "waiting"} /\ \E l : forwarder' = [forwarder EXCEPT ![c] = l]
          \/ \E l \in {"reporting", "done"} : forwarder' = [forwarder EXCEPT ![c] = l]
      BY <1>3 DEF OutputCloses, ProcessExits, WaitForChild, Reap, Detach, ReportExit, ForwarderTo
    <3> QED
      BY <3>1 DEF Reported, SshInv, SshShapes
  <2>3. DOMAIN presence' = SshChannels /\ \A d \in SshChannels : presence'[d] # None => d \in attributed
    <3>1. \/ UNCHANGED presence
          \/ c \in attributed /\ presence' = [presence EXCEPT ![c] = "detached"]
      BY <1>3 DEF OutputCloses, ProcessExits, WaitForChild, Reap, Detach, ReportExit, presenceVars
    <3> QED
      BY <3>1 DEF SshTypes
  <2>4. Len(outbox') <= SshCapacity
    <3>1. CASE UNCHANGED outbox
      BY <3>1 DEF SshTypes
    <3>2. CASE Hand(<<c, "out">>, None)
      BY <1>1, <3>2 DEF Hand, SshInv, SshShapes
    <3> QED
      BY <1>3, <3>1, <3>2 DEF OutputCloses, ProcessExits, WaitForChild, Reap, Detach, ReportExit
  <2> QED
    BY <2>1, <2>2, <2>3, <2>4 DEF SshTypes
<1>4. ASSUME NEW s \in SshStreams, ForwardSsh(s) PROVE SshTypes'
  <2>1. UNCHANGED <<session, callback, childKind, children, presence, attributed, exitSent>>
    BY <1>4 DEF ForwardSsh, sessionVars, presenceVars
  <2>2. Len(outbox') <= SshCapacity
    <3>1. CASE UNCHANGED outbox
      BY <3>1 DEF SshTypes
    <3>2. CASE Hand(s, forwarded[s] + 1)
      BY <1>1, <3>2 DEF Hand, SshInv, SshShapes
    <3> QED
      BY <1>4, <3>1, <3>2 DEF ForwardSsh
  <2>3. \A d \in SshChannels : Reported(d) => Reported(d)'
    <3>1. UNCHANGED forwarder \/ ForwarderTo(s[1], "reading", "locking")
      BY <1>4 DEF ForwardSsh
    <3> QED
      BY <3>1 DEF ForwarderTo, Reported, SshInv, SshShapes
  <2> QED
    BY <2>1, <2>2, <2>3 DEF SshTypes
<1>5. CASE SendToClient
  <2> DEFINE m == Head(outbox)
  <2>1. /\ outbox # <<>> /\ outbox' = Tail(outbox) /\ callback' = callback
        /\ UNCHANGED <<session, childKind, children, forwarder, presence, attributed>>
    BY <1>5 DEF SendToClient, childVars, presenceVars
  <2>2. /\ Len(outbox') <= Len(outbox) /\ Len(outbox') \in Nat /\ m = outbox[1] /\ 1 \in 1 .. Len(outbox)
        /\ m \in SshMessages
    BY <2>1 DEF SshInv, SshShapes
  <2>3. m.stream[1] \in SshChannels
    BY <2>2, ChannelOfStream DEF SshMessages
  <2>4. exitSent' = exitSent \/ (m.chunk = None /\ exitSent' = exitSent \cup {m.stream[1]})
    BY <1>5 DEF SendToClient
  <2>5. exitSent' \subseteq {c \in SshChannels : Reported(c)}
    BY <2>2, <2>3, <2>4 DEF SshTypes, SshInv, ExitInv, ExitQueued
  <2>6. Len(outbox') <= SshCapacity
    BY <1>1, <2>2 DEF SshTypes
  <2> QED
    BY <2>1, <2>5, <2>6 DEF SshTypes, Reported
<1>6. CASE SessionEnds
  <2>1. /\ session' = "gone" /\ outbox' = <<>>
        /\ UNCHANGED <<callback, childKind, children, forwarder, presence, attributed, exitSent>>
    BY <1>6 DEF SessionEnds, childVars, presenceVars, outputVars
  <2> QED
    BY <1>1, <2>1 DEF SshTypes, Reported
<1>7. CASE UNCHANGED sshVars
  BY <1>7 DEF sshVars, sessionVars, childVars, presenceVars, outputVars, SshTypes, Reported
<1> QED
  BY <1>2, <1>3, <1>4, <1>5, <1>6, <1>7 DEF SshNext, ForwarderStep

(* The session's callback, its channels and their tasks keep their types: an exit *)
(* code is sent only for a task that has reported it, a process that lives was    *)
(* spawned, and presence is told only of attributed editors.                      *)
THEOREM SshTypeCorrect == SshSpec => []SshTypeOK
<1>1. SshInit => SshInv
  BY SshBegins
<1>2. SshInit => SshTypes
  BY SshBridgeAssumption DEF SshInit, SshTypes
<1>3. SshInv /\ [SshNext]_sshVars => SshInv'
  BY SshSteps
<1>4. SshInv /\ SshTypes => SshTypeOK
  BY DEF SshInv, SshShapes, SshTypes, SshTypeOK, Reported
<1> QED
  BY <1>1, <1>2, <1>3, <1>4, SshTypesStep, PTL DEF SshSpec

-------------------------------------------------------------------------------
(* The programs of a laptop.  While one runs, the frames on their way to it hold *)
(* the chunks between what was printed and what was sent, and the one that ends  *)
(* the tunnel is the last; while the far end takes input, the frames on their    *)
(* way to it hold what was typed since, and an end of the input is the last.     *)

Chunks == [is : {"chunk"}, of : {"out", "err"}, own : BOOLEAN, n : Nat \ {0}]
ProgramEnds   == [is : {"exit", "error", "empty"}, of : {"out"}, own : {TRUE}, n : {0}]
ProgramFrames == Chunks \cup ProgramEnds

OutputOf(s) == [f \in ProgramFrames |-> IF f.is = "chunk" /\ f.own /\ f.of = s THEN f.n ELSE 0]
OnItsWay(q, s) == View(q, OutputOf(s))

\* The end that the reader of a stream sees.
LaptopEnd(s) ==
    IF s = "in" THEN inputEnd ELSE IF ending \in {"closed", "exit"} THEN "finished"
    ELSE IF ending = None THEN "open" ELSE "cut"

LaptopShapes ==
    /\ downstream \in Seq(ProgramFrames) /\ upstream \in Seq(Nat)
    /\ emitted \in [{"out", "err"} -> Nat] /\ printed \in [{"out", "err"} -> Seq(Nat)]
    /\ typed \in Nat /\ inputTaken \in Seq(Nat) /\ inputEnd \in {"open", "finished", "cut"}

EndsTunnel(f) == f.is # "chunk"

OutputInv ==
    phase # "ended" =>
        /\ ending = None
        /\ \A s \in {"out", "err"} : Chain(OnItsWay(downstream, s), Len(printed[s]), emitted[s])
        /\ \A i \in 1 .. Len(downstream) : EndsTunnel(downstream[i]) => i = Len(downstream)

InputInv ==
    /\ phase # "ended" => inputEnd = "open" /\ \A i \in 1 .. Len(upstream) : upstream[i] # 0
    /\ inputEnd = "open" =>
          /\ Chain(upstream, Len(inputTaken), typed)
          /\ \A i \in 1 .. Len(upstream) : upstream[i] = 0 => i = Len(upstream)

LaptopInv == LaptopShapes /\ OutputInv /\ InputInv

\* What a step does to the streams.
OutputStep ==
    \A s \in {"out", "err"} :
        OneStep(emitted[s], emitted'[s], printed[s], printed'[s], LaptopEnd(s), LaptopEnd(s)')
InputStep == OneStep(typed, typed', inputTaken, inputTaken', inputEnd, inputEnd')

(* A step that leaves the output alone, or ends the program without an end of the
   tunnel. *)
LEMMA OutputRests ==
    ASSUME LaptopInv, UNCHANGED <<downstream, emitted, printed>>,
           \/ UNCHANGED ending /\ (phase' # "ended" => phase # "ended")
           \/ phase # "ended" /\ phase' = "ended" /\ ending' \in {"eof", "lost", "failed"}
    PROVE  OutputInv' /\ OutputStep
<1>1. OutputInv'
  BY DEF LaptopInv, OutputInv, OnItsWay
<1>2. OutputStep
  BY LaptopProxyAssumption DEF LaptopInv, OutputInv, OutputStep, OneStep, LaptopEnd
<1> QED
  BY <1>1, <1>2

(* A step that leaves the input alone.                                            *)
LEMMA InputRests ==
    ASSUME LaptopInv, UNCHANGED <<upstream, typed, inputTaken, inputEnd>>, phase' # "ended" => phase # "ended"
    PROVE  InputInv' /\ InputStep
BY DEF LaptopInv, InputInv, InputStep, OneStep

(* The far end sends a frame.                                                     *)
LEMMA FrameSent ==
    ASSUME LaptopInv, NEW f \in ProgramFrames, downstream' = Append(downstream, f), phase # "ended",
           UNCHANGED <<phase, ending, printed>>,
           \A i \in DOMAIN downstream : downstream[i].is = "chunk",
           \/ f.is = "chunk" /\ f.own /\ f.n = emitted[f.of] + 1 /\ emitted' = [emitted EXCEPT ![f.of] = @ + 1]
           \/ ~(f.is = "chunk" /\ f.own) /\ UNCHANGED emitted
    PROVE  /\ downstream' \in Seq(ProgramFrames) /\ emitted' \in [{"out", "err"} -> Nat]
           /\ OutputInv' /\ OutputStep
<1>1. /\ downstream \in Seq(ProgramFrames) /\ emitted \in [{"out", "err"} -> Nat] /\ f.of \in {"out", "err"}
      /\ printed \in [{"out", "err"} -> Seq(Nat)]
  BY DEF LaptopInv, LaptopShapes, ProgramFrames, Chunks, ProgramEnds
<1>2. /\ downstream' \in Seq(ProgramFrames) /\ Len(downstream') = Len(downstream) + 1 /\ Len(downstream) \in Nat
      /\ \A i \in 1 .. Len(downstream) : downstream'[i] = downstream[i] /\ downstream[i].is = "chunk"
  <2>1. DOMAIN downstream = 1 .. Len(downstream)
    BY <1>1, LenProperties
  <2>2. Append(downstream, f) \in Seq(ProgramFrames) /\ Len(Append(downstream, f)) = Len(downstream) + 1
        /\ Len(downstream) \in Nat /\ \A i \in 1 .. Len(downstream) : Append(downstream, f)[i] = downstream[i]
    <3>1. downstream \in Seq(ProgramFrames)
      BY <1>1
    <3> QED
      BY <3>1, AppendProperties, LenProperties
  <2> QED
    BY <2>1, <2>2
<1>3. emitted' \in [{"out", "err"} -> Nat]
  <2>1. UNCHANGED emitted \/ emitted' = [emitted EXCEPT ![f.of] = @ + 1]
    OBVIOUS
  <2>2. emitted[f.of] + 1 \in Nat
    BY <1>1
  <2> QED
    BY <1>1, <2>1, <2>2
<1>4. ASSUME NEW s \in {"out", "err"}
      PROVE  Chain(OnItsWay(downstream', s), Len(printed[s]), emitted'[s])
  <2>1. Chain(OnItsWay(downstream, s), Len(printed[s]), emitted[s])
    BY DEF LaptopInv, OutputInv
  <2>2. OnItsWay(downstream', s) = Append(OnItsWay(downstream, s), OutputOf(s)[f])
    <3>1. OutputOf(s) \in [ProgramFrames -> Nat]
      BY DEF OutputOf, ProgramFrames, Chunks, ProgramEnds
    <3> QED
      BY <1>1, <3>1, ViewGrows DEF OnItsWay
  <2>3. CASE f.is = "chunk" /\ f.own /\ f.of = s
    <3>1. OutputOf(s)[f] = emitted[s] + 1 /\ emitted'[s] = emitted[s] + 1
      BY <1>1, <2>3 DEF OutputOf
    <3> QED
      BY <2>1, <2>2, <3>1, ChainGrows
  <2>4. CASE ~(f.is = "chunk" /\ f.own /\ f.of = s)
    <3>1. OutputOf(s)[f] = 0 /\ emitted'[s] = emitted[s]
      BY <1>1, <2>4 DEF OutputOf
    <3> QED
      BY <2>1, <2>2, <3>1, ChainGrows
  <2> QED
    BY <2>3, <2>4
<1>5. \A i \in 1 .. Len(downstream') : EndsTunnel(downstream'[i]) => i = Len(downstream')
  BY <1>2 DEF EndsTunnel
<1>6. OutputInv'
  BY <1>4, <1>5 DEF LaptopInv, OutputInv, EndsTunnel
<1>7. OutputStep
  BY <1>1 DEF OutputStep, OneStep, LaptopEnd
<1> QED
  BY <1>2, <1>3, <1>6, <1>7

LEMMA FarEndSendsFrame ==
    ASSUME LaptopInv, NEW s \in {"out", "err"}, NEW own \in BOOLEAN, FarEndSends(s, own)
    PROVE  LaptopInv' /\ OutputStep /\ InputStep
<1>1. /\ phase = "streaming" /\ UNCHANGED <<phase, ending, upstream, printed, typed, inputTaken, inputEnd>>
      /\ \A i \in DOMAIN downstream : downstream[i].is = "chunk"
  BY DEF FarEndSends
<1>2. emitted \in [{"out", "err"} -> Nat]
  BY DEF LaptopInv, LaptopShapes
<1>3. PICK f \in ProgramFrames : f = [is |-> "chunk", of |-> s, own |-> own, n |-> emitted[s] + 1]
  <2>1. emitted[s] + 1 \in Nat \ {0}
    BY <1>2
  <2> QED
    BY <2>1 DEF ProgramFrames, Chunks, ProgramEnds
<1>4. /\ downstream' = Append(downstream, f)
      /\ \/ f.is = "chunk" /\ f.own /\ f.n = emitted[f.of] + 1 /\ emitted' = [emitted EXCEPT ![f.of] = @ + 1]
         \/ ~(f.is = "chunk" /\ f.own) /\ UNCHANGED emitted
  BY <1>3 DEF FarEndSends
<1>5. downstream' \in Seq(ProgramFrames) /\ emitted' \in [{"out", "err"} -> Nat] /\ OutputInv' /\ OutputStep
  BY <1>1, <1>4, FrameSent
<1>6. InputInv' /\ InputStep
  BY <1>1, InputRests
<1> QED
  BY <1>1, <1>5, <1>6 DEF LaptopInv, LaptopShapes

LEMMA FarEndSendsEnd ==
    ASSUME LaptopInv, NEW is \in {"empty", "exit", "error"}, FarEndEnds(is)
    PROVE  LaptopInv' /\ OutputStep /\ InputStep
<1>1. /\ phase = "streaming" /\ UNCHANGED <<phase, ending, upstream, emitted, printed, typed, inputTaken, inputEnd>>
      /\ \A i \in DOMAIN downstream : downstream[i].is = "chunk"
  BY DEF FarEndEnds
<1>2. PICK f \in ProgramFrames : f = [is |-> is, of |-> "out", own |-> TRUE, n |-> 0]
  BY DEF ProgramFrames, Chunks, ProgramEnds
<1>3. downstream' = Append(downstream, f) /\ f.is # "chunk"
  BY <1>2 DEF FarEndEnds
<1>4. downstream' \in Seq(ProgramFrames) /\ emitted' \in [{"out", "err"} -> Nat] /\ OutputInv' /\ OutputStep
  BY <1>1, <1>3, FrameSent
<1>5. InputInv' /\ InputStep
  BY <1>1, InputRests
<1> QED
  BY <1>1, <1>4, <1>5 DEF LaptopInv, LaptopShapes

(* The program takes a frame: it prints it, drops a stray one, or ends.           *)
LEMMA ProgramTakes ==
    ASSUME LaptopInv, TakeFrame
    PROVE  LaptopInv' /\ OutputStep /\ InputStep
<1> DEFINE f == Head(downstream)
<1>1. /\ phase = "streaming" /\ downstream # <<>> /\ downstream' = Tail(downstream)
      /\ UNCHANGED <<upstream, emitted, typed, inputTaken, inputEnd>>
      /\ downstream \in Seq(ProgramFrames) /\ printed \in [{"out", "err"} -> Seq(Nat)]
  BY DEF TakeFrame, LaptopInv, LaptopShapes
<1>2. /\ Tail(downstream) \in Seq(ProgramFrames) /\ Len(Tail(downstream)) = Len(downstream) - 1
      /\ Len(downstream) \in Nat \ {0} /\ f = downstream[1] /\ f \in ProgramFrames
      /\ \A i \in 1 .. Len(downstream') : downstream'[i] = downstream[i + 1] /\ i + 1 \in 1 .. Len(downstream)
  BY <1>1
<1>3. /\ ending = None /\ f.of \in {"out", "err"} /\ f.n \in Nat
      /\ \A s \in {"out", "err"} : LaptopEnd(s) = "open"
  <2>1. ending = None
    BY <1>1 DEF LaptopInv, OutputInv
  <2>2. f.of \in {"out", "err"} /\ f.n \in Nat
    <3>1. f \in ProgramFrames
      BY <1>2
    <3> HIDE DEF f
    <3>2. CASE f \in Chunks
      BY <3>2 DEF Chunks
    <3>3. CASE f \in ProgramEnds
      BY <3>3 DEF ProgramEnds
    <3> QED
      BY <3>1, <3>2, <3>3 DEF ProgramFrames
  <2> QED
    BY <2>1, <2>2, LaptopProxyAssumption DEF LaptopEnd
<1>4. ASSUME NEW s \in {"out", "err"}
      PROVE  /\ Chain(OnItsWay(downstream, s), Len(printed[s]), emitted[s])
             /\ ~(f.is = "chunk" /\ f.own /\ f.of = s)
                   => Chain(OnItsWay(downstream', s), Len(printed[s]), emitted[s])
             /\ (f.is = "chunk" /\ f.own /\ f.of = s)
                   => /\ f.n = Len(printed[s]) + 1 /\ Len(printed[s]) < emitted[s]
                      /\ Chain(OnItsWay(downstream', s), Len(printed[s]) + 1, emitted[s])
  <2>1. Chain(OnItsWay(downstream, s), Len(printed[s]), emitted[s])
    BY <1>1 DEF LaptopInv, OutputInv
  <2>2. /\ OnItsWay(downstream, s) # <<>> /\ OnItsWay(downstream', s) = Tail(OnItsWay(downstream, s))
        /\ Head(OnItsWay(downstream, s)) = OutputOf(s)[f]
    <3>1. OutputOf(s) \in [ProgramFrames -> Nat]
      BY DEF OutputOf, ProgramFrames, Chunks, ProgramEnds
    <3> QED
      BY <1>1, <3>1, ViewShrinks DEF OnItsWay
  <2>3. OutputOf(s)[f] = IF f.is = "chunk" /\ f.own /\ f.of = s THEN f.n ELSE 0
    BY <1>2 DEF OutputOf
  <2>4. f.is = "chunk" => f.n # 0
    BY <1>2 DEF ProgramFrames, Chunks, ProgramEnds
  <2> QED
    BY <2>1, <2>2, <2>3, <2>4, ChainShrinks
<1>5. \A i \in 1 .. Len(downstream') : EndsTunnel(downstream'[i]) => i = Len(downstream')
  <2> SUFFICES ASSUME NEW i \in 1 .. Len(downstream'), EndsTunnel(downstream'[i]) PROVE i = Len(downstream')
    OBVIOUS
  <2>1. i + 1 = Len(downstream)
    BY <1>1, <1>2 DEF LaptopInv, OutputInv, EndsTunnel
  <2>2. Len(downstream) \in Nat /\ Len(downstream') = Len(downstream) - 1 /\ i \in Nat
    BY <1>1, <1>2
  <2> HIDE DEF f
  <2> QED
    BY <2>1, <2>2
<1>6. CASE f.is = "chunk" /\ f.own
  <2>1. /\ printed' = [printed EXCEPT ![f.of] = Append(@, f.n)] /\ UNCHANGED <<phase, ending>>
    BY <1>6 DEF TakeFrame
  <2>2. /\ printed' \in [{"out", "err"} -> Seq(Nat)]
        /\ printed'[f.of] = Append(printed[f.of], f.n) /\ Len(printed'[f.of]) = Len(printed[f.of]) + 1
        /\ \A s \in {"out", "err"} : s # f.of => printed'[s] = printed[s]
    BY <1>1, <1>3, <2>1
  <2>3. ASSUME NEW s \in {"out", "err"}
        PROVE  Chain(OnItsWay(downstream', s), Len(printed'[s]), emitted'[s])
    <3>1. CASE s = f.of
      BY <1>1, <1>4, <1>6, <2>2, <3>1
    <3>2. CASE s # f.of
      BY <1>1, <1>4, <2>2, <3>2
    <3> QED
      BY <3>1, <3>2
  <2>4. OutputInv'
    BY <1>3, <1>5, <2>1, <2>3 DEF OutputInv, EndsTunnel
  <2>5. OutputStep
    <3> SUFFICES ASSUME NEW s \in {"out", "err"}
                 PROVE  OneStep(emitted[s], emitted'[s], printed[s], printed'[s], LaptopEnd(s), LaptopEnd(s)')
      BY DEF OutputStep
    <3>1. LaptopEnd(s)' = LaptopEnd(s) /\ LaptopEnd(s) = "open" /\ emitted'[s] = emitted[s]
      BY <1>1, <1>3, <2>1 DEF LaptopEnd
    <3>2. CASE s = f.of
      <4>1. f.n = Len(printed[s]) + 1 /\ Len(printed[s]) < emitted[s]
        BY <1>4, <1>6, <3>2
      <4> QED
        BY <2>2, <3>1, <3>2, <4>1 DEF OneStep
    <3>3. CASE s # f.of
      BY <2>2, <3>1, <3>3 DEF OneStep
    <3> QED
      BY <3>2, <3>3
  <2>6. InputInv' /\ InputStep
    BY <1>1, <2>1, InputRests
  <2> QED
    BY <1>1, <1>2, <2>2, <2>4, <2>5, <2>6 DEF LaptopInv, LaptopShapes
<1>7. CASE ~f.own
  <2>1. UNCHANGED <<phase, ending, printed>>
    <3>1. f.is = "chunk"
      BY <1>2, <1>7 DEF ProgramFrames, Chunks, ProgramEnds
    <3> QED
      BY <1>7, <3>1 DEF TakeFrame
  <2>2. \A s \in {"out", "err"} : Chain(OnItsWay(downstream', s), Len(printed'[s]), emitted'[s])
    BY <1>1, <1>4, <1>7, <2>1
  <2>3. OutputInv'
    BY <1>3, <1>5, <2>1, <2>2 DEF OutputInv, EndsTunnel
  <2>4. OutputStep
    BY <1>1, <2>1 DEF OutputStep, OneStep, LaptopEnd
  <2>5. InputInv' /\ InputStep
    BY <1>1, <2>1, InputRests
  <2> QED
    BY <1>1, <1>2, <2>1, <2>3, <2>4, <2>5 DEF LaptopInv, LaptopShapes
<1>8. CASE f.own /\ f.is # "chunk"
  <2>1. phase' = "ended" /\ ending' \in {"exit", "failed", "closed"} /\ UNCHANGED printed
    BY <1>8 DEF TakeFrame, EndWith
  <2>2. Len(downstream) = 1
    <3>1. 1 \in 1 .. Len(downstream) /\ EndsTunnel(downstream[1])
      BY <1>2, <1>8 DEF EndsTunnel
    <3> QED
      BY <1>1, <3>1 DEF LaptopInv, OutputInv
  <2>3. ASSUME NEW s \in {"out", "err"} PROVE Len(printed[s]) = emitted[s]
    <3>1. Chain(OnItsWay(downstream', s), Len(printed[s]), emitted[s])
      BY <1>4, <1>8
    <3>2. Len(OnItsWay(downstream', s)) = 0
      <4>1. Len(downstream') = 0
        BY <1>1, <1>2, <2>2
      <4>2. OutputOf(s) \in [ProgramFrames -> Nat]
        BY DEF OutputOf, ProgramFrames, Chunks, ProgramEnds
      <4>3. downstream' \in Seq(ProgramFrames) /\ f \in ProgramFrames
        BY <1>1, <1>2
      <4> HIDE DEF f
      <4> QED
        BY <4>1, <4>2, <4>3, ViewGrows DEF OnItsWay
    <3> QED
      BY <3>1, <3>2, ChainDone
  <2>4. OutputInv'
    BY <2>1 DEF OutputInv
  <2>5. OutputStep
    <3> SUFFICES ASSUME NEW s \in {"out", "err"}
                 PROVE  OneStep(emitted[s], emitted'[s], printed[s], printed'[s], LaptopEnd(s), LaptopEnd(s)')
      BY DEF OutputStep
    <3>1. LaptopEnd(s) = "open" /\ LaptopEnd(s)' \in {"finished", "cut"}
      BY <1>3, <2>1, LaptopProxyAssumption DEF LaptopEnd
    <3> QED
      BY <1>1, <2>1, <2>3, <3>1 DEF OneStep
  <2>6. InputInv' /\ InputStep
    BY <1>1, <2>1, InputRests
  <2> QED
    BY <1>1, <1>2, <2>1, <2>4, <2>5, <2>6 DEF LaptopInv, LaptopShapes
<1> QED
  BY <1>6, <1>7, <1>8

(* The program ends, or its connection does.                                      *)
LEMMA TunnelSetUp ==
    ASSUME LaptopInv, SetUpTunnel
    PROVE  LaptopInv' /\ OutputStep /\ InputStep
<1>1. /\ UNCHANGED <<downstream, upstream, emitted, printed, typed, inputTaken, inputEnd>> /\ phase # "ended"
      /\ \/ UNCHANGED ending
         \/ phase' = "ended" /\ ending' = "failed"
  BY DEF SetUpTunnel, EndWith, Advances
<1>2. OutputInv' /\ OutputStep /\ InputInv' /\ InputStep
  BY <1>1, OutputRests, InputRests
<1> QED
  BY <1>1, <1>2 DEF LaptopInv, LaptopShapes

LEMMA RelayGone ==
    ASSUME LaptopInv, RelayEnds
    PROVE  LaptopInv' /\ OutputStep /\ InputStep
<1>1. /\ phase = "streaming" /\ phase' = "ended" /\ ending' \in {"failed", "lost"}
      /\ downstream' = <<>> /\ upstream' = <<>> /\ inputEnd' = "cut"
      /\ UNCHANGED <<emitted, printed, typed, inputTaken>>
  BY DEF RelayEnds, EndWith
<1>2. LaptopShapes'
  BY <1>1 DEF LaptopInv, LaptopShapes
<1>3. OutputInv' /\ InputInv' /\ InputStep
  BY <1>1 DEF LaptopInv, OutputInv, InputInv, InputStep, OneStep
<1>4. OutputStep
  BY <1>1, LaptopProxyAssumption DEF LaptopInv, OutputInv, OutputStep, OneStep, LaptopEnd
<1> QED
  BY <1>2, <1>3, <1>4 DEF LaptopInv

LEMMA WriteGone ==
    ASSUME LaptopInv, WriteFails
    PROVE  LaptopInv' /\ OutputStep /\ InputStep
<1>1. /\ UNCHANGED <<downstream, upstream, emitted, printed, typed, inputTaken, inputEnd>> /\ phase = "streaming"
      /\ phase' = "ended" /\ ending' = "failed"
  BY DEF WriteFails, EndWith
<1>2. OutputInv' /\ OutputStep /\ InputInv' /\ InputStep
  BY <1>1, OutputRests, InputRests
<1> QED
  BY <1>1, <1>2 DEF LaptopInv, LaptopShapes

(* The input is read, ends, and is taken by the far end.                          *)
LEMMA InputRead ==
    ASSUME LaptopInv, ReadInput
    PROVE  LaptopInv' /\ OutputStep /\ InputStep
<1>1. /\ phase = "streaming" /\ typed' = typed + 1 /\ upstream' = Append(upstream, typed + 1)
      /\ UNCHANGED <<phase, ending, downstream, emitted, printed, inputTaken, inputEnd>>
  BY DEF ReadInput
<1>2. upstream \in Seq(Nat) /\ typed \in Nat /\ typed' \in Nat /\ inputEnd = "open" /\ Chain(upstream, Len(inputTaken), typed)
  BY <1>1 DEF LaptopInv, LaptopShapes, InputInv
<1>3. /\ upstream' \in Seq(Nat) /\ Len(upstream') = Len(upstream) + 1 /\ Len(upstream) \in Nat
      /\ \A i \in 1 .. Len(upstream) : upstream'[i] = upstream[i]
      /\ upstream'[Len(upstream) + 1] = typed + 1
  <2>1. typed + 1 \in Nat
    BY <1>2
  <2> QED
    BY <1>1, <1>2, <2>1, AppendProperties, LenProperties
<1>4. Chain(upstream', Len(inputTaken), typed')
  BY <1>1, <1>2, ChainGrows
<1>5. \A i \in 1 .. Len(upstream') : upstream'[i] # 0
  <2>1. \A i \in 1 .. Len(upstream) : upstream[i] # 0
    BY <1>1 DEF LaptopInv, InputInv
  <2>2. \A i \in 1 .. Len(upstream') : i \in 1 .. Len(upstream) \/ i = Len(upstream) + 1
    BY <1>3
  <2>3. typed + 1 # 0
    BY <1>2
  <2> QED
    BY <1>3, <2>1, <2>2, <2>3
<1>6. InputInv' /\ InputStep
  BY <1>1, <1>2, <1>4, <1>5 DEF InputInv, InputStep, OneStep
<1>7. OutputInv' /\ OutputStep
  BY <1>1, OutputRests
<1> QED
  BY <1>1, <1>2, <1>3, <1>6, <1>7 DEF LaptopInv, LaptopShapes

LEMMA InputDone ==
    ASSUME LaptopInv, InputEnds
    PROVE  LaptopInv' /\ OutputStep /\ InputStep
<1>1. /\ phase = "streaming" /\ phase' = "ended" /\ ending' = "eof" /\ upstream' = Append(upstream, 0)
      /\ UNCHANGED <<downstream, emitted, printed, typed, inputTaken, inputEnd>>
  BY DEF InputEnds, EndWith
<1>2. upstream \in Seq(Nat) /\ inputEnd = "open" /\ Chain(upstream, Len(inputTaken), typed)
  BY <1>1 DEF LaptopInv, LaptopShapes, InputInv
<1>3. /\ upstream' \in Seq(Nat) /\ Len(upstream') = Len(upstream) + 1 /\ Len(upstream) \in Nat
      /\ \A i \in 1 .. Len(upstream) : upstream'[i] = upstream[i]
  BY <1>1, <1>2, AppendProperties, LenProperties
<1>4. Chain(upstream', Len(inputTaken), typed)
  BY <1>1, <1>2, ChainGrows
<1>5. \A i \in 1 .. Len(upstream') : upstream'[i] = 0 => i = Len(upstream')
  <2>1. \A i \in 1 .. Len(upstream) : upstream[i] # 0
    BY <1>1 DEF LaptopInv, InputInv
  <2>2. \A i \in 1 .. Len(upstream') : i \in 1 .. Len(upstream) \/ i = Len(upstream')
    BY <1>3
  <2> QED
    BY <1>3, <2>1, <2>2
<1>6. InputInv' /\ InputStep
  BY <1>1, <1>2, <1>4, <1>5 DEF InputInv, InputStep, OneStep
<1>7. OutputInv' /\ OutputStep
  BY <1>1, OutputRests
<1> QED
  BY <1>1, <1>3, <1>6, <1>7 DEF LaptopInv, LaptopShapes

LEMMA InputTaken ==
    ASSUME LaptopInv, FarEndTakes
    PROVE  LaptopInv' /\ OutputStep /\ InputStep
<1>1. /\ upstream # <<>> /\ inputEnd = "open" /\ upstream' = Tail(upstream)
      /\ UNCHANGED <<phase, ending, downstream, emitted, printed, typed>>
      /\ upstream \in Seq(Nat) /\ inputTaken \in Seq(Nat) /\ Chain(upstream, Len(inputTaken), typed)
      /\ \A i \in 1 .. Len(upstream) : upstream[i] = 0 => i = Len(upstream)
      /\ phase # "ended" => \A i \in 1 .. Len(upstream) : upstream[i] # 0
  BY DEF FarEndTakes, LaptopInv, LaptopShapes, InputInv
<1>2. /\ upstream' \in Seq(Nat) /\ Len(upstream') = Len(upstream) - 1 /\ Len(upstream) \in Nat \ {0}
      /\ Head(upstream) = upstream[1] /\ 1 \in 1 .. Len(upstream) /\ upstream[1] \in Nat
      /\ \A i \in 1 .. Len(upstream') : upstream'[i] = upstream[i + 1] /\ i + 1 \in 1 .. Len(upstream)
  BY <1>1
<1>3. OutputInv' /\ OutputStep
  BY <1>1, OutputRests
<1>4. CASE Head(upstream) = 0
  <2>1. inputEnd' = "finished" /\ UNCHANGED inputTaken
    BY <1>4 DEF FarEndTakes
  <2>2. Len(upstream') = 0 /\ phase = "ended"
    <3>1. 1 \in 1 .. Len(upstream) /\ upstream[1] = 0
      BY <1>2, <1>4
    <3>2. Len(upstream) = 1 /\ phase = "ended"
      BY <1>1, <3>1
    <3>3. Len(upstream') = Len(upstream) - 1
      BY <1>2
    <3> QED
      BY <3>2, <3>3
  <2>3. Chain(upstream', Len(inputTaken), typed)
    BY <1>1, <1>4, ChainShrinks
  <2>4. Len(inputTaken) = typed
    BY <2>2, <2>3, ChainDone
  <2>5. InputInv' /\ InputStep
    BY <1>1, <2>1, <2>2, <2>4 DEF InputInv, InputStep, OneStep
  <2> QED
    BY <1>1, <1>2, <1>3, <2>1, <2>5 DEF LaptopInv, LaptopShapes
<1>5. CASE Head(upstream) # 0
  <2>1. inputTaken' = Append(inputTaken, Head(upstream)) /\ UNCHANGED inputEnd
    BY <1>5 DEF FarEndTakes
  <2>2. /\ Head(upstream) = Len(inputTaken) + 1 /\ Len(inputTaken) < typed
        /\ Chain(upstream', Len(inputTaken) + 1, typed)
    BY <1>1, <1>5, ChainShrinks
  <2>3. inputTaken' \in Seq(Nat) /\ Len(inputTaken') = Len(inputTaken) + 1
    <3>1. Head(upstream) \in Nat /\ inputTaken \in Seq(Nat)
      BY <1>1, <1>2
    <3> QED
      BY <2>1, <3>1, AppendProperties
  <2>4. /\ \A i \in 1 .. Len(upstream') : upstream'[i] = 0 => i = Len(upstream')
        /\ phase # "ended" => \A i \in 1 .. Len(upstream') : upstream'[i] # 0
    <3>1. ASSUME NEW i \in 1 .. Len(upstream'), upstream'[i] = 0 PROVE i = Len(upstream') /\ phase = "ended"
      <4>1. i + 1 \in 1 .. Len(upstream) /\ upstream[i + 1] = 0
        BY <1>2, <3>1
      <4>2. i + 1 = Len(upstream) /\ phase = "ended"
        BY <1>1, <4>1
      <4>3. Len(upstream') = Len(upstream) - 1 /\ i \in Nat /\ Len(upstream) \in Nat
        BY <1>2
      <4> QED
        BY <4>2, <4>3
    <3> QED
      BY <3>1
  <2>5. InputStep
    BY <1>1, <2>1, <2>2 DEF InputStep, OneStep
  <2>6. InputInv'
    BY <1>1, <2>1, <2>2, <2>3, <2>4 DEF InputInv
  <2> QED
    BY <1>1, <1>2, <1>3, <2>1, <2>3, <2>5, <2>6 DEF LaptopInv, LaptopShapes
<1> QED
  BY <1>4, <1>5

(* All of it holds at the start.                                                  *)
LEMMA LaptopBegins == LaptopInit => LaptopInv /\ LaptopCarried!StreamInit
<1> SUFFICES ASSUME LaptopInit PROVE LaptopInv /\ LaptopCarried!StreamInit
  OBVIOUS
<1>1. LaptopShapes
  BY DEF LaptopInit, LaptopShapes
<1>2. OutputInv
  <2>1. ASSUME NEW s \in {"out", "err"} PROVE Chain(OnItsWay(downstream, s), Len(printed[s]), emitted[s])
    <3>1. OnItsWay(downstream, s) = <<>> /\ Len(printed[s]) = 0 /\ emitted[s] = 0
      BY DEF LaptopInit, OnItsWay, View
    <3> QED
      BY <3>1, ChainEmpty
  <2> QED
    BY <2>1 DEF LaptopInit, OutputInv
<1>3. InputInv
  <2>1. Chain(upstream, Len(inputTaken), typed)
    BY ChainEmpty DEF LaptopInit
  <2> QED
    BY <2>1 DEF LaptopInit, InputInv
<1>4. LaptopCarried!StreamInit
  BY LaptopProxyAssumption DEF LaptopInit, LaptopStreams, LaptopCarried!StreamInit
<1> QED
  BY <1>1, <1>2, <1>3, <1>4 DEF LaptopInv

(* Every step keeps the invariant, and does to a stream only what a stream allows. *)
LEMMA LaptopSteps == LaptopInv /\ [LaptopNext]_laptopVars => LaptopInv' /\ OutputStep /\ InputStep
<1> SUFFICES ASSUME LaptopInv, [LaptopNext]_laptopVars PROVE LaptopInv' /\ OutputStep /\ InputStep
  OBVIOUS
<1>1. ASSUME UNCHANGED carryVars PROVE LaptopInv' /\ OutputStep /\ InputStep
  <2>1. UNCHANGED <<phase, ending, downstream, upstream, emitted, printed, typed, inputTaken, inputEnd>>
    BY <1>1 DEF carryVars
  <2>2. OutputInv' /\ OutputStep /\ InputInv' /\ InputStep
    BY <2>1, OutputRests, InputRests
  <2> QED
    BY <2>1, <2>2 DEF LaptopInv, LaptopShapes
<1>2. CASE SyncNext
  <2>1. UNCHANGED carryVars
    BY <1>2 DEF SyncNext, EnrollLaptop, FleetChanges, UserWrites, StartSync, WriteKnownHosts, WriteSshConfig, ReadLines
  <2> QED
    BY <1>1, <2>1
<1>3. CASE UNCHANGED laptopVars
  BY <1>1, <1>3 DEF laptopVars
<1>4. CASE CarryNext
  BY <1>4, TunnelSetUp, RelayGone, ProgramTakes, WriteGone, InputRead, InputDone, InputTaken,
     FarEndSendsFrame, FarEndSendsEnd DEF CarryNext
<1> QED
  BY <1>2, <1>3, <1>4 DEF LaptopNext

(* The programs of a laptop implement TunnelStream: what connect and dev-exec write
   is in order and without a gap, and finished only if all of it was written when the
   far end closed the tunnel, or the exit code came; so is the input on its way up. *)
THEOREM LaptopKeepsStreams == LaptopSpec => LaptopStreamsKept
<1>1. OutputStep /\ InputStep => [LaptopCarried!StreamNext]_(LaptopCarried!streamVars)
  <2> SUFFICES ASSUME OutputStep, InputStep PROVE LaptopCarried!StreamNext
    OBVIOUS
  <2>1. ASSUME NEW s \in LaptopStreams
        PROVE  \/ LaptopCarried!Send(s) \/ LaptopCarried!Receive(s) \/ LaptopCarried!FinishStream(s)
               \/ LaptopCarried!Cut(s) \/ LaptopCarried!Rest(s)
    <3>1. CASE s = "in"
      BY <3>1 DEF InputStep, OneStep, LaptopStreams, LaptopCarried!Send, LaptopCarried!Receive,
                  LaptopCarried!FinishStream, LaptopCarried!Cut, LaptopCarried!Rest, LaptopCarried!Keeps
    <3>2. CASE s \in {"out", "err"}
      <4>1. OneStep(emitted[s], emitted'[s], printed[s], printed'[s], LaptopEnd(s), LaptopEnd(s)')
        BY <3>2 DEF OutputStep
      <4> QED
        BY <3>2, <4>1 DEF OneStep, LaptopEnd, LaptopStreams, LaptopCarried!Send, LaptopCarried!Receive,
                  LaptopCarried!FinishStream, LaptopCarried!Cut, LaptopCarried!Rest, LaptopCarried!Keeps
    <3> QED
      BY <3>1, <3>2 DEF LaptopStreams
  <2> QED
    BY <2>1 DEF LaptopCarried!StreamNext
<1> QED
  BY <1>1, LaptopBegins, LaptopSteps, PTL DEF LaptopSpec, LaptopStreamsKept, LaptopCarried!StreamSpec

(* The types of the programs.                                                     *)
BeforeTunnel == {"dialing", "endpoints", "opening", "requesting"}
SyncLabels == {"idle", "known", "known-read", "config", "config-read"}
IsSync(r) == DOMAIN r = {"at", "fleet", "lines"} /\ r.at \in SyncLabels

LaptopTypes ==
    /\ phase \in BeforeTunnel \cup {"streaming", "ended"}
    /\ ending = None <=> phase # "ended"
    /\ phase \in BeforeTunnel => typed = 0 /\ \A s \in {"out", "err"} : printed[s] = <<>>
    /\ downstream \in Seq(HostFrames)
    /\ DOMAIN syncs = Syncs /\ \A p \in Syncs : IsSync(syncs[p])

(* What a program does leaves the syncs alone, and a sync the programs.           *)
LEMMA LaptopTypesStep == LaptopInv /\ LaptopTypes /\ [LaptopNext]_laptopVars => LaptopTypes'
<1> SUFFICES ASSUME LaptopInv, LaptopTypes, [LaptopNext]_laptopVars PROVE LaptopTypes'
  OBVIOUS
<1>1. MaxLaptopChunks \in Nat /\ None \notin {"closed", "eof", "lost", "failed", "exit"}
  BY LaptopProxyAssumption
<1>2. CASE CarryNext
  <2>1. UNCHANGED syncs
    BY <1>2 DEF CarryNext, SetUpTunnel, RelayEnds, TakeFrame, WriteFails, ReadInput, InputEnds, FarEndTakes,
                FarEndSends, FarEndEnds, syncVars
  <2>2. CASE SetUpTunnel
    <3>1. UNCHANGED <<downstream, printed, typed>> /\ phase \in BeforeTunnel
      BY <2>2 DEF SetUpTunnel, BeforeTunnel
    <3>2. \/ phase' = "ended" /\ ending' = "failed"
          \/ phase' \in BeforeTunnel \cup {"streaming"} /\ ending' = ending
      <4>1. CASE EndWith("failed")
        BY <4>1 DEF EndWith
      <4>2. CASE Advances
        <5>1. ending' = ending
          BY <4>2 DEF Advances
        <5>2. phase' \in {"endpoints", "opening", "requesting", "streaming"}
          BY <3>1, <4>2 DEF Advances, BeforeTunnel
        <5> QED
          BY <5>1, <5>2 DEF BeforeTunnel
      <4> QED
        BY <2>2, <4>1, <4>2 DEF SetUpTunnel
    <3> QED
      BY <1>1, <2>1, <3>1, <3>2 DEF LaptopTypes, BeforeTunnel
  <2>3. ASSUME phase = "streaming", downstream' \in Seq(HostFrames),
               \/ UNCHANGED <<phase, ending>>
               \/ phase' = "ended" /\ ending' \in {"closed", "eof", "lost", "failed", "exit"}
        PROVE  LaptopTypes'
    BY <1>1, <2>1, <2>3 DEF LaptopTypes, BeforeTunnel
  <2>4. /\ downstream \in Seq(HostFrames) /\ <<>> \in Seq(HostFrames)
        /\ downstream # <<>> => Tail(downstream) \in Seq(HostFrames)
    BY EmptySeq DEF LaptopTypes
  <2>5. CASE RelayEnds
    BY <2>3, <2>4, <2>5 DEF RelayEnds, EndWith
  <2>6. CASE TakeFrame
    <3>1. \/ UNCHANGED <<phase, ending>>
          \/ phase' = "ended" /\ ending' \in {"closed", "eof", "lost", "failed", "exit"}
      BY <2>6 DEF TakeFrame, EndWith
    <3> QED
      BY <2>3, <2>4, <2>6, <3>1 DEF TakeFrame
  <2>7. CASE WriteFails \/ ReadInput \/ InputEnds
    BY <2>3, <2>4, <2>7 DEF WriteFails, ReadInput, InputEnds, EndWith
  <2>8. CASE FarEndTakes
    BY <2>1, <2>8 DEF FarEndTakes, LaptopTypes
  <2>9. ASSUME NEW s \in {"out", "err"}, NEW own \in BOOLEAN, FarEndSends(s, own) PROVE LaptopTypes'
    <3> DEFINE f == [is |-> "chunk", of |-> s, own |-> own, n |-> emitted[s] + 1]
    <3>1. emitted[s] \in Nat /\ emitted[s] < MaxLaptopChunks
      BY <2>9 DEF FarEndSends, LaptopInv, LaptopShapes
    <3>2. f \in HostFrames
      BY <1>1, <3>1 DEF HostFrames
    <3>3. Append(downstream, f) \in Seq(HostFrames)
      BY <2>4, <3>2, AppendProperties
    <3> QED
      BY <2>3, <2>9, <3>3 DEF FarEndSends
  <2>10. ASSUME NEW is \in {"empty", "exit", "error"}, FarEndEnds(is) PROVE LaptopTypes'
    <3> DEFINE f == [is |-> is, of |-> "out", own |-> TRUE, n |-> 0]
    <3>1. f \in HostFrames
      BY <1>1 DEF HostFrames
    <3>2. Append(downstream, f) \in Seq(HostFrames)
      BY <2>4, <3>1, AppendProperties
    <3> QED
      BY <2>3, <2>10, <3>2 DEF FarEndEnds
  <2> QED
    BY <1>2, <2>2, <2>5, <2>6, <2>7, <2>8, <2>9, <2>10 DEF CarryNext
<1>3. CASE SyncNext
  <2>1. UNCHANGED <<phase, ending, typed, printed, downstream>>
    BY <1>3 DEF SyncNext, EnrollLaptop, FleetChanges, UserWrites, StartSync, WriteKnownHosts, WriteSshConfig,
                ReadLines, carryVars
  <2>2. IsSync(Idle)
    BY DEF Idle, IsSync, SyncLabels
  <2>3. ASSUME NEW p \in Syncs, NEW r, IsSync(r), syncs' = [syncs EXCEPT ![p] = r] PROVE LaptopTypes'
    BY <2>1, <2>3 DEF LaptopTypes
  <2>4. \A p \in Syncs : IsSync(syncs[p])
    BY DEF LaptopTypes
  <2>5. ASSUME NEW p \in Syncs, StartSync(p) PROVE LaptopTypes'
    <3> DEFINE r == [syncs[p] EXCEPT !.at = "known", !.fleet = fleet]
    <3>1. IsSync(r) /\ syncs' = [syncs EXCEPT ![p] = r]
      BY <2>4, <2>5 DEF StartSync, IsSync, SyncLabels
    <3> QED
      BY <2>3, <3>1
  <2>6. ASSUME NEW p \in Syncs, NEW from, NEW to \in SyncLabels, NEW lines, ReadLines(p, from, to, lines)
        PROVE  LaptopTypes'
    <3>1. PICK read : syncs' = [syncs EXCEPT ![p] = [syncs[p] EXCEPT !.at = to, !.lines = read]]
      BY <2>6 DEF ReadLines
    <3> DEFINE r == [syncs[p] EXCEPT !.at = to, !.lines = read]
    <3>2. IsSync(r)
      BY <2>4 DEF IsSync
    <3> QED
      BY <2>3, <3>1, <3>2
  <2>7. ASSUME NEW p \in Syncs, WriteKnownHosts(p) PROVE LaptopTypes'
    <3> DEFINE r == [syncs[p] EXCEPT !.at = "config", !.lines = <<>>]
    <3>1. syncs' = [syncs EXCEPT ![p] = r] \/ syncs' = [syncs EXCEPT ![p] = Idle]
      BY <2>7 DEF WriteKnownHosts
    <3>2. IsSync(r)
      BY <2>4 DEF IsSync, SyncLabels
    <3> HIDE DEF r
    <3> QED
      BY <2>2, <2>3, <3>1, <3>2
  <2>8. ASSUME NEW p \in Syncs, WriteSshConfig(p) PROVE LaptopTypes'
    BY <2>2, <2>3, <2>8 DEF WriteSshConfig
  <2>9. ASSUME UNCHANGED syncs PROVE LaptopTypes'
    BY <2>1, <2>9 DEF LaptopTypes
  <2>10. CASE \/ EnrollLaptop \/ \E hosts \in SUBSET Hosts : FleetChanges(hosts)
              \/ \E file \in {"known", "config"} : UserWrites(file)
    BY <2>9, <2>10 DEF EnrollLaptop, FleetChanges, UserWrites
  <2>11. "known-read" \in SyncLabels /\ "config-read" \in SyncLabels
    BY DEF SyncLabels
  <2> QED
    BY <1>3, <2>5, <2>6, <2>7, <2>8, <2>10, <2>11 DEF SyncNext
<1>4. CASE UNCHANGED laptopVars
  BY <1>4 DEF laptopVars, carryVars, syncVars, LaptopTypes
<1> QED
  BY <1>2, <1>3, <1>4 DEF LaptopNext

(* The phase of a program, what it has carried and its syncs keep their types:    *)
(* nothing is read from the input or printed before the tunnel is open, and a     *)
(* program that has ended knows how.                                              *)
THEOREM LaptopTypeCorrect == LaptopSpec => []LaptopTypeOK
<1>1. LaptopInit => LaptopInv
  BY LaptopBegins
<1>2. LaptopInit => LaptopTypes
  BY EmptySeq, LaptopProxyAssumption DEF LaptopInit, LaptopTypes, BeforeTunnel, Idle, IsSync, SyncLabels
<1>3. LaptopInv /\ [LaptopNext]_laptopVars => LaptopInv'
  BY LaptopSteps
<1>4. LaptopInv /\ LaptopTypes => LaptopTypeOK
  <2> SUFFICES ASSUME LaptopInv, LaptopTypes PROVE LaptopTypeOK
    OBVIOUS
  <2>1. \A i \in DOMAIN downstream : downstream[i] \in HostFrames
    BY ElementOfSeq, LenProperties DEF LaptopTypes
  <2>2. (ending = None) = (phase # "ended")
    BY DEF LaptopTypes
  <2> QED
    BY <2>1, <2>2 DEF LaptopInv, LaptopShapes, LaptopTypes, LaptopTypeOK, BeforeTunnel, IsSync, SyncLabels
<1> QED
  BY <1>1, <1>2, <1>3, <1>4, LaptopTypesStep, PTL DEF LaptopSpec


-------------------------------------------------------------------------------
(* The lines of known_hosts and config, which choosh and the user share.        *)

(* A finite set of numbers has an ascending enumeration, and InOrder is one.       *)
LEMMA Ordered ==
    ASSUME NEW S \in SUBSET Nat, IsFiniteSet(S)
    PROVE  /\ Cardinality(S) \in Nat
           /\ InOrder(S) \in [1 .. Cardinality(S) -> S]
           /\ \A i, j \in 1 .. Cardinality(S) : i < j => InOrder(S)[i] < InOrder(S)[j]
           /\ \A x \in S : \E i \in 1 .. Cardinality(S) : InOrder(S)[i] = x
<1> DEFINE n == Cardinality(S)
           UpTo(x) == {y \in S : y <= x}
           rank == [x \in S |-> Cardinality(UpTo(x))]
           Ascends(f) == \A i, j \in 1 .. n : i < j => f[i] < f[j]
<1>1. n \in Nat /\ IsFiniteSet(1 .. n) /\ Cardinality(1 .. n) = n
  BY FS_CardinalityType, FS_Interval
<1>2. \A x \in S : rank[x] \in 1 .. n
  <2> SUFFICES ASSUME NEW x \in S PROVE rank[x] \in 1 .. n
    OBVIOUS
  <2>1. IsFiniteSet(UpTo(x)) /\ Cardinality(UpTo(x)) <= n
    BY FS_Subset
  <2>2. Cardinality(UpTo(x)) \in Nat /\ UpTo(x) # {}
    BY <2>1, FS_CardinalityType
  <2>3. Cardinality(UpTo(x)) # 0
    BY <2>1, <2>2, FS_EmptySet
  <2> QED
    BY <1>1, <2>1, <2>2, <2>3
<1>3. \A x, y \in S : x < y => rank[x] < rank[y]
  <2> SUFFICES ASSUME NEW x \in S, NEW y \in S, x < y PROVE rank[x] < rank[y]
    OBVIOUS
  <2>1. IsFiniteSet(UpTo(y)) /\ IsFiniteSet(UpTo(x))
    BY FS_Subset
  <2>2. UpTo(x) \in SUBSET UpTo(y) /\ UpTo(x) # UpTo(y)
    <3>1. x \in Nat /\ y \in Nat /\ y \in UpTo(y) /\ y \notin UpTo(x)
      OBVIOUS
    <3>2. \A z \in Nat : z <= x => z <= y
      BY <3>1
    <3> QED
      BY <3>1, <3>2
  <2>3. Cardinality(UpTo(x)) <= Cardinality(UpTo(y)) /\ Cardinality(UpTo(x)) # Cardinality(UpTo(y))
    BY <2>1, <2>2, FS_Subset
  <2> QED
    BY <1>2, <2>3
<1>4. rank \in Injection(S, 1 .. n)
  <2>1. rank \in [S -> 1 .. n]
    BY <1>2
  <2>2. \A x, y \in S : rank[x] = rank[y] => x = y
    <3> SUFFICES ASSUME NEW x \in S, NEW y \in S, rank[x] = rank[y] PROVE x = y
      OBVIOUS
    <3> HIDE DEF rank, n
    <3>1. x \in Nat /\ y \in Nat /\ rank[x] \in Nat /\ ~(x < y) /\ ~(y < x)
      BY <1>1, <1>2, <1>3
    <3> QED
      BY <3>1
  <2> HIDE DEF rank
  <2> QED
    BY <2>1, <2>2, Fun_IsInj
<1>5. \A i \in 1 .. n : \E x \in S : rank[x] = i
  <2> HIDE DEF rank
  <2>1. rank \in Surjection(S, 1 .. n)
    BY <1>1, <1>4, FS_Injection
  <2> QED
    BY <2>1, Fun_SurjectionProperties
<1>6. \E f \in [1 .. n -> S] : Ascends(f)
  <2> DEFINE f == [i \in 1 .. n |-> CHOOSE x \in S : rank[x] = i]
  <2> HIDE DEF rank
  <2>1. \A i \in 1 .. n : f[i] \in S /\ rank[f[i]] = i
    BY <1>5
  <2> HIDE DEF f
  <2>2. ASSUME NEW i \in 1 .. n, NEW j \in 1 .. n, i < j PROVE f[i] < f[j]
    <3>0. f[i] \in S /\ f[j] \in S
      BY <2>1
    <3>1. f[i] \in Nat /\ f[j] \in Nat
      BY <3>0
    <3>3. i \in Nat /\ j \in Nat
      BY <1>1
    <3>2. ~(f[j] < f[i]) /\ f[i] # f[j]
      BY <1>3, <2>1, <2>2, <3>0, <3>1, <3>3
    <3> QED
      BY <3>1, <3>2
  <2>3. f \in [1 .. n -> S] /\ Ascends(f)
    BY <2>1, <2>2 DEF f
  <2> QED
    BY <2>3
<1>7. InOrder(S) \in [1 .. n -> S] /\ Ascends(InOrder(S))
  BY <1>6 DEF InOrder
<1>8. \A x \in S : \E i \in 1 .. n : InOrder(S)[i] = x
  <2> DEFINE f == InOrder(S)
  <2>1. f \in [1 .. n -> S] /\ \A i, j \in 1 .. n : i < j => f[i] < f[j]
    BY <1>7
  <2> HIDE DEF f
  <2>2. \A i, j \in 1 .. n : f[i] = f[j] => i = j
    <3> SUFFICES ASSUME NEW i \in 1 .. n, NEW j \in 1 .. n, f[i] = f[j] PROVE i = j
      OBVIOUS
    <3>1. f[i] \in S
      BY <2>1
    <3>2. f[i] \in Nat
      BY <3>1
    <3>3. i \in Nat /\ j \in Nat
      BY <1>1
    <3> QED
      BY <2>1, <3>2, <3>3
  <2>3. f \in Injection(1 .. n, S)
    BY <2>1, <2>2, Fun_IsInj
  <2>4. f \in Surjection(1 .. n, S)
    BY <1>1, <2>3, FS_Injection
  <2>5. \A x \in S : \E i \in 1 .. n : f[i] = x
    BY <2>4 DEF Surjection
  <2> QED
    BY <2>5 DEF f
<1> QED
  BY <1>1, <1>7, <1>8

FileLines == [kind : {"own", "host", "begin", "end", "blank"}, n : Nat]
OwnAt(lines, i) == lines[i].kind = "own"
HostAt(lines, i) == lines[i].kind = "host"

(* The user's lines are those up to n, in their order, and no host is there twice.  *)
OwnKept(lines, n) ==
    /\ lines \in Seq(FileLines)
    /\ \A i \in 1 .. Len(lines) : OwnAt(lines, i) => lines[i].n \in 1 .. n
    /\ \A m \in 1 .. n : \E i \in 1 .. Len(lines) : OwnAt(lines, i) /\ lines[i].n = m
    /\ \A i, j \in 1 .. Len(lines) : OwnAt(lines, i) /\ OwnAt(lines, j) /\ i < j => lines[i].n < lines[j].n
    /\ \A i, j \in 1 .. Len(lines) : HostAt(lines, i) /\ lines[i] = lines[j] => i = j

(* known_hosts holds nothing else.                                                  *)
KnownOK(lines, n) ==
    /\ OwnKept(lines, n)
    /\ \A i \in 1 .. Len(lines) : OwnAt(lines, i) \/ HostAt(lines, i)

(* The region of the fleet is between the markers at b and e, and nothing of the    *)
(* user's is in it.                                                                 *)
RegionAt(lines, b, e) ==
    /\ b < e
    /\ \A i \in 1 .. Len(lines) :
          /\ lines[i] = Line("begin", 0) <=> i = b
          /\ lines[i] = Line("end", 0) <=> i = e
          /\ HostAt(lines, i) <=> b < i /\ i < e

ConfigOK(lines, n) ==
    /\ OwnKept(lines, n)
    /\ \/ \A i \in 1 .. Len(lines) : OwnAt(lines, i)
       \/ \E b, e \in 1 .. Len(lines) : RegionAt(lines, b, e)

LEMMA LineIs ==
    ASSUME NEW k \in {"own", "host", "begin", "end", "blank"}, NEW m \in Nat
    PROVE  Line(k, m) \in FileLines /\ Line(k, m).kind = k /\ Line(k, m).n = m
BY DEF Line, FileLines

LEMMA LinesAre ==
    ASSUME NEW n \in Nat, NEW f, DOMAIN f = 1 .. n, \A i \in 1 .. n : f[i] \in FileLines, f = [i \in 1 .. n |-> f[i]]
    PROVE  f \in Seq(FileLines) /\ Len(f) = n
<1>1. f \in [1 .. n -> FileLines]
  OBVIOUS
<1>2. f \in Seq(FileLines)
  BY <1>1, SeqDef, Zenon
<1>3. DOMAIN f = 1 .. Len(f) /\ Len(f) \in Nat
  BY <1>2, LenProperties
<1> QED
  BY <1>2, <1>3

(* The lines of a fleet: one for each host.                                         *)
LEMMA HostLinesAre ==
    ASSUME NEW hosts \in SUBSET Hosts
    PROVE  /\ HostLines(hosts) \in Seq(FileLines)
           /\ \A i \in 1 .. Len(HostLines(hosts)) : HostAt(HostLines(hosts), i)
           /\ \A i, j \in 1 .. Len(HostLines(hosts)) : HostLines(hosts)[i] = HostLines(hosts)[j] => i = j
<1> DEFINE n == Cardinality(hosts)
           h == HostLines(hosts)
           f == InOrder(hosts)
<1>1. hosts \in SUBSET Nat /\ IsFiniteSet(hosts)
  BY LaptopProxyAssumption, FS_Subset
<1>2. /\ n \in Nat /\ f \in [1 .. n -> hosts]
      /\ \A i, j \in 1 .. n : i < j => f[i] < f[j]
  BY <1>1, Ordered
<1>3. h = [i \in 1 .. n |-> Line("host", f[i])]
  BY DEF HostLines
<1> HIDE DEF n, h, f
<1>4. \A i \in 1 .. n : f[i] \in Nat
  <2> SUFFICES ASSUME NEW i \in 1 .. n PROVE f[i] \in Nat
    OBVIOUS
  <2>1. f[i] \in hosts
    BY <1>2
  <2> QED
    BY <1>1, <2>1
<1>5. \A i \in 1 .. n : h[i] \in FileLines /\ h[i].kind = "host" /\ h[i].n = f[i]
  BY <1>3, <1>4, LineIs
<1>6. h \in Seq(FileLines) /\ Len(h) = n
  BY <1>2, <1>3, <1>5, LinesAre
<1>7. ASSUME NEW i \in 1 .. n, NEW j \in 1 .. n, h[i] = h[j] PROVE i = j
  <2>1. f[i] = f[j]
    BY <1>5, <1>7
  <2>2. f[i] \in Nat /\ i \in Nat /\ j \in Nat
    BY <1>2, <1>4
  <2> QED
    BY <1>2, <2>1, <2>2
<1>8. \A i \in 1 .. n : HostAt(h, i)
  BY <1>5 DEF HostAt
<1> QED
  BY <1>6, <1>7, <1>8 DEF h

(* What is kept of known_hosts is what the user wrote.                              *)
LEMMA OwnIsKept ==
    ASSUME NEW n \in Nat, NEW lines, KnownOK(lines, n)
    PROVE  LET kept == [k \in 1 .. Cardinality(Unmanaged(lines)) |-> lines[InOrder(Unmanaged(lines))[k]]] IN
           OwnKept(kept, n) /\ \A i \in 1 .. Len(kept) : OwnAt(kept, i)
<1> DEFINE U == Unmanaged(lines)
           c == Cardinality(U)
           f == InOrder(U)
           kept == [k \in 1 .. c |-> lines[f[k]]]
<1>1. lines \in Seq(FileLines) /\ Len(lines) \in Nat /\ DOMAIN lines = 1 .. Len(lines)
  BY LenProperties DEF KnownOK, OwnKept
<1>2. U = {i \in 1 .. Len(lines) : OwnAt(lines, i)}
  BY <1>1 DEF Unmanaged, KnownOK, OwnAt, HostAt
<1>3. U \in SUBSET Nat /\ IsFiniteSet(U)
  <2>1. IsFiniteSet(1 .. Len(lines))
    BY <1>1, FS_Interval
  <2>2. U \in SUBSET (1 .. Len(lines))
    BY <1>2
  <2> QED
    BY <1>1, <2>1, <2>2, FS_Subset
<1>4. /\ c \in Nat /\ f \in [1 .. c -> U]
      /\ \A i, j \in 1 .. c : i < j => f[i] < f[j]
      /\ \A x \in U : \E i \in 1 .. c : f[i] = x
  BY <1>3, Ordered
<1> HIDE DEF U, c, f
<1>5. \A i \in 1 .. c : f[i] \in 1 .. Len(lines) /\ OwnAt(lines, f[i])
  <2> SUFFICES ASSUME NEW i \in 1 .. c PROVE f[i] \in 1 .. Len(lines) /\ OwnAt(lines, f[i])
    OBVIOUS
  <2>1. f[i] \in U
    BY <1>4
  <2> QED
    BY <1>2, <2>1
<1>6. \A i \in 1 .. c : kept[i] = lines[f[i]] /\ kept[i] \in FileLines /\ OwnAt(kept, i)
  <2> SUFFICES ASSUME NEW i \in 1 .. c
               PROVE  kept[i] = lines[f[i]] /\ kept[i] \in FileLines /\ OwnAt(kept, i)
    OBVIOUS
  <2>1. kept[i] = lines[f[i]]
    OBVIOUS
  <2>2. lines[f[i]] \in FileLines
    BY <1>1, <1>5, ElementOfSeq
  <2> HIDE DEF kept
  <2> QED
    BY <1>5, <2>1, <2>2 DEF OwnAt
<1>7. kept \in Seq(FileLines) /\ Len(kept) = c
  <2>1. DOMAIN kept = 1 .. c /\ kept = [i \in 1 .. c |-> kept[i]]
    OBVIOUS
  <2> HIDE DEF kept
  <2> QED
    BY <1>4, <1>6, <2>1, LinesAre
<1> HIDE DEF kept
<1>8. \A i \in 1 .. c : kept[i].n \in 1 .. n
  BY <1>5, <1>6 DEF KnownOK, OwnKept
<1>9. ASSUME NEW m \in 1 .. n PROVE \E i \in 1 .. c : OwnAt(kept, i) /\ kept[i].n = m
  <2>1. PICK j \in 1 .. Len(lines) : OwnAt(lines, j) /\ lines[j].n = m
    BY DEF KnownOK, OwnKept
  <2>2. PICK i \in 1 .. c : f[i] = j
    BY <1>2, <1>4, <2>1
  <2> QED
    BY <1>6, <2>1, <2>2
<1>10. ASSUME NEW i \in 1 .. c, NEW j \in 1 .. c, i < j PROVE kept[i].n < kept[j].n
  <2>1. f[i] < f[j]
    BY <1>4, <1>10
  <2>2. lines[f[i]].n < lines[f[j]].n
    BY <1>5, <2>1 DEF KnownOK, OwnKept
  <2> QED
    BY <1>6, <2>2
<1>11. OwnKept(kept, n)
  BY <1>6, <1>7, <1>8, <1>9, <1>10 DEF OwnKept, OwnAt, HostAt
<1>12. \A i \in 1 .. Len(kept) : OwnAt(kept, i)
  BY <1>6, <1>7
<1> QED
  BY <1>11, <1>12 DEF kept, U, c, f

(* update_known_hosts keeps the user's lines and puts the fleet's behind them.      *)
LEMMA KnownWritten ==
    ASSUME NEW n \in Nat, NEW lines, KnownOK(lines, n), NEW hosts \in SUBSET Hosts
    PROVE  KnownOK(KnownHostsLines(lines, hosts), n)
<1> DEFINE h == HostLines(hosts)
           own == [k \in 1 .. Cardinality(Unmanaged(lines)) |-> lines[InOrder(Unmanaged(lines))[k]]]
           q == own \o h
<1>1. OwnKept(own, n) /\ \A i \in 1 .. Len(own) : OwnAt(own, i)
  BY OwnIsKept
<1>2. /\ h \in Seq(FileLines) /\ \A i \in 1 .. Len(h) : HostAt(h, i)
      /\ \A i, j \in 1 .. Len(h) : h[i] = h[j] => i = j
  BY HostLinesAre
<1>3. KnownHostsLines(lines, hosts) = q
  BY DEF KnownHostsLines
<1> HIDE DEF own, h
<1>4. own \in Seq(FileLines) /\ Len(own) \in Nat /\ Len(h) \in Nat
  BY <1>1, <1>2, LenProperties DEF OwnKept
<1>5. /\ q \in Seq(FileLines) /\ Len(q) = Len(own) + Len(h)
      /\ \A i \in 1 .. Len(own) + Len(h) : q[i] = IF i <= Len(own) THEN own[i] ELSE h[i - Len(own)]
  BY <1>2, <1>4, ConcatProperties
<1> HIDE DEF q
<1>6. \A i \in 1 .. Len(own) : i \in 1 .. Len(q) /\ q[i] = own[i] /\ OwnAt(q, i)
  BY <1>1, <1>4, <1>5 DEF OwnAt
<1>7. \A i \in 1 .. Len(q) : i \notin 1 .. Len(own) =>
         i - Len(own) \in 1 .. Len(h) /\ q[i] = h[i - Len(own)] /\ HostAt(q, i)
  BY <1>2, <1>4, <1>5 DEF HostAt
<1>8. \A i \in 1 .. Len(q) : OwnAt(q, i) => i \in 1 .. Len(own)
  BY <1>7 DEF OwnAt, HostAt
<1>9. \A i \in 1 .. Len(q) : HostAt(q, i) => i \notin 1 .. Len(own)
  BY <1>6 DEF OwnAt, HostAt
<1>10. ASSUME NEW i \in 1 .. Len(q), NEW j \in 1 .. Len(q), HostAt(q, i), q[i] = q[j] PROVE i = j
  <2>1. HostAt(q, j)
    BY <1>10 DEF HostAt
  <2>2. i - Len(own) = j - Len(own)
    BY <1>2, <1>7, <1>9, <1>10, <2>1
  <2> QED
    BY <1>4, <1>5, <2>2
<1>11. OwnKept(q, n)
  <2>1. \A i \in 1 .. Len(q) : OwnAt(q, i) => q[i].n \in 1 .. n
    BY <1>1, <1>6, <1>8 DEF OwnKept
  <2>2. ASSUME NEW m \in 1 .. n PROVE \E i \in 1 .. Len(q) : OwnAt(q, i) /\ q[i].n = m
    <3>1. PICK i \in 1 .. Len(own) : own[i].n = m
      BY <1>1 DEF OwnKept
    <3> QED
      BY <1>6, <3>1
  <2>3. \A i, j \in 1 .. Len(q) : OwnAt(q, i) /\ OwnAt(q, j) /\ i < j => q[i].n < q[j].n
    BY <1>1, <1>6, <1>8 DEF OwnKept
  <2> QED
    BY <1>5, <1>10, <2>1, <2>2, <2>3 DEF OwnKept
<1> QED
  BY <1>3, <1>6, <1>7, <1>11 DEF KnownOK

(* A line the user adds at the end comes after the others.                          *)
LEMMA OwnAdded ==
    ASSUME NEW n \in Nat, NEW lines, OwnKept(lines, n)
    PROVE  LET added == Append(lines, Line("own", n + 1)) IN
           /\ OwnKept(added, n + 1)
           /\ Len(lines) \in Nat /\ Len(added) = Len(lines) + 1
           /\ \A i \in 1 .. Len(lines) : added[i] = lines[i]
           /\ OwnAt(added, Len(lines) + 1)
           /\ added[Len(lines) + 1] # Line("begin", 0) /\ added[Len(lines) + 1] # Line("end", 0)
<1> DEFINE line == Line("own", n + 1)
           added == Append(lines, line)
           l == Len(lines)
<1>1. line \in FileLines /\ line.kind = "own" /\ line.n = n + 1
  BY LineIs
<1>2. line # Line("begin", 0) /\ line # Line("end", 0)
  BY <1>1, LineIs
<1>3. lines \in Seq(FileLines) /\ l \in Nat
  BY LenProperties DEF OwnKept
<1> HIDE DEF line
<1>4. /\ added \in Seq(FileLines) /\ Len(added) = l + 1 /\ added[l + 1] = line
      /\ \A i \in 1 .. l : added[i] = lines[i]
  BY <1>1, <1>3, AppendProperties
<1> HIDE DEF added, l
<1>5. \A i \in 1 .. Len(added) : i \in 1 .. l \/ i = l + 1
  BY <1>3, <1>4
<1>6. \A i \in 1 .. l : lines[i] \in FileLines /\ (OwnAt(lines, i) => lines[i].n \in 1 .. n)
  BY <1>3, ElementOfSeq DEF OwnKept, l
<1>7. \A i \in 1 .. Len(added) : OwnAt(added, i) => added[i].n \in 1 .. n + 1
  BY <1>1, <1>4, <1>5, <1>6 DEF OwnAt
<1>8. ASSUME NEW m \in 1 .. n + 1 PROVE \E i \in 1 .. Len(added) : OwnAt(added, i) /\ added[i].n = m
  <2>1. CASE m = n + 1
    BY <1>1, <1>3, <1>4, <2>1 DEF OwnAt
  <2>2. CASE m \in 1 .. n
    <3>1. PICK i \in 1 .. l : OwnAt(lines, i) /\ lines[i].n = m
      BY <2>2 DEF OwnKept, l
    <3>2. i \in 1 .. Len(added)
      BY <1>3, <1>4
    <3> QED
      BY <1>4, <3>1, <3>2 DEF OwnAt
  <2> QED
    BY <2>1, <2>2
<1>9. ASSUME NEW i \in 1 .. Len(added), NEW j \in 1 .. Len(added), OwnAt(added, i), OwnAt(added, j), i < j
      PROVE  added[i].n < added[j].n
  <2>1. i \in 1 .. l
    BY <1>3, <1>4, <1>9
  <2>2. OwnAt(lines, i) /\ added[i].n = lines[i].n /\ lines[i].n \in 1 .. n
    BY <1>4, <1>6, <1>9, <2>1 DEF OwnAt
  <2>3. CASE j = l + 1
    BY <1>1, <1>4, <2>2, <2>3
  <2>4. CASE j \in 1 .. l
    BY <1>4, <1>9, <2>1, <2>2, <2>4 DEF OwnKept, OwnAt, l
  <2> QED
    BY <1>5, <2>3, <2>4
<1>10. ASSUME NEW i \in 1 .. Len(added), NEW j \in 1 .. Len(added), HostAt(added, i), added[i] = added[j] PROVE i = j
  <2>1. i \in 1 .. l /\ j \in 1 .. l
    BY <1>1, <1>4, <1>5, <1>10 DEF HostAt
  <2> QED
    BY <1>4, <1>10, <2>1 DEF OwnKept, HostAt, l
<1>11. OwnKept(added, n + 1)
  BY <1>4, <1>7, <1>8, <1>9, <1>10 DEF OwnKept
<1> QED
  BY <1>1, <1>2, <1>3, <1>4, <1>11 DEF OwnAt, added, l, line

LEMMA UserAdds ==
    ASSUME NEW n \in Nat, NEW lines
    PROVE  /\ KnownOK(lines, n) => KnownOK(Append(lines, Line("own", n + 1)), n + 1)
           /\ ConfigOK(lines, n) => ConfigOK(Append(lines, Line("own", n + 1)), n + 1)
<1> DEFINE added == Append(lines, Line("own", n + 1))
           l == Len(lines)
<1> SUFFICES ASSUME OwnKept(lines, n)
             PROVE  /\ KnownOK(lines, n) => KnownOK(added, n + 1)
                    /\ ConfigOK(lines, n) => ConfigOK(added, n + 1)
  BY DEF KnownOK, ConfigOK
<1>1. /\ OwnKept(added, n + 1)
      /\ l \in Nat /\ Len(added) = l + 1
      /\ \A i \in 1 .. l : added[i] = lines[i]
      /\ OwnAt(added, l + 1)
      /\ added[l + 1] # Line("begin", 0) /\ added[l + 1] # Line("end", 0)
  BY OwnAdded
<1> HIDE DEF added, l
<1>2. \A i \in 1 .. Len(added) : i \in 1 .. l \/ i = l + 1
  BY <1>1
<1>3. KnownOK(lines, n) => KnownOK(added, n + 1)
  BY <1>1, <1>2 DEF KnownOK, OwnAt, HostAt, l
<1>4. ASSUME NEW b \in 1 .. l, NEW e \in 1 .. l, RegionAt(lines, b, e)
      PROVE  b \in 1 .. Len(added) /\ e \in 1 .. Len(added) /\ RegionAt(added, b, e)
  <2>1. b \in Nat /\ e \in Nat /\ b <= l /\ e <= l /\ b < e
    BY <1>1, <1>4 DEF RegionAt
  <2>2. \A i \in 1 .. l : /\ added[i] = Line("begin", 0) <=> i = b
                          /\ added[i] = Line("end", 0) <=> i = e
                          /\ HostAt(added, i) <=> b < i /\ i < e
    BY <1>1, <1>4 DEF RegionAt, HostAt, l
  <2>3. ~HostAt(added, l + 1) /\ l + 1 # b /\ l + 1 # e /\ ~(l + 1 < e)
    BY <1>1, <2>1 DEF HostAt, OwnAt
  <2>4. \A i \in 1 .. Len(added) : /\ added[i] = Line("begin", 0) <=> i = b
                                   /\ added[i] = Line("end", 0) <=> i = e
                                   /\ HostAt(added, i) <=> b < i /\ i < e
    BY <1>1, <1>2, <2>2, <2>3
  <2> QED
    BY <1>1, <2>1, <2>4 DEF RegionAt
<1>5. ConfigOK(lines, n) => ConfigOK(added, n + 1)
  <2>1. CASE \A i \in 1 .. l : OwnAt(lines, i)
    BY <1>1, <1>2, <2>1 DEF ConfigOK, OwnAt
  <2>2. CASE \E b, e \in 1 .. l : RegionAt(lines, b, e)
    BY <1>1, <1>4, <2>2 DEF ConfigOK
  <2> QED
    BY <2>1, <2>2 DEF ConfigOK, l
<1> QED
  BY <1>3, <1>5 DEF added

LEMMA RegionIs ==
    ASSUME NEW hosts \in SUBSET Hosts
    PROVE  LET r == Region(hosts) h == HostLines(hosts) IN
           /\ r \in Seq(FileLines) /\ Len(h) \in Nat /\ Len(r) = Len(h) + 2
           /\ r[1] = Line("begin", 0) /\ r[Len(h) + 2] = Line("end", 0)
           /\ \A i \in 2 .. Len(h) + 1 : HostAt(r, i)
           /\ \A i, j \in 2 .. Len(h) + 1 : r[i] = r[j] => i = j
<1> DEFINE h == HostLines(hosts)
           b == <<Line("begin", 0)>>
           e == <<Line("end", 0)>>
           bh == b \o h
           r == bh \o e
<1>1. /\ h \in Seq(FileLines) /\ Len(h) \in Nat
      /\ \A i \in 1 .. Len(h) : HostAt(h, i)
      /\ \A i, j \in 1 .. Len(h) : h[i] = h[j] => i = j
  BY HostLinesAre, LenProperties
<1>2. b \in Seq(FileLines) /\ Len(b) = 1 /\ b[1] = Line("begin", 0)
  BY LineIs
<1>3. e \in Seq(FileLines) /\ Len(e) = 1 /\ e[1] = Line("end", 0)
  BY LineIs
<1>4. Region(hosts) = r
  BY DEF Region
<1> HIDE DEF h, b, e
<1>5. /\ bh \in Seq(FileLines) /\ Len(bh) = Len(h) + 1
      /\ \A i \in 1 .. Len(h) + 1 : bh[i] = IF i <= 1 THEN b[i] ELSE h[i - 1]
  <2>0. b \in Seq(FileLines) /\ h \in Seq(FileLines)
    BY <1>1, <1>2
  <2>1. /\ b \o h \in Seq(FileLines) /\ Len(b \o h) = Len(b) + Len(h)
        /\ \A i \in 1 .. Len(b) + Len(h) : (b \o h)[i] = IF i <= Len(b) THEN b[i] ELSE h[i - Len(b)]
    BY <2>0, ConcatProperties
  <2> QED
    BY <1>1, <1>2, <2>1
<1> HIDE DEF bh
<1>6. /\ r \in Seq(FileLines) /\ Len(r) = Len(h) + 2
      /\ \A i \in 1 .. Len(h) + 2 : r[i] = IF i <= Len(h) + 1 THEN bh[i] ELSE e[i - (Len(h) + 1)]
  <2>0. bh \in Seq(FileLines) /\ e \in Seq(FileLines)
    BY <1>1, <1>3, <1>5
  <2>1. /\ bh \o e \in Seq(FileLines) /\ Len(bh \o e) = Len(bh) + Len(e)
        /\ \A i \in 1 .. Len(bh) + Len(e) : (bh \o e)[i] = IF i <= Len(bh) THEN bh[i] ELSE e[i - Len(bh)]
    BY <2>0, ConcatProperties
  <2> QED
    BY <1>1, <1>3, <1>5, <2>1
<1> HIDE DEF r
<1>7. r[1] = Line("begin", 0) /\ r[Len(h) + 2] = Line("end", 0)
  BY <1>1, <1>2, <1>3, <1>5, <1>6
<1>8. \A i \in 2 .. Len(h) + 1 : i - 1 \in 1 .. Len(h) /\ r[i] = h[i - 1]
  BY <1>1, <1>5, <1>6
<1>9. \A i \in 2 .. Len(h) + 1 : HostAt(r, i)
  BY <1>1, <1>8 DEF HostAt
<1>10. ASSUME NEW i \in 2 .. Len(h) + 1, NEW j \in 2 .. Len(h) + 1, r[i] = r[j] PROVE i = j
  <2>1. i - 1 = j - 1
    BY <1>1, <1>8, <1>10
  <2> QED
    BY <1>1, <2>1
<1> QED
  BY <1>1, <1>4, <1>6, <1>7, <1>9, <1>10 DEF h

Unmarked(lines) ==
    \A i \in 1 .. Len(lines) :
        /\ ~HostAt(lines, i) /\ lines[i] # Line("begin", 0) /\ lines[i] # Line("end", 0)

(* What stands before and after a region: the user's lines, in their order.         *)
Sides(pre, post, n) ==
    /\ pre \in Seq(FileLines) /\ post \in Seq(FileLines) /\ Unmarked(pre) /\ Unmarked(post)
    /\ \A i \in 1 .. Len(pre) : OwnAt(pre, i) => pre[i].n \in 1 .. n
    /\ \A i \in 1 .. Len(post) : OwnAt(post, i) => post[i].n \in 1 .. n
    /\ \A m \in 1 .. n : \/ \E i \in 1 .. Len(pre) : OwnAt(pre, i) /\ pre[i].n = m
                         \/ \E i \in 1 .. Len(post) : OwnAt(post, i) /\ post[i].n = m
    /\ \A i, j \in 1 .. Len(pre) : OwnAt(pre, i) /\ OwnAt(pre, j) /\ i < j => pre[i].n < pre[j].n
    /\ \A i, j \in 1 .. Len(post) : OwnAt(post, i) /\ OwnAt(post, j) /\ i < j => post[i].n < post[j].n
    /\ \A i \in 1 .. Len(pre), j \in 1 .. Len(post) : OwnAt(pre, i) /\ OwnAt(post, j) => pre[i].n < post[j].n

(* A region between them leaves them so.                                            *)
LEMMA RegionBetween ==
    ASSUME NEW n \in Nat, NEW pre, NEW post, Sides(pre, post, n), NEW hosts \in SUBSET Hosts
    PROVE  ConfigOK((pre \o Region(hosts)) \o post, n)
<1> DEFINE r == Region(hosts)
           k == Len(HostLines(hosts))
           l == Len(pre)
           p == pre \o r
           q == p \o post
           b == l + 1
           e == l + k + 2
           w == Len(post)
<1>1. /\ r \in Seq(FileLines) /\ k \in Nat /\ Len(r) = k + 2
      /\ r[1] = Line("begin", 0) /\ r[k + 2] = Line("end", 0)
      /\ \A i \in 2 .. k + 1 : HostAt(r, i)
      /\ \A i, j \in 2 .. k + 1 : r[i] = r[j] => i = j
  BY RegionIs
<1>2. pre \in Seq(FileLines) /\ post \in Seq(FileLines) /\ l \in Nat /\ w \in Nat
  BY LenProperties DEF Sides
<1> HIDE DEF r, k, l, w
<1>3. /\ p \in Seq(FileLines) /\ Len(p) = l + k + 2
      /\ \A i \in 1 .. l + k + 2 : p[i] = IF i <= l THEN pre[i] ELSE r[i - l]
  <2>0. pre \in Seq(FileLines) /\ r \in Seq(FileLines)
    BY <1>1, <1>2
  <2>1. /\ pre \o r \in Seq(FileLines) /\ Len(pre \o r) = Len(pre) + Len(r)
        /\ \A i \in 1 .. Len(pre) + Len(r) : (pre \o r)[i] = IF i <= Len(pre) THEN pre[i] ELSE r[i - Len(pre)]
    BY <2>0, ConcatProperties
  <2> QED
    BY <1>1, <1>2, <2>1 DEF l
<1> HIDE DEF p
<1>4. /\ q \in Seq(FileLines) /\ Len(q) = e + w
      /\ \A i \in 1 .. e + w : q[i] = IF i <= e THEN p[i] ELSE post[i - e]
  <2>0. p \in Seq(FileLines) /\ post \in Seq(FileLines)
    BY <1>1, <1>2, <1>3
  <2>1. /\ p \o post \in Seq(FileLines) /\ Len(p \o post) = Len(p) + Len(post)
        /\ \A i \in 1 .. Len(p) + Len(post) : (p \o post)[i] = IF i <= Len(p) THEN p[i] ELSE post[i - Len(p)]
    BY <2>0, ConcatProperties
  <2> QED
    BY <1>1, <1>2, <1>3, <2>1 DEF w
<1> HIDE DEF q
<1>5. b \in Nat /\ e \in Nat /\ 1 <= b /\ b < e /\ e <= Len(q) /\ b \in 1 .. Len(q) /\ e \in 1 .. Len(q)
  BY <1>1, <1>2, <1>4
<1>6. q[b] = Line("begin", 0) /\ q[e] = Line("end", 0)
  BY <1>1, <1>2, <1>3, <1>4, <1>5
<1>7. \A i \in 1 .. l : i \in 1 .. Len(q) /\ i < b /\ q[i] = pre[i]
  BY <1>1, <1>2, <1>3, <1>4
<1>8. \A i \in 1 .. w : e + i \in 1 .. Len(q) /\ q[e + i] = post[i]
  BY <1>1, <1>2, <1>4
<1>9. \A i \in b + 1 .. e - 1 : i - l \in 2 .. k + 1 /\ q[i] = r[i - l] /\ HostAt(q, i)
  BY <1>1, <1>2, <1>3, <1>4 DEF HostAt
<1>10. \A i \in 1 .. Len(q) : i \in 1 .. l \/ i = b \/ i \in b + 1 .. e - 1 \/ i = e \/ (i > e /\ i - e \in 1 .. w)
  BY <1>1, <1>2, <1>4, <1>5
<1>11. ASSUME NEW i \in 1 .. Len(q), i > e PROVE i - e \in 1 .. w /\ q[i] = post[i - e]
  <2> HIDE DEF e
  <2>1. i \in Nat /\ e \in Nat /\ w \in Nat /\ i <= e + w /\ ~(i <= e) /\ i \in 1 .. e + w
    BY <1>2, <1>4, <1>5, <1>11
  <2>2. i - e \in 1 .. w
    BY <2>1
  <2> QED
    BY <1>4, <2>1, <2>2
<1>12. /\ Line("begin", 0).kind = "begin" /\ Line("end", 0).kind = "end"
  BY LineIs
<1> HIDE DEF b, e
<1>13. \A i \in 1 .. l : ~HostAt(q, i) /\ q[i] # Line("begin", 0) /\ q[i] # Line("end", 0)
  BY <1>7 DEF Sides, Unmarked, HostAt, l
<1>14. \A i \in 1 .. Len(q) : i > e => ~HostAt(q, i) /\ q[i] # Line("begin", 0) /\ q[i] # Line("end", 0)
  BY <1>11 DEF Sides, Unmarked, HostAt, w
<1>15. RegionAt(q, b, e)
  <2> SUFFICES ASSUME NEW i \in 1 .. Len(q)
               PROVE  /\ q[i] = Line("begin", 0) <=> i = b
                      /\ q[i] = Line("end", 0) <=> i = e
                      /\ HostAt(q, i) <=> b < i /\ i < e
    BY <1>5 DEF RegionAt
  <2>1. CASE i \in 1 .. l
    BY <1>5, <1>7, <1>13, <2>1
  <2>2. CASE i = b
    BY <1>5, <1>6, <1>12, <2>2 DEF HostAt
  <2>3. CASE i \in b + 1 .. e - 1
    BY <1>5, <1>9, <1>12, <2>3 DEF HostAt
  <2>4. CASE i = e
    BY <1>5, <1>6, <1>12, <2>4 DEF HostAt
  <2>5. CASE i > e
    BY <1>5, <1>14, <2>5
  <2> QED
    BY <1>10, <2>1, <2>2, <2>3, <2>4, <2>5
<1>16. \A i \in 1 .. Len(q) : OwnAt(q, i) => i \in 1 .. l \/ (i > e /\ i - e \in 1 .. w)
  BY <1>6, <1>9, <1>10, <1>12 DEF OwnAt, HostAt
<1>17. \A i \in 1 .. Len(q) : OwnAt(q, i) => q[i].n \in 1 .. n
  BY <1>7, <1>11, <1>16 DEF Sides, OwnAt, l, w
<1>18. ASSUME NEW m \in 1 .. n PROVE \E i \in 1 .. Len(q) : OwnAt(q, i) /\ q[i].n = m
  <2>1. CASE \E i \in 1 .. l : OwnAt(pre, i) /\ pre[i].n = m
    BY <1>7, <2>1 DEF OwnAt
  <2>2. CASE \E i \in 1 .. w : OwnAt(post, i) /\ post[i].n = m
    BY <1>8, <2>2 DEF OwnAt
  <2> QED
    BY <2>1, <2>2 DEF Sides, l, w
<1>19. ASSUME NEW i \in 1 .. Len(q), NEW j \in 1 .. Len(q), OwnAt(q, i), OwnAt(q, j), i < j
       PROVE  q[i].n < q[j].n
  <2>1. CASE i \in 1 .. l /\ j \in 1 .. l
    BY <1>7, <1>19, <2>1 DEF Sides, OwnAt, l
  <2>2. CASE i \in 1 .. l /\ j > e /\ j - e \in 1 .. w
    BY <1>7, <1>11, <1>19, <2>2 DEF Sides, OwnAt, l, w
  <2>3. CASE i > e /\ j > e /\ i - e \in 1 .. w /\ j - e \in 1 .. w
    <3>1. i - e < j - e
      BY <1>5, <1>19
    <3>2. q[i] = post[i - e] /\ q[j] = post[j - e]
      BY <1>11, <2>3
    <3> QED
      BY <1>19, <2>3, <3>1, <3>2 DEF Sides, OwnAt, w
  <2>4. CASE i > e /\ j \in 1 .. l
    BY <1>2, <1>5, <1>7, <1>19, <2>4
  <2> QED
    BY <1>16, <1>19, <2>1, <2>2, <2>3, <2>4
<1>20. ASSUME NEW i \in 1 .. Len(q), NEW j \in 1 .. Len(q), HostAt(q, i), q[i] = q[j] PROVE i = j
  <2>1. HostAt(q, j)
    BY <1>20 DEF HostAt
  <2>2. i \in b + 1 .. e - 1 /\ j \in b + 1 .. e - 1
    BY <1>5, <1>15, <1>20, <2>1 DEF RegionAt
  <2>3. i - l = j - l
    BY <1>1, <1>9, <1>20, <2>2
  <2> QED
    BY <1>2, <2>3
<1>21. OwnKept(q, n)
  BY <1>4, <1>17, <1>18, <1>19, <1>20 DEF OwnKept
<1> QED
  BY <1>5, <1>15, <1>21 DEF ConfigOK, q, p, r

(* The first line of a kind that is there once.                                     *)
LEMMA FirstIs ==
    ASSUME NEW lines \in Seq(FileLines), NEW line, NEW b \in 1 .. Len(lines),
           \A i \in 1 .. Len(lines) : lines[i] = line <=> i = b
    PROVE  FirstAt(lines, line) = b
<1>1. DOMAIN lines = 1 .. Len(lines) /\ Len(lines) \in Nat
  BY LenProperties
<1> DEFINE First(i) == lines[i] = line /\ \A j \in 1 .. i - 1 : lines[j] # line
<1>2. First(b)
  BY <1>1
<1>3. \A i \in DOMAIN lines : First(i) => i = b
  BY <1>1
<1> HIDE DEF First
<1>4. (CHOOSE i \in DOMAIN lines : First(i)) = b
  BY <1>1, <1>2, <1>3
<1> QED
  BY <1>4 DEF FirstAt, First

LEMMA SidesOfRegion ==
    ASSUME NEW n \in Nat, NEW lines, OwnKept(lines, n), NEW b \in 1 .. Len(lines), NEW e \in 1 .. Len(lines),
           RegionAt(lines, b, e)
    PROVE  Sides(SubSeq(lines, 1, b - 1), SubSeq(lines, e + 1, Len(lines)), n)
<1> DEFINE l == Len(lines)
           pre == SubSeq(lines, 1, b - 1)
           post == SubSeq(lines, e + 1, l)
<1>1. lines \in Seq(FileLines) /\ l \in Nat
  BY LenProperties DEF OwnKept
<1>2. b \in Nat /\ e \in Nat /\ 1 <= b /\ b < e /\ e <= l
  BY <1>1 DEF RegionAt
<1>3. \A i \in 1 .. l : lines[i] \in FileLines
  BY <1>1, ElementOfSeq
<1>4. /\ pre \in Seq(FileLines) /\ Len(pre) = b - 1
      /\ \A i \in 1 .. b - 1 : i \in 1 .. l /\ i < b /\ pre[i] = lines[i]
  <2>1. \A i \in 1 .. b - 1 : i \in 1 .. l /\ i < b /\ lines[i] \in FileLines
    BY <1>1, <1>2, <1>3
  <2>2. 1 \in Int /\ b - 1 \in Int
    BY <1>2
  <2>3. /\ pre \in Seq(FileLines) /\ Len(pre) = IF 1 <= b - 1 THEN b - 1 - 1 + 1 ELSE 0
        /\ \A i \in 1 .. b - 1 - 1 + 1 : pre[i] = lines[1 + i - 1]
    BY <2>1, <2>2, SubSeqProperties
  <2> HIDE DEF pre
  <2> QED
    BY <1>2, <2>1, <2>3
<1>5. /\ post \in Seq(FileLines) /\ Len(post) = l - e
      /\ \A i \in 1 .. l - e : e + i \in 1 .. l /\ post[i] = lines[e + i]
  <2>1. \A i \in e + 1 .. l : lines[i] \in FileLines
    BY <1>1, <1>2, <1>3
  <2>2. e + 1 \in Int /\ l \in Int
    BY <1>1, <1>2
  <2>3. /\ post \in Seq(FileLines) /\ Len(post) = IF e + 1 <= l THEN l - (e + 1) + 1 ELSE 0
        /\ \A i \in 1 .. l - (e + 1) + 1 : post[i] = lines[e + 1 + i - 1]
    BY <2>1, <2>2, SubSeqProperties
  <2> HIDE DEF post, l
  <2>4. Len(post) = l - e /\ l - (e + 1) + 1 = l - e
    BY <1>1, <1>2, <2>3
  <2>5. ASSUME NEW i \in 1 .. l - e PROVE e + i \in 1 .. l /\ e + 1 + i - 1 = e + i
    BY <1>1, <1>2
  <2>6. \A i \in 1 .. l - e : post[i] = lines[e + i]
    BY <2>3, <2>4, <2>5
  <2> QED
    BY <2>3, <2>4, <2>5, <2>6
<1> HIDE DEF pre, post, l
<1>6. \A i \in 1 .. l : OwnAt(lines, i) => i \in 1 .. b - 1 \/ (i - e \in 1 .. l - e /\ i = e + (i - e))
  <2> SUFFICES ASSUME NEW i \in 1 .. l, OwnAt(lines, i), i \notin 1 .. b - 1 PROVE i > e
    BY <1>1, <1>2
  <2>1. lines[i] # Line("begin", 0) /\ lines[i] # Line("end", 0) /\ ~HostAt(lines, i)
    BY LineIs DEF OwnAt, HostAt
  <2> QED
    BY <1>1, <1>2, <2>1 DEF RegionAt, l
<1>7. Unmarked(pre)
  BY <1>2, <1>4 DEF Unmarked, RegionAt, HostAt, l
<1>8. Unmarked(post)
  <2> SUFFICES ASSUME NEW i \in 1 .. Len(post)
               PROVE  ~HostAt(post, i) /\ post[i] # Line("begin", 0) /\ post[i] # Line("end", 0)
    BY DEF Unmarked
  <2>1. e + i \in 1 .. l /\ post[i] = lines[e + i] /\ e + i > e
    BY <1>1, <1>2, <1>5
  <2> QED
    BY <1>2, <2>1 DEF RegionAt, HostAt, l
<1>9. \A i \in 1 .. Len(pre) : OwnAt(pre, i) => pre[i].n \in 1 .. n
  BY <1>4 DEF OwnKept, OwnAt, l
<1>10. \A i \in 1 .. Len(post) : OwnAt(post, i) => post[i].n \in 1 .. n
  BY <1>5 DEF OwnKept, OwnAt, l
<1>11. ASSUME NEW m \in 1 .. n
       PROVE  \/ \E i \in 1 .. Len(pre) : OwnAt(pre, i) /\ pre[i].n = m
              \/ \E i \in 1 .. Len(post) : OwnAt(post, i) /\ post[i].n = m
  <2>1. PICK j \in 1 .. l : OwnAt(lines, j) /\ lines[j].n = m
    BY DEF OwnKept, l
  <2>2. CASE j \in 1 .. b - 1
    BY <1>4, <2>1, <2>2 DEF OwnAt
  <2>3. CASE j - e \in 1 .. l - e /\ j = e + (j - e)
    BY <1>5, <2>1, <2>3 DEF OwnAt
  <2> QED
    BY <1>6, <2>1, <2>2, <2>3
<1>12. \A i, j \in 1 .. Len(pre) : OwnAt(pre, i) /\ OwnAt(pre, j) /\ i < j => pre[i].n < pre[j].n
  BY <1>4 DEF OwnKept, OwnAt, l
<1>13. ASSUME NEW i \in 1 .. Len(post), NEW j \in 1 .. Len(post), OwnAt(post, i), OwnAt(post, j), i < j
       PROVE  post[i].n < post[j].n
  <2>1. e + i < e + j /\ e + i \in 1 .. l /\ e + j \in 1 .. l
    BY <1>1, <1>2, <1>5, <1>13
  <2>2. post[i] = lines[e + i] /\ post[j] = lines[e + j]
    BY <1>5
  <2>3. OwnAt(lines, e + i) /\ OwnAt(lines, e + j)
    BY <1>13, <2>2 DEF OwnAt
  <2> QED
    BY <2>1, <2>2, <2>3 DEF OwnKept, l
<1>14. ASSUME NEW i \in 1 .. Len(pre), NEW j \in 1 .. Len(post), OwnAt(pre, i), OwnAt(post, j)
       PROVE  pre[i].n < post[j].n
  <2>1. i < e + j /\ i \in 1 .. l /\ e + j \in 1 .. l
    BY <1>1, <1>2, <1>4, <1>5
  <2>2. pre[i] = lines[i] /\ post[j] = lines[e + j]
    BY <1>4, <1>5
  <2>3. OwnAt(lines, i) /\ OwnAt(lines, e + j)
    BY <1>14, <2>2 DEF OwnAt
  <2> QED
    BY <2>1, <2>2, <2>3 DEF OwnKept, l
<1> QED
  BY <1>4, <1>5, <1>7, <1>8, <1>9, <1>10, <1>11, <1>12, <1>13, <1>14 DEF Sides, pre, post, l

(* The markers are found where they are.                                            *)
LEMMA BracketsFound ==
    ASSUME NEW lines \in Seq(FileLines), NEW b \in 1 .. Len(lines), NEW e \in 1 .. Len(lines), RegionAt(lines, b, e)
    PROVE  /\ Bracketed(lines)
           /\ FirstAt(lines, Line("begin", 0)) = b /\ FirstAt(lines, Line("end", 0)) = e
<1>1. DOMAIN lines = 1 .. Len(lines)
  BY LenProperties
<1>2. FirstAt(lines, Line("begin", 0)) = b
  <2>1. \A i \in 1 .. Len(lines) : lines[i] = Line("begin", 0) <=> i = b
    BY DEF RegionAt
  <2> QED
    BY <2>1, FirstIs
<1>3. FirstAt(lines, Line("end", 0)) = e
  <2>1. \A i \in 1 .. Len(lines) : lines[i] = Line("end", 0) <=> i = e
    BY DEF RegionAt
  <2> QED
    BY <2>1, FirstIs
<1>4. \A m \in Markers : \E i \in DOMAIN lines : lines[i] = m
  BY <1>1 DEF RegionAt, Markers
<1> QED
  BY <1>2, <1>3, <1>4 DEF Bracketed, RegionAt

(* What the user wrote, with nothing managed, before a region that is added.        *)
LEMMA SidesOfEnd ==
    ASSUME NEW n \in Nat, NEW lines, OwnKept(lines, n), \A i \in 1 .. Len(lines) : OwnAt(lines, i),
           NEW blank \in {<<>>, <<Line("blank", 0)>>}
    PROVE  Sides(lines \o blank, <<>>, n)
<1> DEFINE l == Len(lines)
           pre == lines \o blank
<1>1. lines \in Seq(FileLines) /\ l \in Nat
  BY LenProperties DEF OwnKept
<1>2. /\ blank \in Seq(FileLines) /\ Len(blank) \in Nat
      /\ \A i \in 1 .. Len(blank) : i = 1 /\ blank[i] = Line("blank", 0)
  <2>1. CASE blank = <<>>
    BY <2>1
  <2>2. CASE blank = <<Line("blank", 0)>>
    BY <2>2, LineIs
  <2> QED
    BY <2>1, <2>2
<1>3. /\ pre \in Seq(FileLines) /\ Len(pre) = l + Len(blank)
      /\ \A i \in 1 .. l + Len(blank) : pre[i] = IF i <= l THEN lines[i] ELSE blank[i - l]
  BY <1>1, <1>2, ConcatProperties
<1> HIDE DEF pre, l
<1>4. \A i \in 1 .. l : i \in 1 .. Len(pre) /\ pre[i] = lines[i] /\ OwnAt(pre, i)
  BY <1>1, <1>2, <1>3 DEF OwnAt, l
<1>5. \A i \in 1 .. Len(pre) : i \notin 1 .. l => pre[i] = Line("blank", 0)
  <2> SUFFICES ASSUME NEW i \in 1 .. Len(pre), i \notin 1 .. l PROVE pre[i] = Line("blank", 0)
    OBVIOUS
  <2>1. i - l \in 1 .. Len(blank) /\ ~(i <= l) /\ i \in 1 .. l + Len(blank)
    BY <1>1, <1>2, <1>3
  <2> QED
    BY <1>2, <1>3, <2>1
<1>6. /\ Line("blank", 0).kind = "blank" /\ Line("begin", 0).kind = "begin" /\ Line("end", 0).kind = "end"
  BY LineIs
<1>7. \A i \in 1 .. Len(pre) : OwnAt(pre, i) => i \in 1 .. l
  BY <1>5, <1>6 DEF OwnAt
<1>8. Unmarked(pre)
  <2> SUFFICES ASSUME NEW i \in 1 .. Len(pre)
               PROVE  ~HostAt(pre, i) /\ pre[i] # Line("begin", 0) /\ pre[i] # Line("end", 0)
    BY DEF Unmarked
  <2> QED
    BY <1>4, <1>5, <1>6 DEF HostAt, OwnAt
<1>9. Unmarked(<<>>) /\ <<>> \in Seq(FileLines) /\ Len(<<>>) = 0
  BY DEF Unmarked
<1>10. \A i \in 1 .. Len(pre) : OwnAt(pre, i) => pre[i].n \in 1 .. n
  BY <1>4, <1>7 DEF OwnKept, OwnAt, l
<1>11. \A m \in 1 .. n : \E i \in 1 .. Len(pre) : OwnAt(pre, i) /\ pre[i].n = m
  BY <1>4 DEF OwnKept, l
<1>12. \A i, j \in 1 .. Len(pre) : OwnAt(pre, i) /\ OwnAt(pre, j) /\ i < j => pre[i].n < pre[j].n
  BY <1>4, <1>7 DEF OwnKept, OwnAt, l
<1>13. 1 .. Len(<<>>) = {}
  BY <1>9
<1> QED
  BY <1>3, <1>8, <1>9, <1>10, <1>11, <1>12, <1>13 DEF Sides, pre

(* update_ssh_config puts the fleet between the user's lines, or behind them.       *)
LEMMA ConfigWritten ==
    ASSUME NEW n \in Nat, NEW lines, ConfigOK(lines, n), NEW hosts \in SUBSET Hosts
    PROVE  ConfigOK(ConfigLines(lines, hosts), n)
<1>1. lines \in Seq(FileLines) /\ DOMAIN lines = 1 .. Len(lines) /\ OwnKept(lines, n)
  BY LenProperties DEF ConfigOK, OwnKept
<1>2. CASE \E b, e \in 1 .. Len(lines) : RegionAt(lines, b, e)
  <2>1. PICK b \in 1 .. Len(lines), e \in 1 .. Len(lines) : RegionAt(lines, b, e)
    BY <1>2
  <2>2. ConfigLines(lines, hosts) = (SubSeq(lines, 1, b - 1) \o Region(hosts)) \o SubSeq(lines, e + 1, Len(lines))
    BY <1>1, <2>1, BracketsFound DEF ConfigLines
  <2>3. Sides(SubSeq(lines, 1, b - 1), SubSeq(lines, e + 1, Len(lines)), n)
    BY <1>1, <2>1, SidesOfRegion
  <2> QED
    BY <2>2, <2>3, RegionBetween
<1>3. CASE \A i \in 1 .. Len(lines) : OwnAt(lines, i)
  <2> DEFINE blank == IF lines = <<>> THEN <<>> ELSE <<Line("blank", 0)>>
             pre == lines \o blank
  <2>1. ~Bracketed(lines)
    <3>1. Line("begin", 0) \in Markers /\ Line("begin", 0).kind = "begin"
      BY LineIs DEF Markers
    <3>2. \A i \in DOMAIN lines : lines[i].kind = "own"
      BY <1>1, <1>3 DEF OwnAt
    <3> QED
      BY <3>1, <3>2 DEF Bracketed
  <2>2. ConfigLines(lines, hosts) = pre \o Region(hosts)
    BY <2>1 DEF ConfigLines
  <2>3. blank \in {<<>>, <<Line("blank", 0)>>}
    OBVIOUS
  <2> HIDE DEF blank
  <2>4. Sides(pre, <<>>, n)
    BY <1>1, <1>3, <2>3, SidesOfEnd
  <2> HIDE DEF pre
  <2>5. ConfigOK((pre \o Region(hosts)) \o <<>>, n)
    BY <2>4, RegionBetween
  <2>6. pre \in Seq(FileLines) /\ Region(hosts) \in Seq(FileLines)
    BY <2>4, RegionIs DEF Sides
  <2>7. pre \o Region(hosts) \in Seq(FileLines)
    BY <2>6, ConcatProperties
  <2>8. (pre \o Region(hosts)) \o <<>> = pre \o Region(hosts)
    BY <2>7, ConcatEmptySeq
  <2> QED
    BY <2>2, <2>5, <2>8
<1> QED
  BY <1>2, <1>3 DEF ConfigOK

SyncRecords == [at : {"idle", "known", "known-read", "config", "config-read"}, fleet : SUBSET Hosts, lines : Seq(FileLines)]

(* Both files are sound, and so is what a sync read of the one it is about to write. *)
LinesInv ==
    /\ fleet \in SUBSET Hosts
    /\ DOMAIN ownLines = {"known", "config"} /\ ownLines["known"] \in Nat /\ ownLines["config"] \in Nat
    /\ syncs \in [Syncs -> SyncRecords]
    /\ KnownOK(knownHosts, ownLines["known"]) /\ ConfigOK(sshConfig, ownLines["config"])
    /\ \A p \in Syncs :
          /\ syncs[p].at = "known-read" => KnownOK(syncs[p].lines, ownLines["known"])
          /\ syncs[p].at = "config-read" => ConfigOK(syncs[p].lines, ownLines["config"])

LEMMA NoLinesKept == KnownOK(<<>>, 0) /\ ConfigOK(<<>>, 0)
<1>1. <<>> \in Seq(FileLines) /\ 1 .. Len(<<>>) = {} /\ 1 .. 0 = {}
  OBVIOUS
<1> QED
  BY <1>1 DEF KnownOK, ConfigOK, OwnKept

LEMMA IdleIs == Idle \in SyncRecords /\ Idle.at = "idle"
BY DEF Idle, SyncRecords

(* A step of one sync, to a state whose lines are sound, that leaves the user's alone. *)
LEMMA OneSyncMoves ==
    ASSUME LinesInv, NEW p \in Syncs, NEW r \in SyncRecords, syncs' = [syncs EXCEPT ![p] = r],
           UNCHANGED <<fleet, ownLines>>,
           KnownOK(knownHosts', ownLines["known"]), ConfigOK(sshConfig', ownLines["config"]),
           r.at = "known-read" => KnownOK(r.lines, ownLines["known"]),
           r.at = "config-read" => ConfigOK(r.lines, ownLines["config"])
    PROVE  LinesInv'
<1>1. syncs' \in [Syncs -> SyncRecords]
  BY DEF LinesInv
<1>2. ASSUME NEW q \in Syncs
      PROVE  /\ syncs'[q].at = "known-read" => KnownOK(syncs'[q].lines, ownLines["known"])
             /\ syncs'[q].at = "config-read" => ConfigOK(syncs'[q].lines, ownLines["config"])
  BY DEF LinesInv
<1> QED
  BY <1>1, <1>2 DEF LinesInv

LEMMA LinesRead ==
    ASSUME Tidy, LinesInv, NEW p \in Syncs,
           \/ ReadLines(p, "known", "known-read", knownHosts) 
           \/ ReadLines(p, "config", "config-read", sshConfig)
    PROVE  LinesInv'
<1>1. syncs[p] \in SyncRecords /\ knownHosts \in Seq(FileLines) /\ sshConfig \in Seq(FileLines)
  BY DEF LinesInv, KnownOK, ConfigOK, OwnKept
<1>2. CASE ReadLines(p, "known", "known-read", knownHosts)
  <2>1. PICK r : r = [syncs[p] EXCEPT !.at = "known-read", !.lines = knownHosts]
    OBVIOUS
  <2>2. syncs' = [syncs EXCEPT ![p] = r] /\ UNCHANGED <<fleet, ownLines, knownHosts, sshConfig>>
    BY <1>2, <2>1 DEF ReadLines
  <2>3. r \in SyncRecords /\ r.at = "known-read" /\ r.lines = knownHosts
    BY <1>1, <2>1 DEF SyncRecords
  <2> QED
    BY <2>2, <2>3, OneSyncMoves DEF LinesInv
<1>3. CASE ReadLines(p, "config", "config-read", sshConfig)
  <2>1. PICK r : r = [syncs[p] EXCEPT !.at = "config-read", !.lines = sshConfig]
    OBVIOUS
  <2>2. syncs' = [syncs EXCEPT ![p] = r] /\ UNCHANGED <<fleet, ownLines, knownHosts, sshConfig>>
    BY <1>3, <2>1 DEF ReadLines
  <2>3. r \in SyncRecords /\ r.at = "config-read" /\ r.lines = sshConfig
    BY <1>1, <2>1 DEF SyncRecords
  <2> QED
    BY <2>2, <2>3, OneSyncMoves DEF LinesInv
<1> QED
  BY <1>2, <1>3

LEMMA SyncStarts ==
    ASSUME LinesInv, NEW p \in Syncs, StartSync(p)
    PROVE  LinesInv'
<1>1. PICK r : r = [syncs[p] EXCEPT !.at = "known", !.fleet = fleet]
  OBVIOUS
<1>2. syncs' = [syncs EXCEPT ![p] = r] /\ UNCHANGED <<fleet, ownLines, knownHosts, sshConfig>>
  BY <1>1 DEF StartSync
<1>3. r \in SyncRecords /\ r.at = "known"
  BY <1>1 DEF SyncRecords, LinesInv
<1> QED
  BY <1>2, <1>3, OneSyncMoves DEF LinesInv

LEMMA SyncWrites ==
    ASSUME LinesInv, NEW p \in Syncs, WriteKnownHosts(p) \/ WriteSshConfig(p)
    PROVE  LinesInv'
<1>1. syncs[p] \in SyncRecords
  BY DEF LinesInv
<1>2. syncs[p].fleet \in SUBSET Hosts
  BY <1>1 DEF SyncRecords
<1>3. CASE WriteKnownHosts(p)
  <2>1. PICK ok \in BOOLEAN :
          /\ knownHosts' = AtomicWrite(knownHosts, KnownHostsLines(syncs[p].lines, syncs[p].fleet), ok)
          /\ syncs' = [syncs EXCEPT ![p] = IF ok THEN [@ EXCEPT !.at = "config", !.lines = <<>>] ELSE Idle]
    BY <1>3 DEF WriteKnownHosts
  <2>2. PICK r : r = IF ok THEN [syncs[p] EXCEPT !.at = "config", !.lines = <<>>] ELSE Idle
    OBVIOUS
  <2>3. syncs' = [syncs EXCEPT ![p] = r] /\ UNCHANGED <<fleet, ownLines, sshConfig>>
    BY <1>3, <2>1, <2>2 DEF WriteKnownHosts
  <2>4. r \in SyncRecords /\ r.at \in {"config", "idle"}
    <3>1. CASE ok
      BY <1>1, <2>2, <3>1, EmptySeq DEF SyncRecords
    <3>2. CASE ~ok
      BY <2>2, <3>2, IdleIs
    <3> QED
      BY <3>1, <3>2
  <2>5. KnownOK(KnownHostsLines(syncs[p].lines, syncs[p].fleet), ownLines["known"])
    <3>1. KnownOK(syncs[p].lines, ownLines["known"]) /\ ownLines["known"] \in Nat
      BY <1>3 DEF LinesInv, WriteKnownHosts
    <3> QED
      BY <1>2, <3>1, KnownWritten
  <2>6. KnownOK(knownHosts', ownLines["known"]) /\ ConfigOK(sshConfig', ownLines["config"])
    BY <2>1, <2>3, <2>5 DEF LinesInv, AtomicWrite
  <2> QED
    BY <2>3, <2>4, <2>6, OneSyncMoves
<1>4. CASE WriteSshConfig(p)
  <2>1. PICK ok \in BOOLEAN :
           sshConfig' = AtomicWrite(sshConfig, ConfigLines(syncs[p].lines, syncs[p].fleet), ok)
    BY <1>4 DEF WriteSshConfig
  <2>2. syncs' = [syncs EXCEPT ![p] = Idle] /\ UNCHANGED <<fleet, ownLines, knownHosts>>
    BY <1>4 DEF WriteSshConfig
  <2>3. ConfigOK(ConfigLines(syncs[p].lines, syncs[p].fleet), ownLines["config"])
    <3>1. ConfigOK(syncs[p].lines, ownLines["config"]) /\ ownLines["config"] \in Nat
      BY <1>4 DEF LinesInv, WriteSshConfig
    <3> QED
      BY <1>2, <3>1, ConfigWritten
  <2>4. KnownOK(knownHosts', ownLines["known"]) /\ ConfigOK(sshConfig', ownLines["config"])
    BY <2>1, <2>2, <2>3 DEF LinesInv, AtomicWrite
  <2> QED
    BY <2>2, <2>4, IdleIs, OneSyncMoves
<1> QED
  BY <1>3, <1>4

(* The user writes while no sync is under way.                                      *)
LEMMA UserWritesLine ==
    ASSUME Tidy, LinesInv, NEW file \in {"known", "config"}, UserWrites(file)
    PROVE  LinesInv'
<1>1. /\ ownLines' = [ownLines EXCEPT ![file] = ownLines[file] + 1]
      /\ UNCHANGED <<fleet, syncs>> /\ \A p \in Syncs : syncs[p] = Idle
  BY DEF UserWrites
<1>2. \A p \in Syncs : syncs'[p].at = "idle"
  BY <1>1, IdleIs
<1>3. CASE file = "known"
  <2>1. /\ ownLines'["known"] = ownLines["known"] + 1 /\ ownLines'["config"] = ownLines["config"]
        /\ DOMAIN ownLines' = {"known", "config"}
    BY <1>1, <1>3 DEF LinesInv
  <2>2. knownHosts' = Append(knownHosts, Line("own", ownLines["known"] + 1)) /\ UNCHANGED sshConfig
    BY <1>3, <2>1 DEF UserWrites
  <2>3. KnownOK(knownHosts', ownLines'["known"])
    BY <2>1, <2>2, UserAdds DEF LinesInv
  <2> QED
    BY <1>1, <1>2, <2>1, <2>2, <2>3 DEF LinesInv
<1>4. CASE file = "config"
  <2>1. /\ ownLines'["config"] = ownLines["config"] + 1 /\ ownLines'["known"] = ownLines["known"]
        /\ DOMAIN ownLines' = {"known", "config"}
    BY <1>1, <1>4 DEF LinesInv
  <2>2. sshConfig' = Append(sshConfig, Line("own", ownLines["config"] + 1)) /\ UNCHANGED knownHosts
    BY <1>4, <2>1 DEF UserWrites
  <2>3. ConfigOK(sshConfig', ownLines'["config"])
    BY <2>1, <2>2, UserAdds DEF LinesInv
  <2> QED
    BY <1>1, <1>2, <2>1, <2>2, <2>3 DEF LinesInv
<1> QED
  BY <1>3, <1>4

LEMMA LinesStep == ASSUME Tidy, LinesInv, [LaptopNext]_laptopVars PROVE LinesInv'
<1>1. ASSUME UNCHANGED <<syncs, knownHosts, sshConfig, ownLines>>, fleet' \in SUBSET Hosts PROVE LinesInv'
  BY <1>1 DEF LinesInv
<1>2. CASE CarryNext \/ UNCHANGED laptopVars
  <2>1. UNCHANGED syncVars
    BY <1>2 DEF CarryNext, SetUpTunnel, RelayEnds, TakeFrame, WriteFails, ReadInput, InputEnds, FarEndTakes,
                FarEndSends, FarEndEnds, laptopVars
  <2> QED
    BY <1>1, <2>1 DEF syncVars, LinesInv
<1>3. CASE EnrollLaptop
  BY <1>1, <1>3 DEF EnrollLaptop, LinesInv
<1>4. ASSUME NEW hosts \in SUBSET Hosts, FleetChanges(hosts) PROVE LinesInv'
  BY <1>1, <1>4 DEF FleetChanges
<1> QED
  BY <1>2, <1>3, <1>4, UserWritesLine, SyncStarts, SyncWrites, LinesRead DEF LaptopNext, SyncNext

(* Whatever the syncs do to the user's ssh files, two of them at once included: the
   lines the user wrote stay in each in their order, and no host is there twice, if
   the files are readable, hold no stray marker and rest during a sync. *)
THEOREM LinesKept == ASSUME Tidy PROVE LaptopSpec => []OwnLinesKept
<1>1. LaptopInit => LinesInv
  <2> SUFFICES ASSUME LaptopInit PROVE LinesInv
    OBVIOUS
  <2>1. fleet \in SUBSET Hosts /\ sshConfig = <<>> /\ knownHosts = <<>> /\ syncs = [p \in Syncs |-> Idle]
    BY DEF LaptopInit
  <2>2. DOMAIN ownLines = {"known", "config"} /\ ownLines["known"] = 0 /\ ownLines["config"] = 0
    BY DEF LaptopInit
  <2> QED
    BY <2>1, <2>2, NoLinesKept, IdleIs DEF LinesInv
<1>2. LinesInv /\ [LaptopNext]_laptopVars => LinesInv'
  BY LinesStep
<1>3. LinesInv => OwnLinesKept
  <2> SUFFICES ASSUME LinesInv, NEW file \in {"known", "config"}
               PROVE  LET lines == IF file = "known" THEN knownHosts ELSE sshConfig
                          own == {i \in DOMAIN lines : lines[i].kind = "own"}
                      IN /\ {lines[i].n : i \in own} = 1 .. ownLines[file]
                         /\ \A i, j \in own : i < j => lines[i].n < lines[j].n
                         /\ \A i, j \in DOMAIN lines : lines[i] = lines[j] /\ lines[i].kind = "host" => i = j
    BY DEF OwnLinesKept
  <2> DEFINE lines == IF file = "known" THEN knownHosts ELSE sshConfig
  <2>1. OwnKept(lines, ownLines[file])
    BY DEF LinesInv, KnownOK, ConfigOK
  <2> HIDE DEF lines
  <2>2. DOMAIN lines = 1 .. Len(lines)
    BY <2>1, LenProperties DEF OwnKept
  <2>3. {lines[i].n : i \in {k \in DOMAIN lines : lines[k].kind = "own"}} = 1 .. ownLines[file]
    BY <2>1, <2>2 DEF OwnKept, OwnAt
  <2> QED
    BY <2>1, <2>2, <2>3 DEF OwnKept, OwnAt, HostAt, lines
<1> QED
  BY <1>1, <1>2, <1>3, PTL DEF LaptopSpec

-------------------------------------------------------------------------------
(* The phone's tunnels.  A call asks for a tunnel at most once, by one command or  *)
(* one owed answer, and nothing arrives before that is answered.  What the task    *)
(* passed on to a call are the chunks that follow those it took, as far as none    *)
(* was dropped; a tunnel that lost its entry gets nothing more.  An entry is lost  *)
(* by a call that waits for one answer only when a chunk is there for it.          *)

PhoneCommands == [what : {"ask", "bytes", "close"}, call : PhoneCalls]
PhoneLabels == {"idle", "dialling", "head", "locking", "asking", "asked", "reading", "writing", "done", "dropped"}
Beginning == {"idle", "dialling", "head", "locking"}
Carrying == {"asked", "reading", "writing"}

PhoneShapes ==
    /\ at \in [PhoneCalls -> PhoneLabels] /\ DOMAIN kind = PhoneCalls /\ DOMAIN conn = PhoneCalls
    /\ DOMAIN finishedSides = PhoneCalls
    /\ DOMAIN io = Connections /\ commands \in [Connections -> Seq(PhoneCommands)]
    /\ engineConn \in Connections \cup {None} /\ dialled \in Nat
    /\ pending \subseteq PhoneCalls /\ inbound \subseteq PhoneCalls
    /\ chunks \in [PhoneCalls -> Seq(Nat)] /\ atRelay \in [PhoneCalls -> {"none", "open", "closed"}]
    /\ arrived \in [PhoneCalls -> Nat] /\ taken \in [PhoneCalls -> Seq(Nat)]
    /\ streamEnd \in [PhoneCalls -> {"open", "finished", "cut"}]

InQueue(g, m) == \E n \in 1 .. Len(commands[g]) : commands[g][n] = m
Asked(c) == \E g \in Connections : InQueue(g, Command(c, "ask"))
Closing(c) == InQueue(conn[c], Command(c, "close"))

\* A queue is that of a running task, holds an ask of a call once, and a close of
\* one that is done.
QueueInv ==
    \A g \in Connections : \A n \in 1 .. Len(commands[g]) :
        LET m == commands[g][n] IN
        /\ io[g] = "up"
        /\ m.what = "ask" => /\ conn[m.call] = g
                             /\ \A k \in 1 .. Len(commands[g]) : k # n => commands[g][k] # m
        /\ m.what = "close" => at[m.call] = "done"

LinkInv(c) ==
    /\ at[c] \in Beginning => atRelay[c] = "none"
    /\ at[c] = "asking" => conn[c] \in Connections /\ atRelay[c] = "none"
    /\ at[c] \in Carrying => conn[c] \in Connections /\ atRelay[c] # "none"
    /\ c \in pending \/ Asked(c) =>
          at[c] \in {"asking", "dropped"} /\ atRelay[c] = "none" /\ conn[c] \in Connections /\ Up(c)
    /\ c \in pending => ~Asked(c)
    /\ atRelay[c] = "open" => conn[c] \in Connections /\ Up(c)

PassedOn(c) ==
    /\ atRelay[c] = "none" =>
          c \notin inbound /\ arrived[c] = 0 /\ chunks[c] = <<>> /\ taken[c] = <<>> /\ streamEnd[c] = "open"
    /\ \A i \in 1 .. Len(chunks[c]) : chunks[c][i] = Len(taken[c]) + i
    /\ Len(taken[c]) + Len(chunks[c]) <= arrived[c]
    /\ c \in inbound => Len(taken[c]) + Len(chunks[c]) = arrived[c]

EndInv(c) ==
    streamEnd[c] # "open" =>
        \/ at[c] \in {"done", "dropped"}
        \/ /\ at[c] \in {"reading", "writing"} /\ kind[c] = "web" /\ "upstream" \in finishedSides[c]
           /\ chunks[c] = <<>> /\ c \notin inbound

CloseInv(c) ==
    /\ at[c] = "done" /\ kind[c] \in {"rpc", "web"} /\ atRelay[c] = "open" => Closing(c)
    /\ at[c] = "asked" /\ atRelay[c] = "open" /\ c \notin inbound => chunks[c] # <<>>

CallInv(c) == LinkInv(c) /\ PassedOn(c) /\ EndInv(c) /\ CloseInv(c)

PhoneInv == PhoneShapes /\ QueueInv /\ \A c \in PhoneCalls : CallInv(c)

\* What a step does to one stream.
PhoneStep(c) == OneStep(arrived[c], arrived'[c], taken[c], taken'[c], streamEnd[c], streamEnd'[c])

\* What it leaves alone of a call, of the queues, and of the tasks.
Same(c) ==
    /\ at'[c] = at[c] /\ kind'[c] = kind[c] /\ conn'[c] = conn[c] /\ finishedSides'[c] = finishedSides[c]
    /\ chunks'[c] = chunks[c] /\ atRelay'[c] = atRelay[c] /\ (c \in inbound' <=> c \in inbound)
    /\ (c \in pending' <=> c \in pending)
    /\ arrived'[c] = arrived[c] /\ taken'[c] = taken[c] /\ streamEnd'[c] = streamEnd[c]
Unheard(c) == (Asked(c)' => Asked(c)) /\ (conn[c] \in Connections /\ Closing(c) => Closing(c)')
TasksStay == \A g \in Connections : io[g] = "up" => io'[g] = "up"

(* A call that a step leaves alone.                                               *)
LEMMA OtherCall ==
    ASSUME NEW c \in PhoneCalls, CallInv(c), Same(c), Unheard(c), TasksStay
    PROVE  CallInv(c)' /\ PhoneStep(c)
<1>1. LinkInv(c)'
  BY DEF CallInv, LinkInv, Same, Unheard, TasksStay, Up
<1>2. PassedOn(c)' /\ EndInv(c)' /\ PhoneStep(c)
  BY DEF CallInv, PassedOn, EndInv, Same, PhoneStep, OneStep
<1>3. CloseInv(c)'
  BY DEF CallInv, CloseInv, LinkInv, Same, Unheard
<1> QED
  BY <1>1, <1>2, <1>3 DEF CallInv

(* Queues that a step leaves alone.                                               *)
LEMMA QueuesRest ==
    ASSUME PhoneInv, UNCHANGED <<commands, conn>>, TasksStay,
           \A c \in PhoneCalls : at[c] = "done" => at'[c] = "done"
    PROVE  QueueInv' /\ \A c \in PhoneCalls : Unheard(c) /\ (Asked(c)' <=> Asked(c))
<1>1. QueueInv'
  <2>1. ASSUME NEW g \in Connections, NEW n \in 1 .. Len(commands[g])
        PROVE  commands[g][n].call \in PhoneCalls
    <3>1. commands[g] \in Seq(PhoneCommands)
      BY DEF PhoneInv, PhoneShapes
    <3>2. commands[g][n] \in PhoneCommands
      BY <3>1, ElementOfSeq
    <3> QED
      BY <3>2 DEF PhoneCommands
  <2> QED
    BY <2>1 DEF PhoneInv, QueueInv, TasksStay
<1> QED
  BY <1>1 DEF Unheard, Asked, Closing, InQueue

(* One command is queued.                                                         *)
LEMMA CommandQueued ==
    ASSUME PhoneInv, NEW c \in PhoneCalls, NEW w \in {"ask", "bytes", "close"}, NEW g \in Connections,
           commands' = [commands EXCEPT ![g] = Append(@, Command(c, w))],
           io[g] = "up", TasksStay, conn'[c] = g, \A d \in PhoneCalls : d # c => conn'[d] = conn[d],
           \A d \in PhoneCalls : at[d] = "done" => at'[d] = "done",
           w = "ask" => ~Asked(c), w # "ask" => conn[c] = g, w = "close" => at'[c] = "done"
    PROVE  /\ commands' \in [Connections -> Seq(PhoneCommands)] /\ QueueInv'
           /\ \A d \in PhoneCalls : d # c => Unheard(d)
           /\ w # "ask" => Unheard(c)
           /\ w = "ask" => Asked(c)'
           /\ w = "close" => Closing(c)'
<1> DEFINE m == Command(c, w)
           q == commands[g]
<1>1. m \in PhoneCommands /\ m.what = w /\ m.call = c
  BY DEF Command, PhoneCommands
<1>2. commands \in [Connections -> Seq(PhoneCommands)] /\ q \in Seq(PhoneCommands)
  BY DEF PhoneInv, PhoneShapes
<1> HIDE DEF m
<1>3. /\ commands'[g] = Append(q, m) /\ \A h \in Connections : h # g => commands'[h] = commands[h]
      /\ commands' \in [Connections -> Seq(PhoneCommands)]
  <2>1. Append(q, m) \in Seq(PhoneCommands)
    BY <1>1, <1>2, AppendProperties
  <2> QED
    BY <1>2, <2>1 DEF m
<1>4. /\ Len(commands'[g]) = Len(q) + 1 /\ Len(q) \in Nat
      /\ \A n \in 1 .. Len(q) : commands'[g][n] = q[n] /\ q[n] \in PhoneCommands
      /\ commands'[g][Len(q) + 1] = m
  BY <1>1, <1>2, <1>3, AppendProperties, LenProperties, ElementOfSeq
<1>5. \A n \in 1 .. Len(commands'[g]) : n \in 1 .. Len(q) \/ n = Len(q) + 1
  <2>1. Len(q) \in Nat /\ Len(commands'[g]) = Len(q) + 1
    BY <1>4
  <2> HIDE DEF q
  <2> QED
    BY <2>1
<1>6. \A n \in 1 .. Len(q) : n \in 1 .. Len(commands'[g]) /\ n # Len(q) + 1
  <2>1. Len(q) \in Nat /\ Len(commands'[g]) = Len(q) + 1
    BY <1>4
  <2> HIDE DEF q
  <2> QED
    BY <2>1
<1>7. Len(q) + 1 \in 1 .. Len(commands'[g])
  <2>1. Len(q) \in Nat /\ Len(commands'[g]) = Len(q) + 1
    BY <1>4
  <2> HIDE DEF q
  <2> QED
    BY <2>1
<1>8. ASSUME NEW h \in Connections, NEW x
      PROVE  InQueue(h, x)' <=> InQueue(h, x) \/ (h = g /\ x = m)
  <2>1. CASE h = g
    BY <1>4, <1>5, <1>6, <1>7, <2>1 DEF InQueue
  <2>2. CASE h # g
    BY <1>3, <2>2 DEF InQueue
  <2> QED
    BY <2>1, <2>2
<1>9. \A d \in PhoneCalls : /\ (m = Command(d, "ask") <=> d = c /\ w = "ask")
                            /\ (m = Command(d, "close") <=> d = c /\ w = "close")
  BY DEF Command, m
<1>10. \A d \in PhoneCalls : Asked(d)' <=> Asked(d) \/ (d = c /\ w = "ask")
  BY <1>8, <1>9 DEF Asked, Command
<1>11. \A d \in PhoneCalls : conn[d] \in Connections /\ conn'[d] = conn[d] /\ Closing(d) => Closing(d)'
  BY <1>8 DEF Closing, Command
<1>12. QueueInv'
  <2> SUFFICES ASSUME NEW h \in Connections, NEW n \in 1 .. Len(commands'[h])
               PROVE  LET x == commands'[h][n] IN
                      /\ io'[h] = "up"
                      /\ x.what = "ask" => /\ conn'[x.call] = h
                                           /\ \A k \in 1 .. Len(commands'[h]) : k # n => commands'[h][k] # x
                      /\ x.what = "close" => at'[x.call] = "done"
    BY DEF QueueInv
  <2> DEFINE x == commands'[h][n]
  <2>1. ASSUME NEW k \in 1 .. Len(commands[h]), h # g \/ k \in 1 .. Len(q)
        PROVE  LET y == commands[h][k] IN
               /\ y.call \in PhoneCalls /\ io'[h] = "up" /\ (y.what = "close" => at'[y.call] = "done")
               /\ y.what = "ask" => /\ conn[y.call] = h /\ conn'[y.call] = h /\ y # m
                                    /\ \A l \in 1 .. Len(commands[h]) : l # k => commands[h][l] # y
    <3> DEFINE y == commands[h][k]
    <3>1. y \in PhoneCommands /\ y.call \in PhoneCalls /\ y.what \in {"ask", "bytes", "close"}
      <4>1. commands[h] \in Seq(PhoneCommands)
        BY <1>2
      <4>2. commands[h][k] \in PhoneCommands
        BY <4>1, ElementOfSeq
      <4> QED
        BY <4>2 DEF PhoneCommands
    <3>2. /\ io[h] = "up" /\ (y.what = "close" => at[y.call] = "done")
          /\ y.what = "ask" => /\ conn[y.call] = h
                               /\ \A l \in 1 .. Len(commands[h]) : l # k => commands[h][l] # y
      BY DEF PhoneInv, QueueInv
    <3>3. y.what = "ask" => Asked(y.call)
      <4>1. y.what = "ask" => y = Command(y.call, "ask")
        BY <3>1 DEF PhoneCommands, Command
      <4>2. InQueue(h, y)
        BY DEF InQueue
      <4> QED
        BY <4>1, <4>2 DEF Asked
    <3>4. y.what = "ask" => conn'[y.call] = h /\ y # m
      BY <1>1, <3>1, <3>2, <3>3
    <3> HIDE DEF y
    <3>5. io'[h] = "up" /\ (y.what = "close" => at'[y.call] = "done")
      BY <3>1, <3>2 DEF TasksStay
    <3> QED
      BY <3>1, <3>2, <3>4, <3>5 DEF y
  <2>2. CASE h # g
    BY <1>3, <2>1, <2>2
  <2>3. CASE h = g /\ n \in 1 .. Len(q)
    <3>1. x = commands[h][n]
      BY <1>4, <2>3
    <3> QED
      BY <1>4, <1>5, <2>1, <2>3, <3>1
  <2>4. CASE h = g /\ n = Len(q) + 1
    <3>1. x = m
      BY <1>4, <2>4
    <3>2. ASSUME x.what = "ask", NEW k \in 1 .. Len(commands'[h]), k # n PROVE commands'[h][k] # x
      <4>1. k \in 1 .. Len(q) /\ commands'[h][k] = q[k]
        BY <1>4, <1>5, <2>4, <3>2
      <4>2. q[k] # m \/ InQueue(g, m)
        BY <4>1 DEF InQueue
      <4>3. m = Command(c, "ask") /\ ~InQueue(g, m)
        BY <1>1, <3>1, <3>2 DEF Asked, m
      <4> QED
        BY <3>1, <4>1, <4>2, <4>3
    <3> QED
      BY <1>1, <2>4, <3>1, <3>2 DEF TasksStay
  <2> QED
    BY <1>5, <2>2, <2>3, <2>4
<1>13. w = "close" => Closing(c)'
  BY <1>8, <1>9 DEF Closing, Command
<1> QED
  BY <1>3, <1>10, <1>11, <1>12, <1>13 DEF Unheard

(* A step that is about one call.                                                 *)
LEMMA OneCall ==
    ASSUME PhoneInv, NEW c \in PhoneCalls, PhoneShapes', QueueInv', TasksStay,
           \A d \in PhoneCalls : d # c => Same(d) /\ Unheard(d),
           LinkInv(c)', PassedOn(c)', EndInv(c)', CloseInv(c)', PhoneStep(c)
    PROVE  PhoneInv' /\ \A d \in PhoneCalls : PhoneStep(d)
<1>1. CallInv(c)' /\ PhoneStep(c)
  BY DEF CallInv
<1>2. ASSUME NEW d \in PhoneCalls, d # c PROVE CallInv(d)' /\ PhoneStep(d)
  BY <1>2, OtherCall DEF PhoneInv
<1> QED
  BY <1>1, <1>2 DEF PhoneInv

(* Calls that begin, and end before they have a tunnel.                           *)
LEMMA Turns ==
    ASSUME PhoneInv, NEW c \in PhoneCalls, NEW l \in Beginning \cup {"done"}, at' = [at EXCEPT ![c] = l],
           at[c] \in Beginning \/ (at[c] = "asking" /\ ~Up(c) /\ l = "done"),
           UNCHANGED <<commands, conn, finishedSides, pending, inbound, chunks, atRelay, arrived, taken, streamEnd>>,
           TasksStay, DOMAIN io' = Connections, DOMAIN kind' = PhoneCalls,
           \A d \in PhoneCalls : d # c => kind'[d] = kind[d],
           engineConn' \in Connections \cup {None}, dialled' \in Nat
    PROVE  PhoneInv' /\ \A d \in PhoneCalls : PhoneStep(d)
<1>1. PhoneShapes'
  BY DEF PhoneInv, PhoneShapes, Beginning, PhoneLabels
<1>2. at \in [PhoneCalls -> PhoneLabels] /\ at'[c] = l /\ \A d \in PhoneCalls : d # c => at'[d] = at[d]
  BY DEF PhoneInv, PhoneShapes
<1>3. \A d \in PhoneCalls : at[d] = "done" => at'[d] = "done"
  BY <1>2 DEF Beginning
<1>4. QueueInv' /\ \A d \in PhoneCalls : Unheard(d) /\ (Asked(d)' <=> Asked(d))
  BY <1>3, QueuesRest
<1>5. LinkInv(c) /\ PassedOn(c) /\ EndInv(c) /\ CloseInv(c)
  BY DEF PhoneInv, CallInv
<1>6. c \notin pending /\ ~Asked(c) /\ atRelay[c] = "none"
  BY <1>5 DEF LinkInv, Beginning
<1>7. LinkInv(c)'
  BY <1>2, <1>4, <1>6 DEF LinkInv, Beginning, Carrying
<1>8. PassedOn(c)' /\ EndInv(c)' /\ CloseInv(c)' /\ PhoneStep(c)
  BY <1>2, <1>5, <1>6 DEF PassedOn, EndInv, CloseInv, PhoneStep, OneStep
<1>9. \A d \in PhoneCalls : d # c => Same(d)
  BY <1>2 DEF Same
<1> QED
  BY <1>1, <1>4, <1>7, <1>8, <1>9, OneCall

LEMMA CallsTurn ==
    ASSUME PhoneInv, NEW c \in PhoneCalls,
           \/ \E k \in EngineKinds : BeginCall(c, k)
           \/ Connect(c) \/ NotConnected(c) \/ AskFails(c) \/ Accept(c) \/ ReadHead(c)
    PROVE  PhoneInv' /\ \A d \in PhoneCalls : PhoneStep(d)
<1>1. UNCHANGED <<commands, conn, finishedSides, pending, inbound, chunks, atRelay, arrived, taken, streamEnd>>
  BY DEF BeginCall, Connect, NotConnected, AskFails, Accept, ReadHead, taskVars, tunnelVars, takenVars
<1>2. PICK l \in Beginning \cup {"done"} :
        /\ at' = [at EXCEPT ![c] = l]
        /\ at[c] \in Beginning \/ (at[c] = "asking" /\ ~Up(c) /\ l = "done")
  BY DEF BeginCall, Connect, NotConnected, AskFails, Accept, ReadHead, Arrives, Is, CallTo, Beginning
<1>3. DOMAIN kind' = PhoneCalls /\ \A d \in PhoneCalls : d # c => kind'[d] = kind[d]
  <2>1. kind' = kind \/ \E k : kind' = [kind EXCEPT ![c] = k]
    BY DEF BeginCall, Connect, NotConnected, AskFails, Accept, ReadHead
  <2> QED
    BY <2>1 DEF PhoneInv, PhoneShapes
<1>4. \/ UNCHANGED <<io, dialled>> /\ engineConn' \in {engineConn, None}
      \/ dialled < MaxConnections /\ dialled' = dialled + 1 /\ engineConn' = dialled + 1 /\ StartIoTask(dialled + 1)
  BY DEF BeginCall, Connect, NotConnected, AskFails, Accept, ReadHead, ReleaseAll, engineVars, taskVars
<1>5. TasksStay /\ DOMAIN io' = Connections /\ engineConn' \in Connections \cup {None} /\ dialled' \in Nat
  <2>1. DOMAIN io = Connections /\ engineConn \in Connections \cup {None} /\ dialled \in Nat /\ MaxConnections \in Nat
    BY PhoneTunnelsAssumption DEF PhoneInv, PhoneShapes
  <2>2. CASE UNCHANGED <<io, dialled>> /\ engineConn' \in {engineConn, None}
    BY <2>1, <2>2 DEF TasksStay
  <2>3. CASE dialled < MaxConnections /\ dialled' = dialled + 1 /\ engineConn' = dialled + 1 /\ StartIoTask(dialled + 1)
    BY <2>1, <2>3 DEF TasksStay, StartIoTask, Connections
  <2> QED
    BY <1>4, <2>2, <2>3
<1> QED
  BY <1>1, <1>2, <1>3, <1>5, Turns

(* Steps that no tunnel sees.                                                     *)
LEMMA PhoneRests ==
    ASSUME PhoneInv, engineConn' \in {engineConn, None},
           UNCHANGED <<dialled, at, kind, conn, finishedSides, taskVars, tunnelVars, takenVars>>
    PROVE  PhoneInv' /\ \A d \in PhoneCalls : PhoneStep(d)
<1>1. UNCHANGED <<io, commands, pending, inbound, chunks, atRelay, arrived, taken, streamEnd>>
  BY DEF taskVars, tunnelVars, takenVars
<1>2. PhoneShapes' /\ TasksStay
  BY <1>1 DEF PhoneInv, PhoneShapes, TasksStay
<1>3. QueueInv' /\ \A d \in PhoneCalls : Unheard(d)
  BY <1>1, <1>2, QueuesRest
<1>4. \A d \in PhoneCalls : Same(d)
  BY <1>1 DEF Same
<1> QED
  BY <1>2, <1>3, <1>4, OtherCall DEF PhoneInv

(* A call asks for a tunnel, or anything else of the relay.                       *)
LEMMA CallAsks ==
    ASSUME PhoneInv, NEW c \in PhoneCalls, Ask(c)
    PROVE  PhoneInv' /\ \A d \in PhoneCalls : PhoneStep(d)
<1> DEFINE g == engineConn
<1>1. /\ at[c] = "locking" /\ at' = [at EXCEPT ![c] = "asking"] /\ conn' = [conn EXCEPT ![c] = g]
      /\ commands' = [commands EXCEPT ![g] = Append(@, Command(c, "ask"))]
      /\ UNCHANGED <<engineConn, dialled, kind, finishedSides, io, pending, inbound, chunks, atRelay, arrived, taken, streamEnd>>
  BY DEF Ask, Is, CallTo, tunnelVars, takenVars
<1>2. g \in Connections /\ io[g] = "up"
  BY DEF Ask, Connected, PhoneInv, PhoneShapes
<1>3. /\ at \in [PhoneCalls -> PhoneLabels] /\ DOMAIN conn = PhoneCalls
      /\ at'[c] = "asking" /\ conn'[c] = g
      /\ \A d \in PhoneCalls : d # c => at'[d] = at[d] /\ conn'[d] = conn[d]
  BY <1>1 DEF PhoneInv, PhoneShapes
<1>4. LinkInv(c) /\ PassedOn(c) /\ EndInv(c) /\ CloseInv(c)
  BY DEF PhoneInv, CallInv
<1>5. c \notin pending /\ ~Asked(c) /\ atRelay[c] = "none"
  BY <1>1, <1>4 DEF LinkInv, Beginning
<1>6. TasksStay /\ \A d \in PhoneCalls : at[d] = "done" => at'[d] = "done"
  BY <1>1, <1>3 DEF TasksStay
<1> HIDE DEF g
<1>7. /\ commands' \in [Connections -> Seq(PhoneCommands)] /\ QueueInv'
      /\ \A d \in PhoneCalls : d # c => Unheard(d)
  BY <1>1, <1>2, <1>3, <1>5, <1>6, CommandQueued
<1>8. PhoneShapes'
  BY <1>1, <1>3, <1>7 DEF PhoneInv, PhoneShapes, PhoneLabels
<1>9. LinkInv(c)' /\ PassedOn(c)' /\ EndInv(c)' /\ CloseInv(c)' /\ PhoneStep(c)
  BY <1>1, <1>2, <1>3, <1>4, <1>5
     DEF LinkInv, PassedOn, EndInv, CloseInv, PhoneStep, OneStep, Beginning, Carrying, Up
<1>10. \A d \in PhoneCalls : d # c => Same(d)
  BY <1>1, <1>3 DEF Same
<1> QED
  BY <1>6, <1>7, <1>8, <1>9, <1>10, OneCall

(* What a call takes is the next chunk.                                           *)
LEMMA TakesNext ==
    ASSUME PhoneInv, NEW c \in PhoneCalls, Take(c), at[c] \in Carrying
    PROVE  /\ chunks' \in [PhoneCalls -> Seq(Nat)] /\ taken' \in [PhoneCalls -> Seq(Nat)]
           /\ \A d \in PhoneCalls : d # c => chunks'[d] = chunks[d] /\ taken'[d] = taken[d]
           /\ streamEnd[c] = "open" /\ Len(taken[c]) < arrived[c]
           /\ taken'[c] = Append(taken[c], Len(taken[c]) + 1)
           /\ PassedOn(c)' /\ UNCHANGED <<inbound, atRelay, arrived>>
<1>1. /\ chunks[c] # <<>> /\ chunks' = [chunks EXCEPT ![c] = Tail(@)]
      /\ taken' = [taken EXCEPT ![c] = Append(@, Head(chunks[c]))] /\ UNCHANGED <<inbound, atRelay, arrived>>
  BY DEF Take
<1>2. /\ chunks \in [PhoneCalls -> Seq(Nat)] /\ taken \in [PhoneCalls -> Seq(Nat)] /\ arrived[c] \in Nat
      /\ PassedOn(c) /\ EndInv(c) /\ LinkInv(c)
  BY DEF PhoneInv, PhoneShapes, CallInv
<1>3. PICK q \in Seq(Nat) : q = chunks[c] /\ q # <<>>
  BY <1>1, <1>2
<1>4. PICK t \in Seq(Nat) : t = taken[c]
  BY <1>2
<1>5. /\ Tail(q) \in Seq(Nat) /\ Len(Tail(q)) = Len(q) - 1 /\ Len(q) \in Nat \ {0} /\ Head(q) = q[1] /\ Head(q) \in Nat
      /\ \A i \in 1 .. Len(Tail(q)) : Tail(q)[i] = q[i + 1] /\ i + 1 \in 1 .. Len(q)
      /\ 1 \in 1 .. Len(q)
  BY <1>3
<1>6. Head(q) = Len(t) + 1 /\ Len(t) \in Nat
  BY <1>2, <1>3, <1>4, <1>5 DEF PassedOn
<1>7. Append(t, Head(q)) \in Seq(Nat) /\ Len(Append(t, Head(q))) = Len(t) + 1
  BY <1>5, AppendProperties
<1>8. /\ chunks'[c] = Tail(q) /\ taken'[c] = Append(t, Len(t) + 1)
      /\ chunks' \in [PhoneCalls -> Seq(Nat)] /\ taken' \in [PhoneCalls -> Seq(Nat)]
      /\ \A d \in PhoneCalls : d # c => chunks'[d] = chunks[d] /\ taken'[d] = taken[d]
  BY <1>1, <1>2, <1>3, <1>4, <1>5, <1>6, <1>7
<1>9. Len(t) + Len(q) <= arrived[c] /\ (c \in inbound => Len(t) + Len(q) = arrived[c])
  BY <1>2, <1>3, <1>4 DEF PassedOn
<1>10. Len(t) < arrived[c]
  BY <1>2, <1>5, <1>6, <1>9
<1>11. streamEnd[c] = "open"
  BY <1>1, <1>2 DEF EndInv, Carrying
<1>12. atRelay[c] # "none"
  BY <1>2 DEF LinkInv
<1>13. \A i \in 1 .. Len(Tail(q)) : Tail(q)[i] = Len(t) + 1 + i
  <2> SUFFICES ASSUME NEW i \in 1 .. Len(Tail(q)) PROVE Tail(q)[i] = Len(t) + 1 + i
    OBVIOUS
  <2>1. q[i + 1] = Len(t) + (i + 1)
    BY <1>2, <1>3, <1>4, <1>5 DEF PassedOn
  <2> QED
    BY <1>5, <1>6, <2>1
<1>14. Len(t) + 1 + Len(Tail(q)) = Len(t) + Len(q)
  BY <1>5, <1>6
<1>15. PassedOn(c)'
  <2>1. /\ chunks'[c] = Tail(q) /\ Len(taken'[c]) = Len(t) + 1 /\ arrived'[c] = arrived[c]
        /\ (c \in inbound' <=> c \in inbound) /\ atRelay'[c] = atRelay[c]
    BY <1>1, <1>6, <1>7, <1>8
  <2> QED
    BY <1>9, <1>12, <1>13, <1>14, <2>1 DEF PassedOn
<1> QED
  BY <1>1, <1>4, <1>8, <1>10, <1>11, <1>15

LEMMA ChunkRead ==
    ASSUME PhoneInv, NEW c \in PhoneCalls, ReadChunk(c)
    PROVE  PhoneInv' /\ \A d \in PhoneCalls : PhoneStep(d)
<1>1. /\ Take(c) /\ at[c] = "reading"
      /\ UNCHANGED <<engineConn, dialled, at, kind, conn, finishedSides, io, commands, pending, streamEnd>>
  BY DEF ReadChunk, Is, engineVars, callVars, taskVars
<1>2. /\ chunks' \in [PhoneCalls -> Seq(Nat)] /\ taken' \in [PhoneCalls -> Seq(Nat)]
      /\ \A d \in PhoneCalls : d # c => chunks'[d] = chunks[d] /\ taken'[d] = taken[d]
      /\ streamEnd[c] = "open" /\ Len(taken[c]) < arrived[c]
      /\ taken'[c] = Append(taken[c], Len(taken[c]) + 1)
      /\ PassedOn(c)' /\ UNCHANGED <<inbound, atRelay, arrived>>
  BY <1>1, TakesNext DEF Carrying
<1>3. PhoneShapes' /\ TasksStay
  BY <1>1, <1>2 DEF PhoneInv, PhoneShapes, TasksStay
<1>4. QueueInv' /\ \A d \in PhoneCalls : Unheard(d) /\ (Asked(d)' <=> Asked(d))
  BY <1>1, <1>3, QueuesRest
<1>5. LinkInv(c) /\ EndInv(c) /\ CloseInv(c)
  BY DEF PhoneInv, CallInv
<1>6. LinkInv(c)' /\ EndInv(c)' /\ CloseInv(c)' /\ PhoneStep(c)
  BY <1>1, <1>2, <1>4, <1>5 DEF LinkInv, EndInv, CloseInv, Up, PhoneStep, OneStep
<1>7. \A d \in PhoneCalls : d # c => Same(d)
  BY <1>1, <1>2 DEF Same
<1> QED
  BY <1>2, <1>3, <1>4, <1>6, <1>7, OneCall

(* A call ends, or one of its sides, and no command is sent; its stream ends with it
   unless it had ended before. *)
LEMMA CallEnds ==
    ASSUME PhoneInv, NEW c \in PhoneCalls,
           UNCHANGED <<kind, conn, io, commands, pending, inbound, chunks, atRelay, arrived, taken, dialled>>,
           engineConn' \in {engineConn, None}, DOMAIN finishedSides' = PhoneCalls,
           \A d \in PhoneCalls : d # c => at'[d] = at[d] /\ finishedSides'[d] = finishedSides[d] /\ streamEnd'[d] = streamEnd[d],
           at' \in [PhoneCalls -> PhoneLabels], streamEnd' \in [PhoneCalls -> {"open", "finished", "cut"}],
           \/ at'[c] = "dropped" /\ at[c] # "done"
           \/ at'[c] = "done" /\ at[c] = "reading" /\ kind[c] = "pty"
           \/ at'[c] = "done" /\ at[c] = "asked" /\ AtEnd(c)
           \/ /\ at'[c] = "reading" /\ at[c] = "reading" /\ kind[c] = "web"
              /\ finishedSides[c] \subseteq finishedSides'[c]
              /\ streamEnd'[c] # streamEnd[c] => AtEnd(c) /\ "upstream" \in finishedSides'[c],
           \/ streamEnd'[c] = streamEnd[c]
           \/ atRelay[c] # "none" /\ streamEnd[c] = "open" /\ streamEnd'[c] = "cut"
           \/ atRelay[c] # "none" /\ streamEnd[c] = "open" /\ streamEnd'[c] = "finished" /\ Len(taken[c]) = arrived[c]
    PROVE  PhoneInv' /\ \A d \in PhoneCalls : PhoneStep(d)
<1>1. PhoneShapes' /\ TasksStay
  BY DEF PhoneInv, PhoneShapes, TasksStay
<1>2. \A d \in PhoneCalls : at[d] = "done" => at'[d] = "done"
  OBVIOUS
<1>3. QueueInv' /\ \A d \in PhoneCalls : Unheard(d) /\ (Asked(d)' <=> Asked(d))
  BY <1>1, <1>2, QueuesRest
<1>4. LinkInv(c) /\ PassedOn(c) /\ EndInv(c) /\ CloseInv(c)
  BY DEF PhoneInv, CallInv
<1>5. LinkInv(c)'
  BY <1>3, <1>4 DEF LinkInv, Up, Beginning, Carrying
<1>6. PassedOn(c)' /\ PhoneStep(c)
  BY <1>4 DEF PassedOn, PhoneStep, OneStep
<1>7. EndInv(c)'
  BY <1>4 DEF EndInv, AtEnd
<1>8. CloseInv(c)'
  BY <1>4 DEF CloseInv, AtEnd
<1>9. \A d \in PhoneCalls : d # c => Same(d)
  BY DEF Same
<1> QED
  BY <1>1, <1>3, <1>5, <1>6, <1>7, <1>8, <1>9, OneCall

LEMMA ReadersEnd ==
    ASSUME PhoneInv, NEW c \in PhoneCalls,
           \/ RpcFails(c) \/ DropPty(c) \/ DropConnection(c)
           \/ \E side \in {"client", "upstream"} : FinishSide(c, side)
    PROVE  PhoneInv' /\ \A d \in PhoneCalls : PhoneStep(d)
<1>1. /\ at \in [PhoneCalls -> PhoneLabels] /\ streamEnd \in [PhoneCalls -> {"open", "finished", "cut"}]
      /\ DOMAIN finishedSides = PhoneCalls /\ LinkInv(c) /\ EndInv(c)
  BY DEF PhoneInv, PhoneShapes, CallInv
<1>2. CASE RpcFails(c)
  <2>1. /\ UNCHANGED <<kind, conn, finishedSides, io, commands, pending, inbound, chunks, atRelay, arrived, taken, dialled>>
        /\ engineConn' \in {engineConn, None} /\ at[c] = "asked" /\ AtEnd(c) /\ at' = [at EXCEPT ![c] = "done"]
        /\ streamEnd' = [streamEnd EXCEPT ![c] = IF Len(taken[c]) = arrived[c] THEN "finished" ELSE "cut"]
    BY <1>2 DEF RpcFails, Is, CallTo, ReleaseAll, EndStream, taskVars, tunnelVars
  <2>2. /\ at' \in [PhoneCalls -> PhoneLabels] /\ at'[c] = "done" /\ \A d \in PhoneCalls : d # c => at'[d] = at[d]
        /\ streamEnd' \in [PhoneCalls -> {"open", "finished", "cut"}]
        /\ streamEnd'[c] = (IF Len(taken[c]) = arrived[c] THEN "finished" ELSE "cut")
        /\ \A d \in PhoneCalls : d # c => streamEnd'[d] = streamEnd[d]
    BY <1>1, <2>1 DEF PhoneLabels
  <2>3. atRelay[c] # "none" /\ streamEnd[c] = "open"
    BY <1>1, <2>1 DEF LinkInv, EndInv, Carrying
  <2> QED
    BY <1>1, <2>1, <2>2, <2>3, CallEnds
<1>3. CASE DropPty(c)
  <2>1. /\ UNCHANGED <<engineConn, kind, conn, finishedSides, io, commands, pending, inbound, chunks, atRelay, arrived, taken, dialled>>
        /\ at[c] = "reading" /\ kind[c] = "pty" /\ at' = [at EXCEPT ![c] = "done"]
        /\ \/ streamEnd' = [streamEnd EXCEPT ![c] = IF Len(taken[c]) = arrived[c] THEN "finished" ELSE "cut"]
           \/ streamEnd' = [streamEnd EXCEPT ![c] = IF @ = "open" /\ atRelay[c] # "none" THEN "cut" ELSE @]
    BY <1>3 DEF DropPty, Is, CallTo, EndStream, CutStream, engineVars, taskVars, tunnelVars
  <2>2. atRelay[c] # "none" /\ streamEnd[c] = "open"
    BY <1>1, <2>1 DEF LinkInv, EndInv, Carrying
  <2>3. /\ at' \in [PhoneCalls -> PhoneLabels] /\ at'[c] = "done" /\ \A d \in PhoneCalls : d # c => at'[d] = at[d]
        /\ streamEnd' \in [PhoneCalls -> {"open", "finished", "cut"}]
        /\ streamEnd'[c] = "cut" \/ (streamEnd'[c] = "finished" /\ Len(taken[c]) = arrived[c])
        /\ \A d \in PhoneCalls : d # c => streamEnd'[d] = streamEnd[d]
    BY <1>1, <2>1, <2>2 DEF PhoneLabels
  <2> QED
    BY <1>1, <2>1, <2>2, <2>3, CallEnds
<1>4. CASE DropConnection(c)
  <2>1. /\ UNCHANGED <<kind, conn, finishedSides, io, commands, pending, inbound, chunks, atRelay, arrived, taken, dialled>>
        /\ engineConn' \in {engineConn, None} /\ at[c] # "done" /\ at' = [at EXCEPT ![c] = "dropped"]
        /\ streamEnd' = [streamEnd EXCEPT ![c] = IF @ = "open" /\ atRelay[c] # "none" THEN "cut" ELSE @]
    BY <1>4 DEF DropConnection, GatewayConnections, CallTo, ReleaseAll, CutStream, taskVars, tunnelVars
  <2>2. /\ at' \in [PhoneCalls -> PhoneLabels] /\ at'[c] = "dropped" /\ \A d \in PhoneCalls : d # c => at'[d] = at[d]
        /\ streamEnd' \in [PhoneCalls -> {"open", "finished", "cut"}]
        /\ \/ streamEnd'[c] = streamEnd[c]
           \/ atRelay[c] # "none" /\ streamEnd[c] = "open" /\ streamEnd'[c] = "cut"
        /\ \A d \in PhoneCalls : d # c => streamEnd'[d] = streamEnd[d]
    BY <1>1, <2>1 DEF PhoneLabels
  <2> QED
    BY <1>1, <2>1, <2>2, CallEnds
<1>5. ASSUME NEW side \in {"client", "upstream"}, FinishSide(c, side)
      PROVE  PhoneInv' /\ \A d \in PhoneCalls : PhoneStep(d)
  <2>1. /\ UNCHANGED <<engineConn, at, kind, conn, io, commands, pending, inbound, chunks, atRelay, arrived, taken, dialled>>
        /\ at[c] = "reading" /\ kind[c] = "web" /\ side \notin finishedSides[c] /\ (side = "upstream" => AtEnd(c))
        /\ finishedSides' = [finishedSides EXCEPT ![c] = @ \cup {side}]
        /\ \/ streamEnd' = streamEnd
           \/ /\ side = "upstream"
              /\ streamEnd' = [streamEnd EXCEPT ![c] = IF Len(taken[c]) = arrived[c] THEN "finished" ELSE "cut"]
    BY <1>5 DEF FinishSide, Is, EndStream, engineVars, taskVars, tunnelVars
  <2>2. atRelay[c] # "none" /\ (side = "upstream" => streamEnd[c] = "open")
    BY <1>1, <2>1 DEF LinkInv, EndInv, Carrying
  <2>3. /\ DOMAIN finishedSides' = PhoneCalls /\ finishedSides'[c] = finishedSides[c] \cup {side}
        /\ \A d \in PhoneCalls : d # c => finishedSides'[d] = finishedSides[d] /\ streamEnd'[d] = streamEnd[d]
        /\ streamEnd' \in [PhoneCalls -> {"open", "finished", "cut"}]
        /\ \/ streamEnd'[c] = streamEnd[c]
           \/ /\ side = "upstream"
              /\ streamEnd'[c] = "cut" \/ (streamEnd'[c] = "finished" /\ Len(taken[c]) = arrived[c])
    BY <1>1, <2>1
  <2> QED
    BY <1>1, <2>1, <2>2, <2>3, CallEnds
<1> QED
  BY <1>2, <1>3, <1>4, <1>5

(* A command may be sent to a task that has ended, and goes nowhere.              *)
LEMMA CommandSent ==
    ASSUME PhoneInv, NEW c \in PhoneCalls, NEW w \in {"bytes", "close"}, SendCommand(c, w),
           conn[c] \in Connections, UNCHANGED <<conn, io>>,
           \A d \in PhoneCalls : at[d] = "done" => at'[d] = "done", w = "close" => at'[c] = "done"
    PROVE  /\ commands' \in [Connections -> Seq(PhoneCommands)] /\ QueueInv'
           /\ \A d \in PhoneCalls : Unheard(d)
           /\ w = "close" /\ Up(c) => Closing(c)'
<1>1. TasksStay /\ commands \in [Connections -> Seq(PhoneCommands)]
  BY DEF TasksStay, PhoneInv, PhoneShapes
<1>2. CASE Up(c)
  <2>1. commands' = [commands EXCEPT ![conn[c]] = Append(@, Command(c, w))] /\ io[conn[c]] = "up"
    BY <1>2 DEF SendCommand, Up
  <2> QED
    BY <1>1, <2>1, CommandQueued
<1>3. CASE ~Up(c)
  <2>1. UNCHANGED commands
    BY <1>3 DEF SendCommand
  <2> QED
    BY <1>1, <1>3, <2>1, QueuesRest
<1> QED
  BY <1>2, <1>3

(* The answer of an RPC ends its call; a gateway's connection sends what it read, or
   ends. *)
LEMMA CallAnswered ==
    ASSUME PhoneInv, NEW c \in PhoneCalls, RpcAnswered(c)
    PROVE  PhoneInv' /\ \A d \in PhoneCalls : PhoneStep(d)
<1>1. /\ Take(c) /\ at[c] = "asked" /\ at' = [at EXCEPT ![c] = "done"] /\ SendCommand(c, "close")
      /\ UNCHANGED <<dialled, kind, conn, finishedSides, io, pending, streamEnd>>
      /\ engineConn' \in {engineConn, None}
  BY DEF RpcAnswered, Is, CallTo, ReleaseAll
<1>2. /\ chunks' \in [PhoneCalls -> Seq(Nat)] /\ taken' \in [PhoneCalls -> Seq(Nat)]
      /\ \A d \in PhoneCalls : d # c => chunks'[d] = chunks[d] /\ taken'[d] = taken[d]
      /\ streamEnd[c] = "open" /\ Len(taken[c]) < arrived[c]
      /\ taken'[c] = Append(taken[c], Len(taken[c]) + 1)
      /\ PassedOn(c)' /\ UNCHANGED <<inbound, atRelay, arrived>>
  BY <1>1, TakesNext DEF Carrying
<1>3. /\ at \in [PhoneCalls -> PhoneLabels] /\ at' \in [PhoneCalls -> PhoneLabels] /\ at'[c] = "done"
      /\ \A d \in PhoneCalls : d # c => at'[d] = at[d]
  BY <1>1 DEF PhoneInv, PhoneShapes, PhoneLabels
<1>4. LinkInv(c) /\ EndInv(c) /\ CloseInv(c) /\ conn[c] \in Connections
  BY <1>1 DEF PhoneInv, CallInv, LinkInv, Carrying
<1>5. /\ commands' \in [Connections -> Seq(PhoneCommands)] /\ QueueInv'
      /\ \A d \in PhoneCalls : Unheard(d)
      /\ Up(c) => Closing(c)'
  BY <1>1, <1>3, <1>4, CommandSent
<1>6. PhoneShapes' /\ TasksStay
  BY <1>1, <1>2, <1>3, <1>5 DEF PhoneInv, PhoneShapes, TasksStay
<1>7. c \notin pending /\ ~Asked(c)
  BY <1>1, <1>4 DEF LinkInv
<1>8. LinkInv(c)'
  BY <1>1, <1>2, <1>3, <1>4, <1>5, <1>7 DEF LinkInv, Up, Unheard, Beginning, Carrying
<1>9. EndInv(c)' /\ CloseInv(c)' /\ PhoneStep(c)
  BY <1>1, <1>2, <1>3, <1>4, <1>5 DEF LinkInv, EndInv, CloseInv, PhoneStep, OneStep
<1>10. \A d \in PhoneCalls : d # c => Same(d)
  BY <1>1, <1>2, <1>3 DEF Same
<1> QED
  BY <1>2, <1>5, <1>6, <1>8, <1>9, <1>10, OneCall

LEMMA GatewaySends ==
    ASSUME PhoneInv, NEW c \in PhoneCalls, Upload(c) \/ EndPump(c)
    PROVE  PhoneInv' /\ \A d \in PhoneCalls : PhoneStep(d)
<1>1. /\ UNCHANGED <<engineConn, dialled, kind, conn, finishedSides, io, pending, inbound, chunks, atRelay, arrived, taken>>
      /\ at[c] \in {"reading", "writing"}
      /\ \/ at' = [at EXCEPT ![c] = "writing"] /\ SendCommand(c, "bytes") /\ UNCHANGED streamEnd /\ kind[c] = "web"
         \/ at' = [at EXCEPT ![c] = "done"] /\ SendCommand(c, "close") /\ CutStream(c)
  BY DEF Upload, EndPump, PumpStops, Is, CallTo, engineVars, tunnelVars, takenVars
<1>2. /\ at \in [PhoneCalls -> PhoneLabels] /\ at' \in [PhoneCalls -> PhoneLabels]
      /\ at'[c] \in {"writing", "done"} /\ \A d \in PhoneCalls : d # c => at'[d] = at[d]
  BY <1>1 DEF PhoneInv, PhoneShapes, PhoneLabels
<1>3. LinkInv(c) /\ PassedOn(c) /\ EndInv(c) /\ CloseInv(c) /\ conn[c] \in Connections
  BY <1>1 DEF PhoneInv, CallInv, LinkInv, Carrying
<1>4. /\ streamEnd' \in [PhoneCalls -> {"open", "finished", "cut"}]
      /\ \A d \in PhoneCalls : d # c => streamEnd'[d] = streamEnd[d]
      /\ \/ streamEnd'[c] = streamEnd[c]
         \/ at'[c] = "done" /\ atRelay[c] # "none" /\ streamEnd[c] = "open" /\ streamEnd'[c] = "cut"
      /\ at'[c] = "writing" => streamEnd'[c] = streamEnd[c]
  <2>1. \/ UNCHANGED streamEnd
        \/ /\ at' = [at EXCEPT ![c] = "done"]
           /\ streamEnd' = [streamEnd EXCEPT ![c] = IF @ = "open" /\ atRelay[c] # "none" THEN "cut" ELSE @]
    BY <1>1 DEF CutStream
  <2>2. streamEnd \in [PhoneCalls -> {"open", "finished", "cut"}]
    BY DEF PhoneInv, PhoneShapes
  <2> QED
    BY <1>2, <2>1, <2>2
<1>5. /\ commands' \in [Connections -> Seq(PhoneCommands)] /\ QueueInv'
      /\ \A d \in PhoneCalls : Unheard(d)
      /\ at'[c] = "done" /\ Up(c) => Closing(c)'
  <2>1. CASE at' = [at EXCEPT ![c] = "writing"] /\ SendCommand(c, "bytes")
    <3>1. at'[c] = "writing" /\ \A d \in PhoneCalls : at[d] = "done" => at'[d] = "done"
      BY <1>1, <1>2, <2>1
    <3> QED
      BY <1>1, <1>3, <2>1, <3>1, CommandSent
  <2>2. CASE at' = [at EXCEPT ![c] = "done"] /\ SendCommand(c, "close")
    <3>1. at'[c] = "done" /\ \A d \in PhoneCalls : at[d] = "done" => at'[d] = "done"
      BY <1>1, <1>2, <2>2
    <3> QED
      BY <1>1, <1>3, <2>2, <3>1, CommandSent
  <2> QED
    BY <1>1, <2>1, <2>2
<1>6. PhoneShapes' /\ TasksStay
  BY <1>1, <1>2, <1>4, <1>5 DEF PhoneInv, PhoneShapes, TasksStay
<1>7. c \notin pending /\ ~Asked(c)
  BY <1>1, <1>3 DEF LinkInv
<1>8. LinkInv(c)'
  BY <1>1, <1>2, <1>3, <1>5, <1>7 DEF LinkInv, Up, Unheard, Beginning, Carrying
<1>9. PassedOn(c)' /\ PhoneStep(c)
  BY <1>1, <1>3, <1>4 DEF PassedOn, PhoneStep, OneStep
<1>10. EndInv(c)'
  BY <1>1, <1>2, <1>3, <1>4 DEF EndInv
<1>11. CloseInv(c)'
  BY <1>1, <1>2, <1>3, <1>5 DEF CloseInv, LinkInv
<1>12. \A d \in PhoneCalls : d # c => Same(d)
  BY <1>1, <1>2, <1>4 DEF Same
<1> QED
  BY <1>5, <1>6, <1>8, <1>9, <1>10, <1>11, <1>12, OneCall

(* An answer, whether somebody waits for it or not.                               *)
LEMMA AnswersCome ==
    ASSUME PhoneInv, NEW c \in PhoneCalls, AnswerControl(c) \/ TunnelRefused(c)
    PROVE  PhoneInv' /\ \A d \in PhoneCalls : PhoneStep(d)
<1>1. /\ UNCHANGED <<dialled, kind, conn, finishedSides, io, commands, inbound, chunks, atRelay, arrived, taken, streamEnd>>
      /\ engineConn' \in {engineConn, None} /\ c \in pending /\ pending' = pending \ {c}
      /\ at' = [at EXCEPT ![c] = "done"] \/ at' = at
      /\ kind[c] # "control" \/ at' = [at EXCEPT ![c] = "done"]
  BY DEF AnswerControl, TunnelRefused, CallTo, ReleaseAll, engineVars, tunnelVars, takenVars
<1>2. /\ at \in [PhoneCalls -> PhoneLabels] /\ at' \in [PhoneCalls -> PhoneLabels]
      /\ at'[c] = "done" \/ at'[c] = at[c]
      /\ \A d \in PhoneCalls : d # c => at'[d] = at[d]
  BY <1>1 DEF PhoneInv, PhoneShapes, PhoneLabels
<1>3. PhoneShapes' /\ TasksStay
  BY <1>1, <1>2 DEF PhoneInv, PhoneShapes, TasksStay
<1>4. \A d \in PhoneCalls : at[d] = "done" => at'[d] = "done"
  BY <1>2
<1>5. QueueInv' /\ \A d \in PhoneCalls : Unheard(d) /\ (Asked(d)' <=> Asked(d))
  BY <1>1, <1>3, <1>4, QueuesRest
<1>6. LinkInv(c) /\ PassedOn(c) /\ EndInv(c) /\ CloseInv(c)
  BY DEF PhoneInv, CallInv
<1>7. atRelay[c] = "none" /\ ~Asked(c) /\ at[c] \in {"asking", "dropped"}
  BY <1>1, <1>6 DEF LinkInv
<1>8. LinkInv(c)'
  BY <1>1, <1>2, <1>5, <1>6, <1>7 DEF LinkInv, Beginning, Carrying
<1>9. PassedOn(c)' /\ EndInv(c)' /\ CloseInv(c)' /\ PhoneStep(c)
  BY <1>1, <1>2, <1>6, <1>7 DEF PassedOn, EndInv, CloseInv, PhoneStep, OneStep
<1>10. \A d \in PhoneCalls : d # c => Same(d)
  BY <1>1, <1>2 DEF Same
<1> QED
  BY <1>3, <1>5, <1>8, <1>9, <1>10, OneCall

LEMMA CallOpens ==
    ASSUME PhoneInv, NEW c \in PhoneCalls, TunnelOpens(c)
    PROVE  PhoneInv' /\ \A d \in PhoneCalls : PhoneStep(d)
<1>1. /\ UNCHANGED <<dialled, kind, conn, finishedSides, io, chunks, arrived, taken, streamEnd>>
      /\ engineConn' \in {engineConn, None} /\ c \in pending /\ pending' = pending \ {c}
      /\ inbound' = inbound \cup {c} /\ atRelay' = [atRelay EXCEPT ![c] = "open"]
      /\ \/ at[c] # "asking" /\ UNCHANGED <<at, commands>>
         \/ /\ at[c] = "asking" /\ \E l \in Carrying : at' = [at EXCEPT ![c] = l]
            /\ UNCHANGED commands \/ SendCommand(c, "bytes")
  BY DEF TunnelOpens, CallTo, ReleaseAll, Is, engineVars, takenVars, Carrying
<1>2. LinkInv(c) /\ PassedOn(c) /\ EndInv(c) /\ CloseInv(c)
  BY DEF PhoneInv, CallInv
<1>3. atRelay[c] = "none" /\ ~Asked(c) /\ at[c] \in {"asking", "dropped"} /\ conn[c] \in Connections /\ Up(c)
  BY <1>1, <1>2 DEF LinkInv
<1>4. /\ at \in [PhoneCalls -> PhoneLabels] /\ at' \in [PhoneCalls -> PhoneLabels]
      /\ at'[c] = "dropped" \/ at'[c] \in Carrying
      /\ \A d \in PhoneCalls : d # c => at'[d] = at[d]
      /\ \A d \in PhoneCalls : at[d] = "done" => at'[d] = "done"
  <2>1. at \in [PhoneCalls -> PhoneLabels] /\ Carrying \subseteq PhoneLabels
    BY DEF PhoneInv, PhoneShapes, PhoneLabels, Carrying
  <2>2. CASE UNCHANGED at /\ at[c] # "asking"
    BY <1>3, <2>1, <2>2
  <2>3. ASSUME NEW l \in Carrying, at' = [at EXCEPT ![c] = l]
        PROVE  /\ at' \in [PhoneCalls -> PhoneLabels] /\ at'[c] \in Carrying
               /\ \A d \in PhoneCalls : d # c => at'[d] = at[d]
    BY <2>1, <2>3
  <2> QED
    BY <1>1, <1>3, <2>1, <2>2, <2>3
<1>5. /\ atRelay' \in [PhoneCalls -> {"none", "open", "closed"}] /\ atRelay'[c] = "open"
      /\ \A d \in PhoneCalls : d # c => atRelay'[d] = atRelay[d]
  BY <1>1 DEF PhoneInv, PhoneShapes
<1>6. commands' \in [Connections -> Seq(PhoneCommands)] /\ QueueInv' /\ \A d \in PhoneCalls : Unheard(d)
  <2>1. CASE UNCHANGED commands
    BY <1>1, <1>4, <2>1, QueuesRest DEF TasksStay, PhoneInv, PhoneShapes
  <2>2. CASE SendCommand(c, "bytes")
    BY <1>1, <1>3, <1>4, <2>2, CommandSent
  <2> QED
    BY <1>1, <2>1, <2>2
<1>7. PhoneShapes' /\ TasksStay
  BY <1>1, <1>4, <1>5, <1>6 DEF PhoneInv, PhoneShapes, TasksStay
<1>8. LinkInv(c)'
  BY <1>1, <1>3, <1>4, <1>5, <1>6 DEF LinkInv, Up, Unheard, Beginning, Carrying
<1>9. PassedOn(c)' /\ EndInv(c)' /\ CloseInv(c)' /\ PhoneStep(c)
  <2>1. arrived[c] = 0 /\ chunks[c] = <<>> /\ taken[c] = <<>> /\ streamEnd[c] = "open"
    BY <1>2, <1>3 DEF PassedOn
  <2>2. PassedOn(c)'
    BY <1>1, <1>5, <2>1 DEF PassedOn
  <2>3. EndInv(c)' /\ PhoneStep(c)
    BY <1>1, <2>1 DEF EndInv, PhoneStep, OneStep
  <2>4. c \in inbound' /\ at'[c] # "done"
    BY <1>1, <1>4 DEF Carrying
  <2> QED
    BY <2>2, <2>3, <2>4 DEF CloseInv
<1>10. \A d \in PhoneCalls : d # c => Same(d)
  BY <1>1, <1>4, <1>5 DEF Same
<1> QED
  BY <1>6, <1>7, <1>8, <1>9, <1>10, OneCall

(* A chunk comes: it is passed on, or its tunnel loses its entry.                 *)
LEMMA FrameComes ==
    ASSUME PhoneInv, NEW c \in PhoneCalls, HandleTunnelFrame(c)
    PROVE  PhoneInv' /\ \A d \in PhoneCalls : PhoneStep(d)
<1>1. /\ UNCHANGED <<engineConn, dialled, at, kind, conn, finishedSides, io, commands, pending, atRelay, taken, streamEnd>>
      /\ atRelay[c] = "open" /\ arrived' = [arrived EXCEPT ![c] = @ + 1]
      /\ chunks' = [chunks EXCEPT ![c] = IF Fits(c) THEN Append(@, arrived[c] + 1) ELSE @]
      /\ inbound' = IF Fits(c) THEN inbound ELSE inbound \ {c}
  BY DEF HandleTunnelFrame, Arrival, engineVars, callVars, taskVars
<1>2. /\ arrived \in [PhoneCalls -> Nat] /\ chunks \in [PhoneCalls -> Seq(Nat)] /\ taken \in [PhoneCalls -> Seq(Nat)]
      /\ arrived[c] \in Nat /\ inbound \subseteq PhoneCalls
      /\ LinkInv(c) /\ PassedOn(c) /\ EndInv(c) /\ CloseInv(c)
  BY DEF PhoneInv, PhoneShapes, CallInv
<1>3. PICK q \in Seq(Nat) : q = chunks[c]
  BY <1>2
<1>4. PICK t \in Nat : t = Len(taken[c])
  BY <1>2
<1>5. PICK a \in Nat : a = arrived[c]
  BY <1>2
<1>6. /\ Append(q, a + 1) \in Seq(Nat) /\ Append(q, a + 1) # <<>> /\ Len(Append(q, a + 1)) = Len(q) + 1 /\ Len(q) \in Nat
      /\ \A i \in 1 .. Len(q) : Append(q, a + 1)[i] = q[i]
      /\ Append(q, a + 1)[Len(q) + 1] = a + 1
  BY AppendProperties, LenProperties
<1>7. /\ arrived' \in [PhoneCalls -> Nat] /\ arrived'[c] = a + 1
      /\ chunks' \in [PhoneCalls -> Seq(Nat)] /\ inbound' \subseteq PhoneCalls
      /\ Fits(c) => chunks'[c] = Append(q, a + 1) /\ inbound' = inbound /\ c \in inbound
      /\ ~Fits(c) => chunks'[c] = q /\ c \notin inbound' /\ (c \in inbound => ~RoomFor(c) \/ at[c] \in {"done", "dropped"})
      /\ \A d \in PhoneCalls : d # c =>
            arrived'[d] = arrived[d] /\ chunks'[d] = chunks[d] /\ (d \in inbound' <=> d \in inbound)
  BY <1>1, <1>2, <1>3, <1>5, <1>6 DEF Fits
<1>8. PhoneShapes' /\ TasksStay
  BY <1>1, <1>7 DEF PhoneInv, PhoneShapes, TasksStay
<1>9. QueueInv' /\ \A d \in PhoneCalls : Unheard(d) /\ (Asked(d)' <=> Asked(d))
  BY <1>1, <1>8, QueuesRest
<1>10. LinkInv(c)'
  BY <1>1, <1>2, <1>9 DEF LinkInv, Up
<1>11. /\ \A i \in 1 .. Len(q) : q[i] = t + i
       /\ t + Len(q) <= a /\ (c \in inbound => t + Len(q) = a)
  BY <1>2, <1>3, <1>4, <1>5 DEF PassedOn
<1>12. PassedOn(c)'
  <2>1. CASE Fits(c)
    <3>1. \A i \in 1 .. Len(q) + 1 : i \in 1 .. Len(q) \/ i = Len(q) + 1
      BY <1>6
    <3>2. ASSUME NEW i \in 1 .. Len(q) + 1 PROVE Append(q, a + 1)[i] = t + i
      <4>1. CASE i \in 1 .. Len(q)
        BY <1>6, <1>11, <4>1
      <4>2. CASE i = Len(q) + 1
        <5>1. a + 1 = t + (Len(q) + 1)
          <6>1. t + Len(q) = a /\ Len(q) \in Nat
            BY <1>6, <1>7, <1>11, <2>1
          <6> QED
            BY <6>1
        <5> QED
          BY <1>6, <4>2, <5>1
      <4> QED
        BY <3>1, <4>1, <4>2
    <3>3. t + Len(Append(q, a + 1)) = a + 1
      <4>1. t + Len(q) = a /\ Len(Append(q, a + 1)) = Len(q) + 1 /\ Len(q) \in Nat
        BY <1>6, <1>7, <1>11, <2>1
      <4> QED
        BY <4>1
    <3> QED
      <4>1. /\ chunks'[c] = Append(q, a + 1) /\ Len(taken'[c]) = t /\ arrived'[c] = a + 1 /\ atRelay'[c] # "none"
            /\ Len(Append(q, a + 1)) = Len(q) + 1
        BY <1>1, <1>4, <1>6, <1>7, <2>1
      <4> QED
        BY <3>2, <3>3, <4>1 DEF PassedOn
  <2>2. CASE ~Fits(c)
    BY <1>1, <1>4, <1>6, <1>7, <1>11, <2>2 DEF PassedOn
  <2> QED
    BY <2>1, <2>2
<1>13. EndInv(c)'
  BY <1>1, <1>2, <1>3, <1>7 DEF EndInv, Fits
<1>14. CloseInv(c)'
  <2>1. ~RoomFor(c) => q # <<>>
    BY <1>3, <1>6, PhoneTunnelsAssumption DEF RoomFor
  <2> QED
    BY <1>1, <1>2, <1>3, <1>6, <1>7, <1>9, <2>1 DEF CloseInv, LinkInv, Unheard
<1>15. PhoneStep(c) /\ \A d \in PhoneCalls : d # c => Same(d)
  BY <1>1, <1>5, <1>7 DEF PhoneStep, OneStep, Same
<1> QED
  BY <1>8, <1>9, <1>10, <1>12, <1>13, <1>14, <1>15, OneCall

LEMMA CloseComes ==
    ASSUME PhoneInv, NEW c \in PhoneCalls, HandleClose(c)
    PROVE  PhoneInv' /\ \A d \in PhoneCalls : PhoneStep(d)
<1>1. /\ UNCHANGED <<engineConn, dialled, at, kind, conn, finishedSides, io, commands, pending, chunks, arrived, taken, streamEnd>>
      /\ atRelay[c] = "open" /\ atRelay' = [atRelay EXCEPT ![c] = "closed"] /\ inbound' = inbound \ {c}
  BY DEF HandleClose, engineVars, callVars, taskVars, takenVars
<1>2. LinkInv(c) /\ PassedOn(c) /\ EndInv(c) /\ CloseInv(c)
  BY DEF PhoneInv, CallInv
<1>3. /\ atRelay' \in [PhoneCalls -> {"none", "open", "closed"}] /\ atRelay'[c] = "closed"
      /\ \A d \in PhoneCalls : d # c => atRelay'[d] = atRelay[d]
  BY <1>1 DEF PhoneInv, PhoneShapes
<1>4. PhoneShapes' /\ TasksStay
  BY <1>1, <1>3 DEF PhoneInv, PhoneShapes, TasksStay
<1>5. QueueInv' /\ \A d \in PhoneCalls : Unheard(d) /\ (Asked(d)' <=> Asked(d))
  BY <1>1, <1>4, QueuesRest
<1>6. LinkInv(c)' /\ PassedOn(c)' /\ EndInv(c)' /\ CloseInv(c)' /\ PhoneStep(c)
  BY <1>1, <1>2, <1>3, <1>5 DEF LinkInv, PassedOn, EndInv, CloseInv, PhoneStep, OneStep, Up, Beginning
<1>7. \A d \in PhoneCalls : d # c => Same(d)
  BY <1>1, <1>3 DEF Same
<1> QED
  BY <1>4, <1>5, <1>6, <1>7, OneCall

(* A command is taken from a queue.                                               *)
LEMMA CommandTaken ==
    ASSUME PhoneInv, NEW g \in Connections, commands[g] # <<>>,
           NEW c \in PhoneCalls, NEW w \in {"ask", "bytes", "close"}, Head(commands[g]) = Command(c, w),
           commands' = [commands EXCEPT ![g] = Tail(@)], UNCHANGED <<conn, io>>,
           \A d \in PhoneCalls : at[d] = "done" => at'[d] = "done"
    PROVE  /\ commands' \in [Connections -> Seq(PhoneCommands)] /\ QueueInv'
           /\ w = "ask" => conn[c] = g /\ Asked(c) /\ ~Asked(c)'
           /\ w = "close" => at[c] = "done"
           /\ \A d \in PhoneCalls : Asked(d)' => Asked(d)
           /\ \A d \in PhoneCalls :
                 conn[d] \in Connections /\ Closing(d) => Closing(d)' \/ (w = "close" /\ c = d)
<1>1. commands \in [Connections -> Seq(PhoneCommands)]
  BY DEF PhoneInv, PhoneShapes
<1>2. PICK q \in Seq(PhoneCommands) : q = commands[g] /\ q # <<>>
  BY <1>1
<1>3. /\ Tail(q) \in Seq(PhoneCommands) /\ Len(Tail(q)) = Len(q) - 1 /\ Len(q) \in Nat \ {0}
      /\ \A n \in 1 .. Len(Tail(q)) : Tail(q)[n] = q[n + 1] /\ n + 1 \in 1 .. Len(q) /\ n + 1 # 1
      /\ \A n \in 1 .. Len(q) : n = 1 \/ (n - 1 \in 1 .. Len(Tail(q)) /\ q[n] = Tail(q)[n - 1])
      /\ \A n \in 1 .. Len(q) : q[n] \in PhoneCommands
      /\ 1 \in 1 .. Len(q) /\ Head(q) = q[1]
  BY <1>2
<1>4. /\ commands'[g] = Tail(q) /\ \A h \in Connections : h # g => commands'[h] = commands[h]
      /\ commands' \in [Connections -> Seq(PhoneCommands)]
  BY <1>1, <1>2, <1>3
<1>5. PICK m \in PhoneCommands : m = q[1] /\ m = Head(commands[g])
  BY <1>2, <1>3
<1>6. m.call = c /\ m.what = w /\ m = Command(c, m.what)
  BY <1>5 DEF Command
<1>7. ASSUME NEW h \in Connections, NEW n \in 1 .. Len(commands[h])
      PROVE  LET x == commands[h][n] IN
             /\ io[h] = "up" /\ x.call \in PhoneCalls
             /\ x.what = "ask" => /\ conn[x.call] = h
                                  /\ \A k \in 1 .. Len(commands[h]) : k # n => commands[h][k] # x
             /\ x.what = "close" => at[x.call] = "done"
  <2>1. commands[h] \in Seq(PhoneCommands)
    BY <1>1
  <2>2. commands[h][n] \in PhoneCommands
    BY <2>1, ElementOfSeq
  <2>3. commands[h][n].call \in PhoneCalls
    BY <2>2 DEF PhoneCommands
  <2> QED
    BY <2>3 DEF PhoneInv, QueueInv
<1>8. \A h \in Connections : \A x : InQueue(h, x)' => InQueue(h, x)
  BY <1>2, <1>3, <1>4 DEF InQueue
<1>9. \A h \in Connections : \A x : InQueue(h, x) => InQueue(h, x)' \/ x = m
  <2> SUFFICES ASSUME NEW h \in Connections, NEW x, NEW n \in 1 .. Len(commands[h]), commands[h][n] = x
               PROVE  InQueue(h, x)' \/ x = m
    BY DEF InQueue
  <2>1. CASE h # g
    BY <1>4, <2>1 DEF InQueue
  <2>2. CASE h = g
    BY <1>2, <1>3, <1>4, <1>5, <2>2 DEF InQueue
  <2> QED
    BY <2>1, <2>2
<1>10. QueueInv'
  <2> SUFFICES ASSUME NEW h \in Connections, NEW n \in 1 .. Len(commands'[h])
               PROVE  LET x == commands'[h][n] IN
                      /\ io'[h] = "up"
                      /\ x.what = "ask" => /\ conn'[x.call] = h
                                           /\ \A k \in 1 .. Len(commands'[h]) : k # n => commands'[h][k] # x
                      /\ x.what = "close" => at'[x.call] = "done"
    BY DEF QueueInv
  <2>1. CASE h # g
    BY <1>4, <1>7, <2>1
  <2>2. CASE h = g
    <3>1. /\ n \in 1 .. Len(Tail(q)) /\ commands'[h][n] = q[n + 1] /\ n + 1 \in 1 .. Len(commands[h])
          /\ q = commands[h]
      BY <1>2, <1>3, <1>4, <2>2
    <3>2. PICK x : x = q[n + 1]
      OBVIOUS
    <3>3. /\ io[h] = "up" /\ x.call \in PhoneCalls
          /\ x.what = "ask" => /\ conn[x.call] = h
                               /\ \A k \in 1 .. Len(q) : k # n + 1 => q[k] # x
          /\ x.what = "close" => at[x.call] = "done"
      BY <1>7, <3>1, <3>2
    <3>4. ASSUME x.what = "ask", NEW k \in 1 .. Len(commands'[h]), k # n PROVE commands'[h][k] # x
      <4>1. k \in 1 .. Len(Tail(q)) /\ commands'[h][k] = q[k + 1] /\ k + 1 \in 1 .. Len(q) /\ k + 1 # n + 1
        <5>1. k \in 1 .. Len(Tail(q)) /\ commands'[h][k] = q[k + 1] /\ k + 1 \in 1 .. Len(q)
          BY <1>3, <1>4, <2>2
        <5>2. k \in Nat /\ n \in Nat
          BY <3>1, <5>1
        <5> QED
          BY <3>4, <5>1, <5>2
      <4> QED
        BY <3>3, <3>4, <4>1
    <3> QED
      BY <3>1, <3>2, <3>3, <3>4
  <2> QED
    BY <2>1, <2>2
<1>11. \A d \in PhoneCalls : Asked(d)' => Asked(d)
  BY <1>8 DEF Asked, Command
<1>12. InQueue(g, m)
  BY <1>2, <1>3, <1>5 DEF InQueue
<1>13. ASSUME m.what = "ask" PROVE conn[c] = g /\ Asked(c) /\ ~Asked(c)'
  <2>1. conn[c] = g /\ \A k \in 1 .. Len(q) : k # 1 => q[k] # m
    BY <1>2, <1>3, <1>5, <1>6, <1>7, <1>13
  <2>2. Asked(c)
    BY <1>6, <1>12, <1>13 DEF Asked
  <2>3. ~InQueue(g, m)'
    <3>1. ASSUME NEW n \in 1 .. Len(commands'[g]) PROVE commands'[g][n] # m
      <4>1. commands'[g] = Tail(q)
        BY <1>4
      <4>2. Tail(q)[n] = q[n + 1] /\ n + 1 \in 1 .. Len(q) /\ n + 1 # 1
        BY <1>3, <4>1
      <4> QED
        BY <2>1, <4>1, <4>2
    <3> QED
      BY <3>1 DEF InQueue
  <2>4. ASSUME NEW h \in Connections, h # g PROVE ~InQueue(h, m)
    <3>1. ASSUME NEW n \in 1 .. Len(commands[h]), commands[h][n] = m PROVE conn[c] = h
      BY <1>6, <1>7, <1>13, <3>1
    <3> QED
      BY <2>1, <2>4, <3>1 DEF InQueue
  <2>5. \A h \in Connections : ~InQueue(h, m)'
    BY <1>8, <2>3, <2>4
  <2>6. m = Command(c, "ask")
    BY <1>6, <1>13
  <2>7. (\A h \in Connections : ~InQueue(h, Command(c, "ask")))'
    BY <2>5, <2>6 DEF Command
  <2>8. ~Asked(c)'
    BY <2>7 DEF Asked
  <2> QED
    BY <2>1, <2>2, <2>8
<1>14. ASSUME m.what = "close" PROVE at[c] = "done"
  BY <1>2, <1>3, <1>5, <1>6, <1>7, <1>14
<1>15. ASSUME NEW d \in PhoneCalls, conn[d] \in Connections, Closing(d)
       PROVE  Closing(d)' \/ (m.what = "close" /\ c = d)
  <2>1. InQueue(conn[d], Command(d, "close"))' \/ Command(d, "close") = m
    BY <1>9, <1>15 DEF Closing, Command
  <2> QED
    BY <1>6, <2>1 DEF Closing, Command
<1>16. /\ w = "ask" => conn[c] = g /\ Asked(c) /\ ~Asked(c)'
       /\ w = "close" => at[c] = "done"
  BY <1>6, <1>13, <1>14
<1>17. \A d \in PhoneCalls :
          conn[d] \in Connections /\ Closing(d) => Closing(d)' \/ (w = "close" /\ c = d)
  BY <1>6, <1>15
<1> QED
  BY <1>4, <1>10, <1>11, <1>16, <1>17

(* The task does what a command asks for: it puts the question to the relay, sends
   what a call wrote, or closes its tunnel. *)
LEMMA CommandHandled ==
    ASSUME PhoneInv, NEW g \in Connections, HandleCommand(g)
    PROVE  PhoneInv' /\ \A d \in PhoneCalls : PhoneStep(d)
<1>1. PICK m \in PhoneCommands : m = Head(commands[g])
  <2>1. commands[g] \in Seq(PhoneCommands) /\ commands[g] # <<>>
    BY DEF HandleCommand, PhoneInv, PhoneShapes
  <2> QED
    BY <2>1
<1>2. PICK c \in PhoneCalls, w \in {"ask", "bytes", "close"} :
        m.call = c /\ m.what = w /\ Head(commands[g]) = Command(c, w)
  BY <1>1 DEF PhoneCommands, Command
<1>3. /\ io[g] = "up" /\ commands[g] # <<>> /\ commands' = [commands EXCEPT ![g] = Tail(@)]
      /\ pending' = IF w = "ask" THEN pending \cup {c} ELSE pending
      /\ inbound' = IF w = "close" THEN inbound \ {c} ELSE inbound
      /\ atRelay' = IF w = "close" THEN [atRelay EXCEPT ![c] = "closed"] ELSE atRelay
      /\ IF w = "bytes" /\ at[c] = "writing" THEN at' = [at EXCEPT ![c] = "reading"] ELSE at' = at
      /\ UNCHANGED <<engineConn, dialled, kind, conn, finishedSides, io, chunks, arrived, taken, streamEnd>>
  BY <1>1, <1>2 DEF HandleCommand, Is, CallTo, engineVars, takenVars
<1>4. at \in [PhoneCalls -> PhoneLabels]
  BY DEF PhoneInv, PhoneShapes
<1>5. \A d \in PhoneCalls : at[d] = "done" => at'[d] = "done"
  BY <1>3, <1>4
<1>6. /\ commands' \in [Connections -> Seq(PhoneCommands)] /\ QueueInv'
      /\ w = "ask" => conn[c] = g /\ Asked(c) /\ ~Asked(c)'
      /\ w = "close" => at[c] = "done"
      /\ \A d \in PhoneCalls : Asked(d)' => Asked(d)
      /\ \A d \in PhoneCalls :
            conn[d] \in Connections /\ Closing(d) => Closing(d)' \/ (w = "close" /\ c = d)
  <2>1. CASE w = "ask"
    <3>1. Head(commands[g]) = Command(c, "ask")
      BY <1>2, <2>1
    <3>2. /\ commands' \in [Connections -> Seq(PhoneCommands)] /\ QueueInv'
          /\ conn[c] = g /\ Asked(c) /\ ~Asked(c)'
          /\ \A d \in PhoneCalls : Asked(d)' => Asked(d)
          /\ \A d \in PhoneCalls : conn[d] \in Connections /\ Closing(d) => Closing(d)'
      BY <1>3, <1>5, <3>1, CommandTaken
    <3> QED
      BY <2>1, <3>2
  <2>2. CASE w = "bytes"
    <3>1. Head(commands[g]) = Command(c, "bytes")
      BY <1>2, <2>2
    <3>2. /\ commands' \in [Connections -> Seq(PhoneCommands)] /\ QueueInv'
          /\ \A d \in PhoneCalls : Asked(d)' => Asked(d)
          /\ \A d \in PhoneCalls : conn[d] \in Connections /\ Closing(d) => Closing(d)'
      BY <1>3, <1>5, <3>1, CommandTaken
    <3> QED
      BY <2>2, <3>2
  <2>3. CASE w = "close"
    <3>1. Head(commands[g]) = Command(c, "close")
      BY <1>2, <2>3
    <3>2. /\ commands' \in [Connections -> Seq(PhoneCommands)] /\ QueueInv'
          /\ at[c] = "done"
          /\ \A d \in PhoneCalls : Asked(d)' => Asked(d)
          /\ \A d \in PhoneCalls : conn[d] \in Connections /\ Closing(d) => Closing(d)' \/ c = d
      BY <1>3, <1>5, <3>1, CommandTaken
    <3> QED
      BY <2>3, <3>2
  <2> QED
    BY <1>2, <2>1, <2>2, <2>3
<1>8. /\ at' \in [PhoneCalls -> PhoneLabels] /\ \A d \in PhoneCalls : d # c => at'[d] = at[d]
      /\ at'[c] = at[c] \/ (at[c] = "writing" /\ at'[c] = "reading" /\ w = "bytes")
  BY <1>3, <1>4 DEF PhoneLabels
<1>9. /\ atRelay' \in [PhoneCalls -> {"none", "open", "closed"}]
      /\ \A d \in PhoneCalls : d # c => atRelay'[d] = atRelay[d]
      /\ atRelay'[c] = IF w = "close" THEN "closed" ELSE atRelay[c]
  BY <1>3 DEF PhoneInv, PhoneShapes
<1>10. PhoneShapes' /\ TasksStay
  BY <1>3, <1>6, <1>8, <1>9 DEF PhoneInv, PhoneShapes, TasksStay
<1>11. \A d \in PhoneCalls : d # c => Same(d) /\ Unheard(d)
  BY <1>2, <1>3, <1>6, <1>8, <1>9 DEF Same, Unheard
<1>12. LinkInv(c) /\ PassedOn(c) /\ EndInv(c) /\ CloseInv(c)
  BY DEF PhoneInv, CallInv
<1>13. c \in pending' => \/ w = "ask" /\ conn[c] = g /\ Asked(c) /\ ~Asked(c)'
                         \/ w # "ask" /\ c \in pending
  BY <1>2, <1>3, <1>6, <1>12 DEF LinkInv
<1>14. LinkInv(c)'
  <2>1. c \in pending' \/ Asked(c)' => c \in pending \/ Asked(c)
    BY <1>6, <1>13
  <2>2. c \in pending' => ~Asked(c)'
    BY <1>6, <1>12, <1>13 DEF LinkInv
  <2>3. w = "close" => at[c] = "done"
    BY <1>2, <1>6
  <2> QED
    BY <1>3, <1>8, <1>9, <1>12, <2>1, <2>2, <2>3 DEF LinkInv, Up, Beginning, Carrying
<1>15. PassedOn(c)'
  <2>1. c \in inbound' => c \in inbound
    BY <1>3
  <2>2. atRelay'[c] = "none" => atRelay[c] = "none"
    BY <1>9
  <2>3. arrived'[c] = arrived[c] /\ chunks'[c] = chunks[c] /\ taken'[c] = taken[c] /\ streamEnd'[c] = streamEnd[c]
    BY <1>3
  <2> QED
    BY <1>12, <2>1, <2>2, <2>3 DEF PassedOn
<1>16. EndInv(c)'
  BY <1>3, <1>8, <1>12 DEF EndInv
<1>17. CloseInv(c)'
  <2>1. w = "close" => atRelay'[c] = "closed"
    BY <1>9
  <2>2. w # "close" => (c \in inbound' <=> c \in inbound) /\ atRelay'[c] = atRelay[c]
    BY <1>3, <1>9
  <2>3. w # "close" /\ conn[c] \in Connections /\ Closing(c) => Closing(c)'
    BY <1>6
  <2> QED
    BY <1>3, <1>8, <1>12, <2>1, <2>2, <2>3 DEF CloseInv, LinkInv
<1>18. PhoneStep(c)
  BY <1>3 DEF PhoneStep, OneStep
<1> QED
  BY <1>10, <1>6, <1>11, <1>14, <1>15, <1>16, <1>17, <1>18, OneCall

(* A task ends: nothing is asked or owed over its connection any more, and no tunnel
   of it is open. *)
LEMMA TaskEnds ==
    ASSUME PhoneInv, NEW g \in Connections, IoTaskEnds(g)
    PROVE  PhoneInv' /\ \A d \in PhoneCalls : PhoneStep(d)
<1> DEFINE its == {c \in PhoneCalls : conn[c] = g}
<1>1. /\ io' = [io EXCEPT ![g] = "down"] /\ commands' = [commands EXCEPT ![g] = <<>>]
      /\ pending' = pending \ its /\ inbound' = inbound \ its
      /\ atRelay' = [c \in PhoneCalls |-> IF c \in its /\ atRelay[c] = "open" THEN "closed" ELSE atRelay[c]]
      /\ UNCHANGED <<engineConn, dialled, at, kind, conn, finishedSides, chunks, arrived, taken, streamEnd>>
  BY DEF IoTaskEnds, engineVars, callVars, takenVars
<1>2. /\ DOMAIN io = Connections /\ commands \in [Connections -> Seq(PhoneCommands)]
      /\ atRelay \in [PhoneCalls -> {"none", "open", "closed"}]
      /\ pending \subseteq PhoneCalls /\ inbound \subseteq PhoneCalls
  BY DEF PhoneInv, PhoneShapes
<1>3. /\ commands'[g] = <<>> /\ \A h \in Connections : h # g => commands'[h] = commands[h] /\ io'[h] = io[h]
      /\ commands' \in [Connections -> Seq(PhoneCommands)] /\ DOMAIN io' = Connections
  BY <1>1, <1>2
<1>4. PhoneShapes'
  <2>1. atRelay' \in [PhoneCalls -> {"none", "open", "closed"}]
    BY <1>1, <1>2
  <2>2. pending' \subseteq PhoneCalls /\ inbound' \subseteq PhoneCalls
    BY <1>1, <1>2
  <2> HIDE DEF its
  <2> QED
    BY <1>1, <1>3, <2>1, <2>2 DEF PhoneInv, PhoneShapes
<1>5. QueueInv'
  <2>1. \A n : n \notin 1 .. Len(commands'[g])
    BY <1>3
  <2> SUFFICES ASSUME NEW h \in Connections, NEW n \in 1 .. Len(commands'[h])
               PROVE  LET x == commands'[h][n] IN
                      /\ io'[h] = "up"
                      /\ x.what = "ask" => /\ conn'[x.call] = h
                                           /\ \A k \in 1 .. Len(commands'[h]) : k # n => commands'[h][k] # x
                      /\ x.what = "close" => at'[x.call] = "done"
    BY DEF QueueInv
  <2>2. h # g /\ commands'[h] = commands[h] /\ io'[h] = io[h]
    BY <1>3, <2>1
  <2> HIDE DEF its
  <2> QED
    BY <1>1, <2>2 DEF PhoneInv, QueueInv
<1>6. \A h \in Connections : \A x : InQueue(h, x)' <=> h # g /\ InQueue(h, x)
  BY <1>3 DEF InQueue
<1>7. ASSUME NEW c \in PhoneCalls PROVE CallInv(c)' /\ PhoneStep(c)
  <2>1. LinkInv(c) /\ PassedOn(c) /\ EndInv(c) /\ CloseInv(c)
    BY DEF PhoneInv, CallInv
  <2>2. /\ at'[c] = at[c] /\ kind'[c] = kind[c] /\ conn'[c] = conn[c] /\ finishedSides'[c] = finishedSides[c]
        /\ chunks'[c] = chunks[c] /\ arrived'[c] = arrived[c] /\ taken'[c] = taken[c] /\ streamEnd'[c] = streamEnd[c]
        /\ c \in inbound' => c \in inbound
    BY <1>1
  <2>3. Asked(c)' => Asked(c) /\ conn[c] # g
    <3>1. ASSUME NEW h \in Connections, InQueue(h, Command(c, "ask")) PROVE conn[c] = h
      <4>1. PICK n \in 1 .. Len(commands[h]) : commands[h][n] = Command(c, "ask")
        BY <3>1 DEF InQueue
      <4> QED
        BY <4>1 DEF PhoneInv, QueueInv, Command
    <3>2. Asked(c)' => \E h \in Connections : h # g /\ InQueue(h, Command(c, "ask"))
      BY <1>6 DEF Asked, Command
    <3> QED
      BY <3>1, <3>2 DEF Asked
  <2>4. CASE conn[c] # g
    <3>1. /\ atRelay'[c] = atRelay[c] /\ (c \in inbound' <=> c \in inbound) /\ (c \in pending' <=> c \in pending)
      BY <1>1, <2>4
    <3>2. conn[c] \in Connections => (Up(c)' <=> Up(c)) /\ (Closing(c) => Closing(c)')
      BY <1>3, <1>6, <2>2, <2>4 DEF Up, Closing, Command
    <3> HIDE DEF its
    <3>3. LinkInv(c)'
      BY <2>1, <2>2, <2>3, <3>1, <3>2 DEF LinkInv
    <3>4. PassedOn(c)' /\ EndInv(c)' /\ PhoneStep(c)
      BY <2>1, <2>2, <3>1 DEF PassedOn, EndInv, PhoneStep, OneStep
    <3>5. CloseInv(c)'
      BY <2>1, <2>2, <3>1, <3>2 DEF CloseInv, LinkInv
    <3> QED
      BY <3>3, <3>4, <3>5 DEF CallInv
  <2>5. CASE conn[c] = g
    <3>1. /\ atRelay'[c] # "open" /\ (atRelay'[c] = "none" <=> atRelay[c] = "none")
          /\ c \notin inbound' /\ c \notin pending' /\ ~Asked(c)'
      <4>1. c \in its
        BY <2>5
      <4> HIDE DEF its
      <4> QED
        BY <1>1, <1>2, <2>3, <2>5, <4>1
    <3> HIDE DEF its
    <3>2. LinkInv(c)'
      BY <2>1, <2>2, <3>1 DEF LinkInv
    <3>3. PassedOn(c)' /\ EndInv(c)' /\ PhoneStep(c)
      BY <2>1, <2>2, <3>1 DEF PassedOn, EndInv, PhoneStep, OneStep
    <3>4. CloseInv(c)'
      BY <3>1 DEF CloseInv
    <3> QED
      BY <3>2, <3>3, <3>4 DEF CallInv
  <2> QED
    BY <2>4, <2>5
<1> QED
  BY <1>4, <1>5, <1>7 DEF PhoneInv

(* At the start no call has anything.                                             *)
LEMMA PhoneBegins == PhoneInit => PhoneInv /\ Taken!StreamInit
<1> SUFFICES ASSUME PhoneInit PROVE PhoneInv /\ Taken!StreamInit
  OBVIOUS
<1>1. PhoneShapes
  BY DEF PhoneInit, PhoneShapes, PhoneLabels
<1>2. \A g \in Connections : \A n : n \notin 1 .. Len(commands[g])
  BY DEF PhoneInit
<1>3. QueueInv /\ \A c \in PhoneCalls : ~Asked(c)
  BY <1>2 DEF QueueInv, Asked, InQueue
<1>4. \A c \in PhoneCalls : LinkInv(c)
  BY <1>3 DEF PhoneInit, LinkInv, Beginning, Carrying
<1>5. \A c \in PhoneCalls : PassedOn(c) /\ EndInv(c) /\ CloseInv(c)
  BY DEF PhoneInit, PassedOn, EndInv, CloseInv
<1>6. Taken!StreamInit
  BY DEF PhoneInit, Taken!StreamInit
<1> QED
  BY <1>1, <1>3, <1>4, <1>5, <1>6 DEF PhoneInv, CallInv

(* Every step keeps the invariant, and does one thing to each stream.             *)
LEMMA PhoneSteps ==
    ASSUME PhoneInv, [PhoneNext]_phoneVars
    PROVE  PhoneInv' /\ \A d \in PhoneCalls : PhoneStep(d)
<1>1. ASSUME NEW c \in PhoneCalls, EngineCall(c)
      PROVE  PhoneInv' /\ \A d \in PhoneCalls : PhoneStep(d)
  BY <1>1, CallsTurn, CallAsks, CallAnswered, ReadersEnd DEF EngineCall
<1>2. ASSUME NEW c \in PhoneCalls, Reader(c)
      PROVE  PhoneInv' /\ \A d \in PhoneCalls : PhoneStep(d)
  BY <1>2, CallsTurn, ChunkRead, GatewaySends, ReadersEnd DEF Reader
<1>3. ASSUME NEW c \in PhoneCalls, IoTask(c)
      PROVE  PhoneInv' /\ \A d \in PhoneCalls : PhoneStep(d)
  BY <1>3, AnswersCome, CallOpens, FrameComes, CloseComes DEF IoTask
<1>4. ASSUME NEW g \in Connections, HandleCommand(g) \/ IoTaskEnds(g)
      PROVE  PhoneInv' /\ \A d \in PhoneCalls : PhoneStep(d)
  BY <1>4, CommandHandled, TaskEnds
<1>5. CASE CloseEngine \/ StopGateway \/ UNCHANGED phoneVars
  <2>1. engineConn' \in {engineConn, None}
        /\ UNCHANGED <<dialled, at, kind, conn, finishedSides, taskVars, tunnelVars, takenVars>>
    BY <1>5 DEF CloseEngine, StopGateway, phoneVars, engineVars, callVars
  <2> QED
    BY <2>1, PhoneRests
<1> QED
  BY <1>1, <1>2, <1>3, <1>4, <1>5 DEF PhoneNext

(* A tunnel of the phone implements TunnelStream: the call that reads it gets the
   chunks of the relay in order and none past a hole, though the task drops what the
   call is too slow for, and takes the stream for finished only if it got all. *)
THEOREM PhoneKeepsStreams == PhoneSpec => PhoneStreamsKept
<1>1. (\A c \in PhoneCalls : PhoneStep(c)) => [Taken!StreamNext]_(Taken!streamVars)
  <2> SUFFICES ASSUME \A c \in PhoneCalls : PhoneStep(c) PROVE Taken!StreamNext
    OBVIOUS
  <2>1. ASSUME NEW c \in PhoneCalls
        PROVE  Taken!Send(c) \/ Taken!Receive(c) \/ Taken!FinishStream(c) \/ Taken!Cut(c) \/ Taken!Rest(c)
    BY DEF PhoneStep, OneStep, Taken!Send, Taken!Receive, Taken!FinishStream, Taken!Cut, Taken!Rest, Taken!Keeps
  <2> QED
    BY <2>1 DEF Taken!StreamNext
<1>2. PhoneInv /\ [PhoneNext]_phoneVars => PhoneInv' /\ [Taken!StreamNext]_(Taken!streamVars)
  BY <1>1, PhoneSteps
<1> QED
  BY <1>2, PhoneBegins, PTL DEF PhoneSpec, PhoneStreamsKept, Taken!StreamSpec

(* An RPC or a connection of the gateway that came to its own end leaves no tunnel
   open at the relay: its close is queued at the moment it ends, at a task that is up
   as long as the tunnel is, and stays queued until the relay is told. *)
THEOREM CallsClose == PhoneSpec => []FinishedCallsClose
<1>1. PhoneInv => FinishedCallsClose
  <2> SUFFICES ASSUME PhoneInv, NEW c \in PhoneCalls,
                      at[c] = "done", kind[c] \in {"rpc", "web"}, atRelay[c] = "open"
               PROVE  \E n \in DOMAIN commands[conn[c]] : commands[conn[c]][n] = Command(c, "close")
    BY DEF FinishedCallsClose
  <2>1. Closing(c) /\ conn[c] \in Connections
    BY DEF PhoneInv, CallInv, CloseInv, LinkInv
  <2>2. DOMAIN commands[conn[c]] = 1 .. Len(commands[conn[c]])
    <3>1. commands[conn[c]] \in Seq(PhoneCommands)
      BY <2>1 DEF PhoneInv, PhoneShapes
    <3> QED
      BY <3>1, LenProperties
  <2> QED
    BY <2>1, <2>2 DEF Closing, InQueue
<1>2. PhoneInv /\ [PhoneNext]_phoneVars => PhoneInv'
  BY PhoneSteps
<1> QED
  BY <1>1, <1>2, PhoneBegins, PTL DEF PhoneSpec

(* The types of the phone that the calls' invariant does not hold.                *)
EngineTypes ==
    /\ dialled <= MaxConnections /\ gateway \in BOOLEAN
    /\ engines \in PhoneCalls \cup {None} /\ connection \in PhoneCalls \cup {None}
CallTypes ==
    /\ kind \in [PhoneCalls -> EngineKinds \cup {None, "web"}]
    /\ conn \in [PhoneCalls -> Connections \cup {None}]
    /\ finishedSides \in [PhoneCalls -> SUBSET {"client", "upstream"}]
TaskTypes == io \in [Connections -> {"none", "up", "down"}]
ChunkTypes ==
    /\ \A c \in PhoneCalls : Len(chunks[c]) <= InboundCapacity
    /\ arrived \in [PhoneCalls -> 0 .. MaxInbound]
PhoneTypes == EngineTypes /\ CallTypes /\ TaskTypes /\ ChunkTypes

LEMMA EngineHeld ==
    ASSUME EngineTypes, NEW c, engines' = Released(engines, c), connection' = Released(connection, c),
           UNCHANGED <<dialled, gateway>>
    PROVE  EngineTypes'
BY DEF EngineTypes, Released

(* A call takes the table and the connection one at a time and gives both back;
   a connection is dialled while there is room for one more.                      *)
LEMMA EngineTypesStep == PhoneInv /\ EngineTypes /\ [PhoneNext]_phoneVars => EngineTypes'
<1> SUFFICES ASSUME PhoneInv, EngineTypes, [PhoneNext]_phoneVars PROVE EngineTypes'
  OBVIOUS
<1>1. MaxConnections \in Nat /\ dialled \in Nat
  BY PhoneTunnelsAssumption DEF PhoneInv, PhoneShapes
<1>2. ASSUME UNCHANGED <<dialled, engines, connection>>, gateway' \in BOOLEAN PROVE EngineTypes'
  BY <1>2 DEF EngineTypes
<1>3. gateway \in BOOLEAN
  BY DEF EngineTypes
<1>4. ASSUME NEW c \in PhoneCalls, EngineCall(c) PROVE EngineTypes'
  <2>1. CASE \E k \in EngineKinds : BeginCall(c, k)
    BY <2>1 DEF BeginCall, EngineTypes
  <2>2. CASE Connect(c)
    <3>1. UNCHANGED <<connection, gateway>> /\ engines' = None
      BY <2>2 DEF Connect
    <3>2. dialled' <= MaxConnections
      BY <1>1, <2>2 DEF Connect, EngineTypes
    <3> QED
      BY <3>1, <3>2 DEF EngineTypes
  <2>3. CASE Ask(c)
    BY <2>3 DEF Ask, EngineTypes
  <2>4. CASE NotConnected(c) \/ AskFails(c) \/ RpcAnswered(c) \/ RpcFails(c)
    <3>1. /\ engines' = Released(engines, c) /\ connection' = Released(connection, c)
          /\ UNCHANGED <<dialled, gateway>>
      BY <2>4 DEF NotConnected, AskFails, RpcAnswered, RpcFails, ReleaseAll
    <3> QED
      BY <3>1, EngineHeld
  <2> QED
    BY <1>4, <2>1, <2>2, <2>3, <2>4 DEF EngineCall
<1>5. ASSUME NEW c \in PhoneCalls, Reader(c) PROVE EngineTypes'
  <2>1. CASE DropConnection(c)
    BY <2>1, EngineHeld DEF DropConnection, ReleaseAll
  <2>2. CASE ~DropConnection(c)
    <3>1. UNCHANGED <<engineVars, gateway>>
      BY <1>5, <2>2 DEF Reader, ReadChunk, callVars, DropPty, Accept, ReadHead, Upload, FinishSide, EndPump
    <3> QED
      BY <1>2, <1>3, <3>1 DEF engineVars
  <2> QED
    BY <2>1, <2>2
<1>6. ASSUME NEW c \in PhoneCalls, IoTask(c) PROVE EngineTypes'
  <2>1. UNCHANGED <<dialled, gateway>>
    BY <1>6 DEF IoTask, AnswerControl, TunnelOpens, TunnelRefused, HandleTunnelFrame, HandleClose, callVars,
                engineVars, ReleaseAll
  <2>2. \/ UNCHANGED <<engines, connection>>
        \/ engines' = Released(engines, c) /\ connection' = Released(connection, c)
    BY <1>6 DEF IoTask, AnswerControl, TunnelOpens, TunnelRefused, HandleTunnelFrame, HandleClose,
                engineVars, ReleaseAll
  <2> QED
    BY <1>2, <1>3, <2>1, <2>2, EngineHeld
<1>7. ASSUME NEW g \in Connections, HandleCommand(g) \/ IoTaskEnds(g) PROVE EngineTypes'
  BY <1>2, <1>3, <1>7 DEF HandleCommand, IoTaskEnds, engineVars, callVars
<1>8. CASE CloseEngine \/ StopGateway \/ UNCHANGED phoneVars
  BY <1>2, <1>3, <1>8 DEF CloseEngine, StopGateway, phoneVars, engineVars, callVars
<1> QED
  BY <1>4, <1>5, <1>6, <1>7, <1>8 DEF PhoneNext

(* A call is of one kind from its beginning, and uses the connection it asked on. *)
LEMMA CallTypesStep == PhoneInv /\ CallTypes /\ [PhoneNext]_phoneVars => CallTypes'
<1> SUFFICES ASSUME PhoneInv, CallTypes, [PhoneNext]_phoneVars PROVE CallTypes'
  OBVIOUS
<1>1. ASSUME UNCHANGED <<kind, conn, finishedSides>> PROVE CallTypes'
  BY <1>1 DEF CallTypes
<1>2. ASSUME NEW c \in PhoneCalls, EngineCall(c) PROVE CallTypes'
  <2>1. CASE \E k \in EngineKinds : BeginCall(c, k)
    BY <2>1 DEF BeginCall, CallTypes
  <2>2. CASE Ask(c)
    <3>1. engineConn \in Connections
      BY <2>2 DEF Ask, Connected, PhoneInv, PhoneShapes
    <3> QED
      BY <2>2, <3>1 DEF Ask, CallTypes
  <2>3. CASE Connect(c) \/ NotConnected(c) \/ AskFails(c) \/ RpcAnswered(c) \/ RpcFails(c)
    BY <1>1, <2>3 DEF Connect, NotConnected, AskFails, RpcAnswered, RpcFails
  <2> QED
    BY <1>2, <2>1, <2>2, <2>3 DEF EngineCall
<1>3. ASSUME NEW c \in PhoneCalls, Reader(c) PROVE CallTypes'
  <2>1. CASE Accept(c)
    BY <2>1 DEF Accept, CallTypes
  <2>2. CASE \E side \in {"client", "upstream"} : FinishSide(c, side)
    BY <2>2 DEF FinishSide, CallTypes
  <2>3. CASE ReadChunk(c) \/ DropPty(c) \/ ReadHead(c) \/ Upload(c) \/ EndPump(c) \/ DropConnection(c)
    BY <1>1, <2>3 DEF ReadChunk, DropPty, ReadHead, Upload, EndPump, DropConnection, callVars
  <2> QED
    BY <1>3, <2>1, <2>2, <2>3 DEF Reader
<1>4. ASSUME NEW c \in PhoneCalls, IoTask(c) PROVE CallTypes'
  BY <1>1, <1>4 DEF IoTask, AnswerControl, TunnelOpens, TunnelRefused, HandleTunnelFrame, HandleClose, callVars
<1>5. ASSUME NEW g \in Connections, HandleCommand(g) \/ IoTaskEnds(g) PROVE CallTypes'
  BY <1>1, <1>5 DEF HandleCommand, IoTaskEnds, callVars
<1>6. CASE CloseEngine \/ StopGateway \/ UNCHANGED phoneVars
  BY <1>1, <1>6 DEF CloseEngine, StopGateway, phoneVars, callVars
<1> QED
  BY <1>2, <1>3, <1>4, <1>5, <1>6 DEF PhoneNext

(* A task comes up with its connection and goes down once.                        *)
LEMMA TaskTypesStep == TaskTypes /\ [PhoneNext]_phoneVars => TaskTypes'
<1> SUFFICES ASSUME TaskTypes, [PhoneNext]_phoneVars PROVE TaskTypes'
  OBVIOUS
<1>1. ASSUME UNCHANGED io PROVE TaskTypes'
  BY <1>1 DEF TaskTypes
<1>2. ASSUME NEW c \in PhoneCalls, EngineCall(c) PROVE TaskTypes'
  <2>1. CASE Connect(c)
    BY <1>1, <2>1 DEF Connect, StartIoTask, TaskTypes
  <2>2. CASE ~Connect(c)
    BY <1>1, <1>2, <2>2 DEF EngineCall, BeginCall, NotConnected, Ask, AskFails, RpcAnswered, RpcFails, taskVars
  <2> QED
    BY <2>1, <2>2
<1>3. ASSUME NEW c \in PhoneCalls, Reader(c) PROVE TaskTypes'
  BY <1>1, <1>3 DEF Reader, ReadChunk, DropPty, Accept, ReadHead, Upload, FinishSide, EndPump, DropConnection,
                    taskVars
<1>4. ASSUME NEW c \in PhoneCalls, IoTask(c) PROVE TaskTypes'
  BY <1>1, <1>4 DEF IoTask, AnswerControl, TunnelOpens, TunnelRefused, HandleTunnelFrame, HandleClose, taskVars
<1>5. ASSUME NEW g \in Connections, HandleCommand(g) \/ IoTaskEnds(g) PROVE TaskTypes'
  BY <1>1, <1>5 DEF HandleCommand, IoTaskEnds, TaskTypes
<1>6. CASE CloseEngine \/ StopGateway \/ UNCHANGED phoneVars
  BY <1>1, <1>6 DEF CloseEngine, StopGateway, phoneVars, taskVars
<1> QED
  BY <1>2, <1>3, <1>4, <1>5, <1>6 DEF PhoneNext

(* The task waits for nobody: a chunk past the capacity is not passed on, so what
   waits for a call stays within it.                                              *)
LEMMA ChunkTypesStep == PhoneInv /\ ChunkTypes /\ [PhoneNext]_phoneVars => ChunkTypes'
<1> SUFFICES ASSUME PhoneInv, ChunkTypes, [PhoneNext]_phoneVars PROVE ChunkTypes'
  OBVIOUS
<1>1. /\ chunks \in [PhoneCalls -> Seq(Nat)] /\ arrived \in [PhoneCalls -> 0 .. MaxInbound]
      /\ MaxInbound \in Nat /\ InboundCapacity \in Nat \ {0}
      /\ \A c \in PhoneCalls : Len(chunks[c]) \in Nat /\ Len(chunks[c]) <= InboundCapacity
  BY PhoneTunnelsAssumption, LenProperties DEF PhoneInv, PhoneShapes, ChunkTypes
<1>2. ASSUME UNCHANGED <<chunks, arrived>> PROVE ChunkTypes'
  BY <1>2 DEF ChunkTypes
<1>3. ASSUME NEW c \in PhoneCalls, Take(c) PROVE ChunkTypes'
  <2>1. chunks[c] \in Seq(Nat) /\ chunks[c] # <<>>
    BY <1>1, <1>3 DEF Take
  <2>2. Len(Tail(chunks[c])) = Len(chunks[c]) - 1
    BY <2>1, HeadTailProperties
  <2>3. Len(Tail(chunks[c])) <= InboundCapacity
    BY <1>1, <2>2
  <2> QED
    BY <1>1, <1>3, <2>3 DEF Take, ChunkTypes
<1>4. ASSUME NEW c \in PhoneCalls, HandleTunnelFrame(c) PROVE ChunkTypes'
  <2>1. arrived[c] \in Nat /\ arrived[c] + 1 \in 0 .. MaxInbound
    BY <1>1, <1>4 DEF HandleTunnelFrame, Arrival
  <2>2. arrived' \in [PhoneCalls -> 0 .. MaxInbound]
    BY <1>1, <1>4, <2>1 DEF HandleTunnelFrame, Arrival
  <2>3. Len(Append(chunks[c], arrived[c] + 1)) = Len(chunks[c]) + 1
    BY <1>1, <2>1, AppendProperties
  <2>4. Fits(c) => Len(chunks[c]) + 1 <= InboundCapacity
    BY <1>1 DEF Fits, RoomFor
  <2>5. Len(chunks'[c]) <= InboundCapacity
    BY <1>1, <1>4, <2>3, <2>4 DEF HandleTunnelFrame
  <2> QED
    BY <1>1, <1>4, <2>2, <2>5 DEF HandleTunnelFrame, ChunkTypes
<1>5. ASSUME NEW c \in PhoneCalls, EngineCall(c) PROVE ChunkTypes'
  <2>1. CASE RpcAnswered(c)
    BY <1>3, <2>1 DEF RpcAnswered
  <2>2. CASE ~RpcAnswered(c)
    BY <1>2, <1>5, <2>2 DEF EngineCall, BeginCall, Connect, NotConnected, Ask, AskFails, RpcFails, tunnelVars,
                            takenVars
  <2> QED
    BY <2>1, <2>2
<1>6. ASSUME NEW c \in PhoneCalls, Reader(c) PROVE ChunkTypes'
  <2>1. CASE ReadChunk(c)
    BY <1>3, <2>1 DEF ReadChunk
  <2>2. CASE ~ReadChunk(c)
    BY <1>2, <1>6, <2>2 DEF Reader, DropPty, Accept, ReadHead, Upload, FinishSide, EndPump, DropConnection,
                            tunnelVars, takenVars
  <2> QED
    BY <2>1, <2>2
<1>7. ASSUME NEW c \in PhoneCalls, IoTask(c) PROVE ChunkTypes'
  <2>1. CASE ~HandleTunnelFrame(c)
    BY <1>2, <1>7, <2>1 DEF IoTask, AnswerControl, TunnelOpens, TunnelRefused, HandleClose, tunnelVars, takenVars
  <2> QED
    BY <1>4, <2>1
<1>8. ASSUME NEW g \in Connections, HandleCommand(g) \/ IoTaskEnds(g) PROVE ChunkTypes'
  BY <1>2, <1>8 DEF HandleCommand, IoTaskEnds, takenVars
<1>9. CASE CloseEngine \/ StopGateway \/ UNCHANGED phoneVars
  BY <1>2, <1>9 DEF CloseEngine, StopGateway, phoneVars, tunnelVars, takenVars
<1> QED
  BY <1>5, <1>6, <1>7, <1>8, <1>9 DEF PhoneNext

(* Every queue and table of the phone names calls of it, no call has more chunks
   waiting than the capacity, and one call at most holds the connection. *)
THEOREM PhoneTypeCorrect == PhoneSpec => []PhoneTypeOK
<1>1. PhoneInit => PhoneTypes
  <2> SUFFICES ASSUME PhoneInit PROVE PhoneTypes
    OBVIOUS
  <2>1. MaxConnections \in Nat /\ MaxInbound \in Nat /\ InboundCapacity \in Nat \ {0} /\ Len(<<>>) = 0
    BY PhoneTunnelsAssumption
  <2>2. \A c \in PhoneCalls : Len(chunks[c]) <= InboundCapacity
    BY <2>1 DEF PhoneInit
  <2> QED
    BY <2>1, <2>2 DEF PhoneInit, PhoneTypes, EngineTypes, CallTypes, TaskTypes, ChunkTypes
<1>2. PhoneInv /\ PhoneTypes => PhoneTypeOK
  <2> SUFFICES ASSUME PhoneInv, PhoneTypes PROVE PhoneTypeOK
    OBVIOUS
  <2>1. dialled \in 0 .. MaxConnections
    BY PhoneTunnelsAssumption DEF PhoneInv, PhoneShapes, PhoneTypes, EngineTypes
  <2>2. ASSUME NEW g \in Connections, NEW n \in DOMAIN commands[g]
        PROVE  commands[g][n] \in PhoneCommands
    <3>1. commands[g] \in Seq(PhoneCommands)
      BY DEF PhoneInv, PhoneShapes
    <3>2. n \in 1 .. Len(commands[g])
      BY <2>2, <3>1, LenProperties
    <3> QED
      BY <3>1, <3>2, ElementOfSeq
  <2>3. at \in [PhoneCalls -> PhoneLabels]
    BY DEF PhoneInv, PhoneShapes
  <2> QED
    BY <2>1, <2>2, <2>3 DEF PhoneTypeOK, PhoneInv, PhoneShapes, PhoneTypes, EngineTypes, CallTypes, TaskTypes,
                            ChunkTypes, PhoneLabels, PhoneCommands
<1>3. PhoneInv /\ PhoneTypes /\ [PhoneNext]_phoneVars => PhoneInv' /\ PhoneTypes'
  BY PhoneSteps, EngineTypesStep, CallTypesStep, TaskTypesStep, ChunkTypesStep DEF PhoneTypes
<1> QED
  BY <1>1, <1>2, <1>3, PhoneBegins, PTL DEF PhoneSpec

-------------------------------------------------------------------------------
(* The natural numbers are well-ordered, and so what holds of 0 and of the        *)
(* successor of every number it holds of, holds of every number.                  *)
LEMMA Least ==
    ASSUME NEW T \in SUBSET Nat, T # {}
    PROVE  \E x \in T : \A y \in T : x <= y
<1>1. IsWellFoundedOn(OpToRel(<, Nat), Nat)
  BY NatLessThanWellFounded
<1>2. PICK x \in T : \A y \in T : ~(<<y, x>> \in OpToRel(<, Nat))
  BY <1>1, WFMin
<1>3. \A m, n \in Nat : m < n => <<m, n>> \in OpToRel(<, Nat)
  BY DEF OpToRel
<1>4. ASSUME NEW y \in T PROVE x <= y
  <2>1. ~(y < x)
    BY <1>2, <1>3
  <2> QED
    BY <2>1
<1> QED
  BY <1>4

LEMMA Inductive ==
    ASSUME NEW S, 0 \in S, \A n \in Nat : n \in S => n + 1 \in S
    PROVE  Nat \subseteq S
<1> SUFFICES ASSUME Nat \ S # {} PROVE FALSE
  OBVIOUS
<1>1. PICK x \in Nat \ S : \A y \in Nat \ S : x <= y
  BY Least
<1>2. x # 0 /\ x - 1 \in Nat /\ ~(x <= x - 1) /\ x - 1 + 1 = x
  BY <1>1
<1> QED
  BY <1>1, <1>2

(* Induction up to a bound.                                                       *)
LEMMA InductiveTo ==
    ASSUME NEW n \in Nat, NEW S, 0 \in S, \A k \in 0 .. n - 1 : k \in S => k + 1 \in S
    PROVE  \A k \in 0 .. n : k \in S
<1> DEFINE T == {k \in Nat : k <= n => k \in S}
<1>1. 0 \in T
  OBVIOUS
<1>2. \A k \in Nat : k \in T => k + 1 \in T
  <2>1. ASSUME NEW k \in Nat, k \in T, k + 1 <= n PROVE k + 1 \in S
    <3>1. k \in 0 .. n - 1 /\ k \in S
      BY <2>1
    <3> QED
      BY <3>1
  <2> QED
    BY <2>1
<1>3. Nat \subseteq T
  <2> HIDE DEF T
  <2> QED
    BY <1>1, <1>2, Inductive
<1> QED
  BY <1>3

(* The values of a recursion exist: from base, step k leads from one of S to one  *)
(* of S.                                                                          *)
Runs(f, n, base, R) == f[0] = base /\ \A k \in 1 .. n : f[k] = R[k][f[k - 1]]

LEMMA Recursion ==
    ASSUME NEW n \in Nat, NEW S, NEW base \in S, NEW R \in [1 .. n -> [S -> S]]
    PROVE  \E f \in [0 .. n -> S] : Runs(f, n, base, R)
<1> DEFINE T == {k \in 0 .. n : \E f \in [0 .. k -> S] : Runs(f, k, base, R)}
<1>1. 0 \in T
  <2>1. [k \in 0 .. 0 |-> base] \in [0 .. 0 -> S] /\ Runs([k \in 0 .. 0 |-> base], 0, base, R)
    BY DEF Runs
  <2> QED
    BY <2>1
<1>2. ASSUME NEW k \in 0 .. n - 1, k \in T PROVE k + 1 \in T
  <2>1. PICK f \in [0 .. k -> S] : Runs(f, k, base, R)
    BY <1>2
  <2>2. PICK g : g = [j \in 0 .. k + 1 |-> IF j <= k THEN f[j] ELSE R[k + 1][f[k]]]
    OBVIOUS
  <2>3. k + 1 \in 1 .. n /\ f[k] \in S
    OBVIOUS
  <2>4. R[k + 1][f[k]] \in S
    BY <2>3
  <2>5. g \in [0 .. k + 1 -> S]
    BY <2>2, <2>4
  <2>6. Runs(g, k + 1, base, R)
    <3>1. g[0] = base
      BY <2>1, <2>2 DEF Runs
    <3>2. ASSUME NEW j \in 1 .. k + 1 PROVE g[j] = R[j][g[j - 1]]
      <4>1. CASE j <= k
        <5>1. j \in 1 .. k /\ j - 1 \in 0 .. k
          BY <4>1
        <5> QED
          BY <2>1, <2>2, <5>1 DEF Runs
      <4>2. CASE j = k + 1
        BY <2>2, <4>2
      <4> QED
        BY <4>1, <4>2
    <3> QED
      BY <3>1, <3>2 DEF Runs
  <2> QED
    BY <2>3, <2>5, <2>6
<1>3. \A k \in 0 .. n - 1 : k \in T => k + 1 \in T
  BY <1>2
<1>4. \A k \in 0 .. n : k \in T
  <2> HIDE DEF T
  <2> QED
    BY <1>1, <1>3, InductiveTo
<1>5. n \in 0 .. n
  OBVIOUS
<1> QED
  BY <1>4, <1>5

-------------------------------------------------------------------------------
(* The powers of Base, as far as a header goes.                                   *)
LEMMA Powers ==
    /\ Power \in [0 .. HeaderBytes -> Nat \ {0}] /\ Power[0] = 1
    /\ \A k \in 1 .. HeaderBytes : Power[k] = Base * Power[k - 1]
<1>1. HeaderBytes \in Nat /\ Base \in Nat \ {0}
  BY FramingAssumption
<1> DEFINE S == Nat \ {0}
<1>2. PICK R : R = [k \in 1 .. HeaderBytes |-> [x \in S |-> Base * x]]
  OBVIOUS
<1>3. R \in [1 .. HeaderBytes -> [S -> S]] /\ 1 \in S
  BY <1>1, <1>2
<1>4. PICK f \in [0 .. HeaderBytes -> S] : Runs(f, HeaderBytes, 1, R)
  <2> HIDE DEF S
  <2> QED
    BY <1>1, <1>3, Recursion
<1>5. ASSUME NEW k \in 1 .. HeaderBytes PROVE f[k] = Base * f[k - 1]
  <2>1. k - 1 \in 0 .. HeaderBytes /\ f[k - 1] \in S
    BY <1>1
  <2> QED
    BY <1>2, <1>4, <2>1 DEF Runs
<1>6. f = [k \in 0 .. HeaderBytes |-> IF k = 0 THEN 1 ELSE Base * f[k - 1]]
  <2>1. \A k \in 0 .. HeaderBytes : f[k] = IF k = 0 THEN 1 ELSE Base * f[k - 1]
    BY <1>1, <1>4, <1>5 DEF Runs
  <2> QED
    BY <1>4, <2>1
<1>7. Power = [k \in 0 .. HeaderBytes |-> IF k = 0 THEN 1 ELSE Base * Power[k - 1]]
  BY <1>6, Zenon DEF Power
<1>8. Power[0] = 1 /\ \A k \in 1 .. HeaderBytes : Power[k] = Base * Power[k - 1]
  BY <1>1, <1>7
<1>9. ASSUME NEW k \in 0 .. HeaderBytes - 1, Power[k] \in S PROVE Power[k + 1] \in S
  <2>1. k + 1 \in 1 .. HeaderBytes /\ (k + 1) - 1 = k
    BY <1>1
  <2>2. Power[k + 1] = Base * Power[k]
    BY <1>8, <2>1
  <2> QED
    BY <1>1, <1>9, <2>2
<1>10. \A k \in 0 .. HeaderBytes : Power[k] \in S
  <2> DEFINE T == {k \in 0 .. HeaderBytes : Power[k] \in S}
  <2>1. 0 \in T /\ \A k \in 0 .. HeaderBytes - 1 : k \in T => k + 1 \in T
    BY <1>1, <1>8, <1>9
  <2>2. \A k \in 0 .. HeaderBytes : k \in T
    <3> HIDE DEF T
    <3> QED
      BY <1>1, <2>1, InductiveTo
  <2> QED
    BY <2>2
<1> QED
  BY <1>7, <1>8, <1>10

-------------------------------------------------------------------------------
(* What division is.                                                              *)
LEMMA Quotient ==
    ASSUME NEW b \in Nat \ {0}, NEW a \in Nat
    PROVE  /\ a \div b \in Nat /\ a % b \in 0 .. b - 1 /\ a = b * (a \div b) + (a % b)
           /\ b * (a \div b) <= a /\ a < b * ((a \div b) + 1)
<1>1. a \div b \in Nat /\ a % b \in 0 .. b - 1 /\ a = b * (a \div b) + (a % b)
  OBVIOUS
<1>2. b * ((a \div b) + 1) = b * (a \div b) + b /\ b * (a \div b) \in Nat
  BY <1>1
<1> QED
  BY <1>1, <1>2

LEMMA QuotientIs ==
    ASSUME NEW b \in Nat \ {0}, NEW a \in Nat, NEW q \in Nat, b * q <= a, a < b * (q + 1)
    PROVE  q = a \div b
<1>1. PICK r : r = a - b * q
  OBVIOUS
<1>2. b * q \in Nat /\ b * (q + 1) = b * q + b
  OBVIOUS
<1>3. r \in 0 .. b - 1 /\ a = b * q + r
  BY <1>1, <1>2
<1> QED
  BY <1>3

LEMMA Times ==
    ASSUME NEW c \in Nat, NEW x \in Nat, NEW y \in Nat, x <= y
    PROVE  c * x <= c * y
<1>1. PICK z \in Nat : y = x + z
  OBVIOUS
<1>2. c * y = c * x + c * z /\ c * z \in Nat /\ c * x \in Nat
  BY <1>1
<1> QED
  BY <1>2

(* Dividing twice is dividing by the product.                                     *)
LEMMA QuotientTwice ==
    ASSUME NEW p \in Nat \ {0}, NEW b \in Nat \ {0}, NEW a \in Nat
    PROVE  (a \div p) \div b = a \div (b * p)
<1>1. PICK q \in Nat : q = a \div p
  BY Quotient
<1>2. PICK u \in Nat : u = q \div b
  BY Quotient
<1>3. p * q <= a /\ a < p * (q + 1)
  BY <1>1, Quotient
<1>4. b * u <= q /\ q < b * (u + 1)
  BY <1>2, Quotient
<1>5. b * u \in Nat /\ b * (u + 1) \in Nat /\ b * p \in Nat \ {0}
  OBVIOUS
<1>6. p * (b * u) <= p * q
  BY <1>4, <1>5, Times
<1>7. q + 1 \in Nat /\ q + 1 <= b * (u + 1)
  BY <1>4, <1>5
<1>8. p * (q + 1) <= p * (b * (u + 1))
  BY <1>5, <1>7, Times
<1>9. p * (b * u) = (b * p) * u /\ p * (b * (u + 1)) = (b * p) * (u + 1)
  OBVIOUS
<1>10. p * q \in Nat /\ p * (q + 1) \in Nat /\ (b * p) * u \in Nat /\ (b * p) * (u + 1) \in Nat
  OBVIOUS
<1>11. (b * p) * u <= a /\ a < (b * p) * (u + 1)
  BY <1>3, <1>6, <1>8, <1>9, <1>10
<1>12. u = a \div (b * p)
  BY <1>5, <1>11, QuotientIs
<1> QED
  BY <1>1, <1>2, <1>12

(* The value of a header, digit by digit.                                         *)
LEMMA HeaderValue ==
    ASSUME NEW h \in Seq(Nat)
    PROVE  \E v \in [0 .. Len(h) -> Nat] :
              /\ v[0] = 0 /\ \A k \in 1 .. Len(h) : v[k] = v[k - 1] * Base + h[k]
              /\ Length(h) = v[Len(h)]
<1>0. PICK n \in Nat : n = Len(h)
  BY LenProperties
<1>1. Base \in Nat /\ \A k \in 1 .. n : h[k] \in Nat
  BY <1>0, FramingAssumption, ElementOfSeq
<1>a. \A k \in 1 .. n : \A x \in Nat : x * Base + h[k] \in Nat
  BY <1>1
<1>2. PICK R : R = [k \in 1 .. n |-> [x \in Nat |-> x * Base + h[k]]]
  OBVIOUS
<1>3. R \in [1 .. n -> [Nat -> Nat]]
  BY <1>2, <1>a
<1>4. PICK f \in [0 .. n -> Nat] : Runs(f, n, 0, R)
  BY <1>1, <1>3, Recursion
<1>5. ASSUME NEW k \in 1 .. n PROVE f[k] = f[k - 1] * Base + h[k]
  <2>1. k - 1 \in 0 .. n /\ f[k - 1] \in Nat
    BY <1>1
  <2> QED
    BY <1>2, <1>4, <2>1 DEF Runs
<1>6. f = [k \in 0 .. n |-> IF k = 0 THEN 0 ELSE f[k - 1] * Base + h[k]]
  <2>1. \A k \in 0 .. n : f[k] = IF k = 0 THEN 0 ELSE f[k - 1] * Base + h[k]
    BY <1>1, <1>4, <1>5 DEF Runs
  <2> QED
    BY <1>4, <2>1
<1> DEFINE v == CHOOSE value : value = [k \in 0 .. n |-> IF k = 0 THEN 0 ELSE value[k - 1] * Base + h[k]]
<1>7. v = [k \in 0 .. n |-> IF k = 0 THEN 0 ELSE v[k - 1] * Base + h[k]]
  BY <1>6, Zenon
<1>8. Length(h) = v[n]
  BY <1>0, Zenon DEF Length
<1> HIDE DEF v
<1>9. v[0] = 0 /\ \A k \in 1 .. n : v[k] = v[k - 1] * Base + h[k]
  BY <1>1, <1>7
<1>10. ASSUME NEW k \in 0 .. n - 1, v[k] \in Nat PROVE v[k + 1] \in Nat
  <2>1. k + 1 \in 1 .. n /\ (k + 1) - 1 = k
    BY <1>1
  <2>2. v[k + 1] = v[k] * Base + h[k + 1]
    BY <1>9, <2>1
  <2> QED
    BY <1>a, <1>10, <2>1, <2>2
<1>11. \A k \in 0 .. n : v[k] \in Nat
  <2> DEFINE T == {k \in 0 .. n : v[k] \in Nat}
  <2>1. 0 \in T /\ \A k \in 0 .. n - 1 : k \in T => k + 1 \in T
    BY <1>1, <1>9, <1>10
  <2>2. \A k \in 0 .. n : k \in T
    <3> HIDE DEF T
    <3> QED
      BY <1>1, <2>1, InductiveTo
  <2> QED
    BY <2>2
<1>12. v \in [0 .. n -> Nat]
  BY <1>7, <1>11
<1> QED
  BY <1>0, <1>8, <1>9, <1>12

(* The header of a length that fits in it is read back as that length.            *)
Header(size) == [k \in 1 .. HeaderBytes |-> Digit(size, k)]

LEMMA Digits ==
    ASSUME NEW size \in Nat
    PROVE  /\ Header(size) \in Seq(0 .. Base - 1) /\ Header(size) \in Seq(Nat)
           /\ Len(Header(size)) = HeaderBytes
<1>1. HeaderBytes \in Nat /\ Base \in Nat \ {0}
  BY FramingAssumption
<1>2. ASSUME NEW k \in 1 .. HeaderBytes PROVE Digit(size, k) \in 0 .. Base - 1 /\ Digit(size, k) \in Nat
  <2>1. HeaderBytes - k \in 0 .. HeaderBytes
    BY <1>1
  <2>2. Power[HeaderBytes - k] \in Nat \ {0}
    BY <2>1, Powers
  <2>3. size \div Power[HeaderBytes - k] \in Nat
    BY <2>2, Quotient
  <2>4. (size \div Power[HeaderBytes - k]) % Base \in 0 .. Base - 1
    BY <1>1, <2>3, Quotient
  <2> QED
    BY <1>1, <2>4 DEF Digit
<1>3. Header(size) \in [1 .. HeaderBytes -> 0 .. Base - 1] /\ Header(size) \in [1 .. HeaderBytes -> Nat]
  BY <1>2 DEF Header
<1> QED
  BY <1>1, <1>3

LEMMA ReadsBack ==
    ASSUME NEW size \in Nat, size < Power[HeaderBytes]
    PROVE  Length(Header(size)) = size
<1>1. HeaderBytes \in Nat /\ Base \in Nat \ {0} /\ Len(Header(size)) = HeaderBytes /\ Header(size) \in Seq(Nat)
  BY FramingAssumption, Digits
<1>2. PICK v \in [0 .. HeaderBytes -> Nat] :
         /\ v[0] = 0 /\ \A k \in 1 .. HeaderBytes : v[k] = v[k - 1] * Base + Header(size)[k]
         /\ Length(Header(size)) = v[HeaderBytes]
  BY <1>1, HeaderValue
<1> DEFINE Good(k) == v[k] = size \div Power[HeaderBytes - k]
<1>3. Good(0)
  <2>1. HeaderBytes - 0 = HeaderBytes /\ Power[HeaderBytes] \in Nat \ {0}
    BY <1>1, Powers
  <2>2. Power[HeaderBytes] * 0 <= size /\ size < Power[HeaderBytes] * (0 + 1)
    BY <2>1
  <2>3. 0 = size \div Power[HeaderBytes]
    BY <2>1, <2>2, QuotientIs
  <2> QED
    BY <1>2, <2>1, <2>3
<1>4. ASSUME NEW k \in 0 .. HeaderBytes - 1, Good(k) PROVE Good(k + 1)
  <2>1. PICK j \in 0 .. HeaderBytes : j = HeaderBytes - (k + 1)
    BY <1>1
  <2>2. HeaderBytes - k = j + 1 /\ j + 1 \in 1 .. HeaderBytes /\ (j + 1) - 1 = j /\ k + 1 \in 1 .. HeaderBytes
        /\ (k + 1) - 1 = k
    BY <1>1, <2>1
  <2>3. PICK p \in Nat \ {0} : p = Power[j]
    BY <2>1, Powers
  <2>4. Power[j + 1] = Base * p
    BY <2>2, <2>3, Powers
  <2>5. PICK q \in Nat : q = size \div p
    BY Quotient
  <2>6. v[k] = q \div Base
    <3>1. (size \div p) \div Base = size \div (Base * p)
      BY <1>1, QuotientTwice
    <3>2. v[k] = size \div Power[j + 1]
      BY <1>4, <2>2
    <3> QED
      BY <2>4, <2>5, <3>1, <3>2
  <2>7. Header(size)[k + 1] = q % Base
    BY <2>1, <2>2, <2>3, <2>5 DEF Header, Digit
  <2>8. v[k + 1] = (q \div Base) * Base + (q % Base)
    BY <1>2, <2>2, <2>6, <2>7
  <2>9. q = Base * (q \div Base) + (q % Base) /\ q \div Base \in Nat
    BY <1>1, Quotient
  <2>10. v[k + 1] = q
    BY <1>1, <2>8, <2>9
  <2> QED
    BY <2>1, <2>3, <2>5, <2>10
<1>5. \A k \in 0 .. HeaderBytes : Good(k)
  <2> DEFINE T == {k \in 0 .. HeaderBytes : Good(k)}
  <2> HIDE DEF Good
  <2>1. 0 \in T /\ \A k \in 0 .. HeaderBytes - 1 : k \in T => k + 1 \in T
    BY <1>1, <1>3, <1>4
  <2>2. \A k \in 0 .. HeaderBytes : k \in T
    <3> HIDE DEF T
    <3> QED
      BY <1>1, <2>1, InductiveTo
  <2> QED
    BY <2>2
<1>6. v[HeaderBytes] = size \div 1
  <2>1. HeaderBytes \in 0 .. HeaderBytes /\ HeaderBytes - HeaderBytes = 0
    BY <1>1
  <2> QED
    BY <1>5, <2>1, Powers
<1>7. size \div 1 = size
  <2>1. 1 * size <= size /\ size < 1 * (size + 1)
    OBVIOUS
  <2> QED
    BY <2>1, QuotientIs
<1> QED
  BY <1>2, <1>6, <1>7

-------------------------------------------------------------------------------
(* The decoder.                                                                   *)
Decoders == [header : Seq(Nat), expected : Nat \cup {None}, payload : Seq(Nat), frames : Seq(Seq(Nat)),
             failed : BOOLEAN]
Failed == [NewDecoder EXCEPT !.failed = TRUE]

LEMMA FailedDecoder ==
    Failed \in Decoders /\ Failed.failed = TRUE /\ Failed.header = <<>> /\ Failed.expected = None
    /\ Failed.payload = <<>> /\ Failed.frames = <<>>
<1>1. <<>> \in Seq(Nat) /\ <<>> \in Seq(Seq(Nat))
  BY EmptySeq
<1> QED
  BY <1>1 DEF Failed, NewDecoder, Decoders

LEMMA ByteFed ==
    ASSUME NEW d \in Decoders, NEW b \in Nat
    PROVE  FeedByte(d, b) \in Decoders
<1>1. /\ d.header \in Seq(Nat) /\ d.expected \in Nat \cup {None} /\ d.payload \in Seq(Nat)
      /\ d.frames \in Seq(Seq(Nat)) /\ d.failed \in BOOLEAN
  BY DEF Decoders
<1>2. Append(d.header, b) \in Seq(Nat) /\ Append(d.payload, b) \in Seq(Nat) /\ <<>> \in Seq(Nat)
  BY <1>1, AppendProperties, EmptySeq
<1>3. Append(d.frames, Append(d.payload, b)) \in Seq(Seq(Nat))
  BY <1>1, <1>2, AppendProperties
<1>4. Length(Append(d.header, b)) \in Nat
  <2>1. Len(Append(d.header, b)) \in Nat
    BY <1>2, LenProperties
  <2>2. Len(Append(d.header, b)) \in 0 .. Len(Append(d.header, b))
    BY <2>1
  <2>3. PICK v \in [0 .. Len(Append(d.header, b)) -> Nat] : Length(Append(d.header, b)) = v[Len(Append(d.header, b))]
    BY <1>2, HeaderValue
  <2> QED
    BY <2>2, <2>3
<1>5. \A h \in Seq(Nat) : [d EXCEPT !.header = h] \in Decoders
  BY DEF Decoders
<1>6. \A h \in Seq(Nat), e \in Nat \cup {None} : [d EXCEPT !.header = h, !.expected = e] \in Decoders
  BY DEF Decoders
<1>7. \A p \in Seq(Nat) : [d EXCEPT !.payload = p] \in Decoders
  BY DEF Decoders
<1>8. \A p \in Seq(Nat), e \in Nat \cup {None}, f \in Seq(Seq(Nat)) :
         [d EXCEPT !.payload = p, !.expected = e, !.frames = f] \in Decoders
  BY DEF Decoders
<1>9. HeaderByte(d, b) \in Decoders
  BY <1>2, <1>4, <1>5, <1>6, FailedDecoder DEF HeaderByte, Fail, Failed
<1>10. PayloadByte(d, b) \in Decoders
  BY <1>2, <1>3, <1>7, <1>8, FailedDecoder DEF PayloadByte, Fail, Failed
<1> QED
  BY <1>9, <1>10 DEF FeedByte

(* A message is fed byte by byte.                                                 *)
LEMMA MessageFed ==
    ASSUME NEW d \in Decoders, NEW m \in Seq(Nat)
    PROVE  \E g \in [0 .. Len(m) -> Decoders] :
              /\ g[0] = [d EXCEPT !.frames = <<>>]
              /\ \A k \in 1 .. Len(m) : g[k] = FeedByte(g[k - 1], m[k])
              /\ Feed(d, m) = g[Len(m)]
<1>0. PICK n \in Nat : n = Len(m)
  BY LenProperties
<1>1. \A k \in 1 .. n : m[k] \in Nat
  BY <1>0, ElementOfSeq
<1>2. PICK d0 : d0 = [d EXCEPT !.frames = <<>>]
  OBVIOUS
<1>3. d0 \in Decoders
  <2>1. <<>> \in Seq(Seq(Nat))
    BY EmptySeq
  <2> QED
    BY <1>2, <2>1 DEF Decoders
<1>4. PICK R : R = [k \in 1 .. n |-> [x \in Decoders |-> FeedByte(x, m[k])]]
  OBVIOUS
<1>5. R \in [1 .. n -> [Decoders -> Decoders]]
  <2>1. \A k \in 1 .. n : [x \in Decoders |-> FeedByte(x, m[k])] \in [Decoders -> Decoders]
    BY <1>1, ByteFed
  <2> QED
    BY <1>4, <2>1
<1>6. PICK f \in [0 .. n -> Decoders] : Runs(f, n, d0, R)
  BY <1>3, <1>5, Recursion
<1>7. ASSUME NEW k \in 1 .. n PROVE f[k] = FeedByte(f[k - 1], m[k])
  <2>1. k - 1 \in 0 .. n /\ f[k - 1] \in Decoders
    OBVIOUS
  <2> QED
    BY <1>4, <1>6, <2>1 DEF Runs
<1>8. f = [k \in 0 .. n |-> IF k = 0 THEN d0 ELSE FeedByte(f[k - 1], m[k])]
  <2>1. \A k \in 0 .. n : f[k] = IF k = 0 THEN d0 ELSE FeedByte(f[k - 1], m[k])
    BY <1>6, <1>7 DEF Runs
  <2> QED
    BY <1>6, <2>1
<1> DEFINE g == CHOOSE fed : fed = [k \in 0 .. n |-> IF k = 0 THEN d0 ELSE FeedByte(fed[k - 1], m[k])]
<1>9. g = [k \in 0 .. n |-> IF k = 0 THEN d0 ELSE FeedByte(g[k - 1], m[k])]
  BY <1>8, Zenon
<1>10. Feed(d, m) = g[n]
  BY <1>0, <1>2, Zenon DEF Feed
<1> HIDE DEF g
<1>11. g[0] = d0 /\ \A k \in 1 .. n : g[k] = FeedByte(g[k - 1], m[k])
  BY <1>9
<1>12. ASSUME NEW k \in 0 .. n - 1, g[k] \in Decoders PROVE g[k + 1] \in Decoders
  <2>1. k + 1 \in 1 .. n /\ (k + 1) - 1 = k
    OBVIOUS
  <2>2. g[k + 1] = FeedByte(g[k], m[k + 1])
    BY <1>11, <2>1
  <2> QED
    BY <1>1, <1>12, <2>1, <2>2, ByteFed
<1>13. \A k \in 0 .. n : g[k] \in Decoders
  <2> DEFINE T == {k \in 0 .. n : g[k] \in Decoders}
  <2>1. 0 \in T /\ \A k \in 0 .. n - 1 : k \in T => k + 1 \in T
    BY <1>3, <1>11, <1>12
  <2>2. \A k \in 0 .. n : k \in T
    <3> HIDE DEF T
    <3> QED
      BY <2>1, InductiveTo
  <2> QED
    BY <2>2
<1>14. g \in [0 .. n -> Decoders]
  BY <1>9, <1>13
<1> QED
  BY <1>0, <1>2, <1>10, <1>11, <1>14

(* The decoder has read done bytes of frame i, of the given size.                 *)
ByteOf(i, size, k) == IF k <= HeaderBytes THEN Digit(size, k) ELSE i
HeaderPart(size, done) == [k \in 1 .. done |-> Digit(size, k)]
HasRead(d, i, size, done) ==
    /\ d.failed = FALSE
    /\ done < HeaderBytes =>
          d.expected = None /\ d.payload = <<>> /\ d.header = HeaderPart(size, done)
    /\ done >= HeaderBytes =>
          d.expected = size /\ d.header = <<>> /\ d.payload = Payload(i, done - HeaderBytes)

LEMMA Grows ==
    ASSUME NEW q \in Seq(Nat), NEW x \in Nat, NEW r \in Seq(Nat), Len(r) = Len(q) + 1,
           \A k \in 1 .. Len(q) : r[k] = q[k], r[Len(q) + 1] = x
    PROVE  Append(q, x) = r
<1>1. Append(q, x) \in Seq(Nat) /\ Len(Append(q, x)) = Len(q) + 1 /\ Len(q) \in Nat
      /\ \A k \in 1 .. Len(q) + 1 : Append(q, x)[k] = r[k]
  OBVIOUS
<1> QED
  BY <1>1, SeqEqual

LEMMA HeaderGrows ==
    ASSUME NEW size \in Nat, NEW done \in Nat, done < HeaderBytes
    PROVE  /\ Append(HeaderPart(size, done), Digit(size, done + 1)) = HeaderPart(size, done + 1)
           /\ HeaderPart(size, done) \in Seq(Nat) /\ Len(HeaderPart(size, done)) = done
           /\ Digit(size, done + 1) \in Nat /\ HeaderPart(size, HeaderBytes) = Header(size)
           /\ Len(HeaderPart(size, done + 1)) = done + 1
<1>1. HeaderBytes \in Nat
  BY FramingAssumption
<1>2. \A k \in 1 .. HeaderBytes : Digit(size, k) \in Nat
  <2>1. \A k \in 1 .. HeaderBytes : Header(size)[k] \in Nat
    BY Digits, ElementOfSeq
  <2> QED
    BY <2>1 DEF Header
<1>3. ASSUME NEW n \in 0 .. HeaderBytes
      PROVE  HeaderPart(size, n) \in Seq(Nat) /\ Len(HeaderPart(size, n)) = n
  <2>1. HeaderPart(size, n) \in [1 .. n -> Nat]
    BY <1>1, <1>2 DEF HeaderPart
  <2> QED
    BY <2>1
<1>4. done \in 0 .. HeaderBytes /\ done + 1 \in 0 .. HeaderBytes /\ done + 1 \in 1 .. HeaderBytes
  BY <1>1
<1>5. \A k \in 1 .. done : HeaderPart(size, done + 1)[k] = HeaderPart(size, done)[k]
  BY DEF HeaderPart
<1>6. HeaderPart(size, done + 1)[done + 1] = Digit(size, done + 1)
  BY DEF HeaderPart
<1>7. HeaderPart(size, HeaderBytes) = Header(size)
  BY DEF HeaderPart, Header
<1> QED
  BY <1>2, <1>3, <1>4, <1>5, <1>6, <1>7, Grows

LEMMA PayloadGrows ==
    ASSUME NEW i \in Nat, NEW n \in Nat
    PROVE  /\ Append(Payload(i, n), i) = Payload(i, n + 1)
           /\ Payload(i, n) \in Seq(Nat) /\ Len(Payload(i, n)) = n /\ Len(Payload(i, n + 1)) = n + 1
           /\ Payload(i, 0) = <<>>
<1>1. \A m \in Nat : Payload(i, m) \in Seq(Nat) /\ Len(Payload(i, m)) = m
  <2>1. \A m \in Nat : Payload(i, m) \in [1 .. m -> Nat]
    BY DEF Payload
  <2> QED
    BY <2>1
<1>2. \A k \in 1 .. n : Payload(i, n + 1)[k] = Payload(i, n)[k]
  BY DEF Payload
<1>3. Payload(i, n + 1)[n + 1] = i
  BY DEF Payload
<1>4. Payload(i, 0) = <<>>
  BY <1>1
<1>5. /\ Payload(i, n) \in Seq(Nat) /\ Len(Payload(i, n)) = n
      /\ Payload(i, n + 1) \in Seq(Nat) /\ Len(Payload(i, n + 1)) = n + 1
  BY <1>1
<1>6. Append(Payload(i, n), i) = Payload(i, n + 1)
  BY <1>2, <1>3, <1>5, Grows
<1> QED
  BY <1>4, <1>5, <1>6

(* The next byte of the frame takes the decoder one byte on, to the next frame    *)
(* after the last, or makes it fail when the message has completed too many.      *)
OneByteOn(d, e, i, size, done) ==
    \/ done + 1 < HeaderBytes + size /\ HasRead(e, i, size, done + 1) /\ e.frames = d.frames
    \/ /\ done + 1 = HeaderBytes + size /\ \A s : HasRead(e, i + 1, s, 0)
       /\ e.frames = Append(d.frames, Payload(i, size)) /\ Len(d.frames) # FramesPerFeed
    \/ e = Failed

LEMMA ByteRead ==
    ASSUME NEW d \in Decoders, NEW i \in Nat, NEW size \in 1 .. FrameBytes, NEW done \in Nat,
           done < HeaderBytes + size, HasRead(d, i, size, done),
           NEW e, e = FeedByte(d, ByteOf(i, size, done + 1))
    PROVE  OneByteOn(d, e, i, size, done)
<1> USE DEF OneByteOn
<1> PICK b : b = ByteOf(i, size, done + 1) /\ e = FeedByte(d, b)
  OBVIOUS
<1>1. /\ HeaderBytes \in Nat \ {0} /\ FrameBytes \in Nat /\ size \in Nat \ {0} /\ size < Power[HeaderBytes]
      /\ None \notin Nat
  <2>1. HeaderBytes \in Nat \ {0} /\ None \notin Nat /\ FrameBytes \in 1 .. Power[HeaderBytes] - 2
    BY FramingAssumption
  <2>2. HeaderBytes \in 0 .. HeaderBytes
    BY <2>1
  <2>3. Power[HeaderBytes] \in Nat
    BY <2>2, Powers
  <2> QED
    BY <2>1, <2>3
<1>2. DOMAIN d = {"header", "expected", "payload", "frames", "failed"}
  BY DEF Decoders
<1>3. CASE done < HeaderBytes
  <2>1. d.expected = None /\ d.payload = <<>> /\ d.header = HeaderPart(size, done) /\ d.failed = FALSE
    BY <1>3 DEF HasRead
  <2>2. b = Digit(size, done + 1)
    BY <1>1, <1>3 DEF ByteOf
  <2>3. e = HeaderByte(d, b)
    BY <2>1 DEF FeedByte
  <2>4. Append(d.header, b) = HeaderPart(size, done + 1) /\ Len(HeaderPart(size, done + 1)) = done + 1
    <3>1. /\ Append(HeaderPart(size, done), Digit(size, done + 1)) = HeaderPart(size, done + 1)
          /\ Len(HeaderPart(size, done + 1)) = done + 1
      BY <1>1, <1>3, HeaderGrows
    <3> QED
      BY <2>1, <2>2, <3>1
  <2>5. CASE done + 1 < HeaderBytes
    <3>1. e = [d EXCEPT !.header = HeaderPart(size, done + 1)]
      BY <2>3, <2>4, <2>5 DEF HeaderByte
    <3>2. e.header = HeaderPart(size, done + 1) /\ e.expected = None /\ e.payload = <<>> /\ e.failed = FALSE
          /\ e.frames = d.frames
      BY <1>2, <2>1, <3>1
    <3>3. HasRead(e, i, size, done + 1)
      BY <1>1, <2>5, <3>2 DEF HasRead
    <3> QED
      BY <1>1, <2>5, <3>2, <3>3
  <2>6. CASE done + 1 = HeaderBytes
    <3>1. Append(d.header, b) = Header(size)
      <4>1. HeaderPart(size, HeaderBytes) = Header(size)
        BY <1>1, <1>3, HeaderGrows
      <4> QED
        BY <2>4, <2>6, <4>1
    <3>2. Length(Append(d.header, b)) = size /\ Allowed(size)
      BY <1>1, <3>1, ReadsBack DEF Allowed
    <3>3. e = [d EXCEPT !.header = <<>>, !.expected = size]
      <4>1. ~(Len(Append(d.header, b)) < HeaderBytes)
        BY <1>1, <2>4, <2>6
      <4> QED
        BY <2>3, <3>2, <4>1 DEF HeaderByte
    <3>4. e.header = <<>> /\ e.expected = size /\ e.payload = <<>> /\ e.failed = FALSE /\ e.frames = d.frames
      BY <1>2, <2>1, <3>3
    <3>5. done + 1 - HeaderBytes = 0 /\ Payload(i, 0) = <<>>
      BY <1>1, <2>6, PayloadGrows
    <3>6. HasRead(e, i, size, done + 1)
      BY <1>1, <2>6, <3>4, <3>5 DEF HasRead
    <3> QED
      BY <1>1, <2>6, <3>4, <3>6
  <2> QED
    BY <1>1, <1>3, <2>5, <2>6
<1>4. CASE done >= HeaderBytes
  <2>1. PICK n \in Nat : n = done - HeaderBytes
    BY <1>1, <1>4
  <2>2. d.expected = size /\ d.header = <<>> /\ d.payload = Payload(i, n) /\ d.failed = FALSE
    BY <1>4, <2>1 DEF HasRead
  <2>3. b = i
    BY <1>1, <1>4 DEF ByteOf
  <2>4. e = PayloadByte(d, b)
    BY <1>1, <2>2 DEF FeedByte
  <2>5. Append(d.payload, b) = Payload(i, n + 1) /\ Len(Payload(i, n + 1)) = n + 1
    BY <2>2, <2>3, PayloadGrows
  <2>6. CASE n + 1 < size
    <3>1. e = [d EXCEPT !.payload = Payload(i, n + 1)]
      BY <2>2, <2>4, <2>5, <2>6 DEF PayloadByte
    <3>2. e.payload = Payload(i, n + 1) /\ e.expected = size /\ e.header = <<>> /\ e.failed = FALSE
          /\ e.frames = d.frames
      BY <1>2, <2>2, <3>1
    <3>3. n + 1 = done + 1 - HeaderBytes /\ ~(done + 1 < HeaderBytes) /\ done + 1 < HeaderBytes + size
      BY <1>1, <1>4, <2>1, <2>6
    <3>4. HasRead(e, i, size, done + 1)
      BY <1>1, <3>2, <3>3 DEF HasRead
    <3> QED
      BY <3>2, <3>3, <3>4
  <2>7. CASE n + 1 = size
    <3>1. done + 1 = HeaderBytes + size
      BY <1>1, <2>1, <2>7
    <3>a. ~(Len(Append(d.payload, b)) < d.expected) /\ Append(d.payload, b) = Payload(i, size)
      BY <1>1, <2>2, <2>5, <2>7
    <3>2. CASE Len(d.frames) = FramesPerFeed
      BY <2>4, <3>a, <3>2 DEF PayloadByte, Fail, Failed
    <3>3. CASE Len(d.frames) # FramesPerFeed
      <4>1. e = [d EXCEPT !.payload = <<>>, !.expected = None, !.frames = Append(d.frames, Payload(i, size))]
        BY <2>4, <3>a, <3>3 DEF PayloadByte
      <4>2. e.payload = <<>> /\ e.expected = None /\ e.header = <<>> /\ e.failed = FALSE
            /\ e.frames = Append(d.frames, Payload(i, size))
        BY <1>2, <2>2, <4>1
      <4>3. \A s : HeaderPart(s, 0) = <<>>
        BY DEF HeaderPart
      <4>4. \A s : HasRead(e, i + 1, s, 0)
        BY <1>1, <4>2, <4>3 DEF HasRead
      <4> QED
        BY <3>1, <3>3, <4>2, <4>4
    <3> QED
      BY <3>2, <3>3
  <2> QED
    BY <1>1, <2>1, <2>6, <2>7
<1> QED
  BY <1>1, <1>3, <1>4

-------------------------------------------------------------------------------
(* Where the frames of the sizes ss lie on the wire: start[i] bytes before the    *)
(* first of frame i, a negative number when some of it has been taken off.        *)
Layout(ss, w, start) ==
    /\ start \in [1 .. Len(ss) + 1 -> Int] /\ start[Len(ss) + 1] = Len(w)
    /\ \A i \in 1 .. Len(ss) :
          /\ start[i + 1] = start[i] + HeaderBytes + ss[i] /\ start[i + 1] <= Len(w)
          /\ \A k \in 1 .. HeaderBytes + ss[i] : start[i] + k >= 1 => w[start[i] + k] = ByteOf(i, ss[i], k)

(* After p bytes of the wire the decoder has completed c frames and stands in the *)
(* next one, if it was sent.                                                      *)
ReadTo(ss, d, start, c, p) ==
    /\ c \in 0 .. Len(ss) /\ start[c + 1] <= p /\ (c < Len(ss) => p < start[c + 2])
    /\ HasRead(d, c + 1, ss[c + 1], p - start[c + 1])

Completed(ss, frames, c0, c) ==
    /\ Len(frames) = c - c0 /\ Len(frames) <= FramesPerFeed
    /\ \A j \in 1 .. Len(frames) : frames[j] = Payload(c0 + j, ss[c0 + j])

LEMMA NothingRead ==
    ASSUME NEW d, NEW i, NEW s, NEW t, HasRead(d, i, s, 0)
    PROVE  HasRead(d, i, t, 0)
<1>1. HeaderBytes \in Nat \ {0}
  BY FramingAssumption
<1>2. HeaderPart(s, 0) = HeaderPart(t, 0)
  BY DEF HeaderPart
<1> QED
  BY <1>1, <1>2 DEF HasRead

(* One byte of a message.                                                         *)
LEMMA NextByte ==
    ASSUME NEW ss \in Seq(1 .. FrameBytes), NEW w \in Seq(Nat), NEW start, Layout(ss, w, start),
           NEW d \in Decoders, NEW c0 \in Nat, NEW c \in Nat, c0 <= c, NEW p \in Nat, p < Len(w),
           ReadTo(ss, d, start, c, p), Completed(ss, d.frames, c0, c), NEW e, e = FeedByte(d, w[p + 1])
    PROVE  \/ e = Failed
           \/ \E c1 \in Nat : c0 <= c1 /\ ReadTo(ss, e, start, c1, p + 1) /\ Completed(ss, e.frames, c0, c1)
<1>1. /\ Len(ss) \in Nat /\ Len(w) \in Nat /\ HeaderBytes \in Nat \ {0} /\ FramesPerFeed \in Nat
      /\ \A i \in 1 .. Len(ss) : ss[i] \in 1 .. FrameBytes
  BY FramingAssumption, LenProperties, ElementOfSeq
<1>2. c < Len(ss) /\ c + 1 \in 1 .. Len(ss) /\ c + 1 \in 1 .. Len(ss) + 1 /\ c + 2 \in 1 .. Len(ss) + 1
      /\ (c + 1) + 1 = c + 2
  <2>1. ASSUME c = Len(ss) PROVE FALSE
    <3>1. start[c + 1] = Len(w)
      BY <2>1 DEF Layout
    <3>2. start[c + 1] <= p
      BY DEF ReadTo
    <3> QED
      BY <1>1, <3>1, <3>2
  <2> QED
    BY <1>1, <2>1 DEF ReadTo
<1>3. PICK size \in 1 .. FrameBytes : size = ss[c + 1]
  BY <1>1, <1>2
<1>4. PICK a \in Int, b \in Int : a = start[c + 1] /\ b = start[c + 2] /\ b = a + HeaderBytes + size
  BY <1>2, <1>3 DEF Layout
<1>5. PICK done \in Nat : done = p - a
  BY <1>4 DEF ReadTo
<1>6. size \in Nat /\ done < HeaderBytes + size /\ HasRead(d, c + 1, size, done)
  <2>1. p < b /\ HasRead(d, c + 1, size, done)
    BY <1>2, <1>3, <1>4, <1>5 DEF ReadTo
  <2>2. FrameBytes \in Int
    BY FramingAssumption
  <2>3. size \in Nat /\ HeaderBytes \in Nat
    BY <1>1, <2>2
  <2>4. b = a + HeaderBytes + size /\ p < b
    BY <1>4, <2>1
  <2>5. done < HeaderBytes + size
    BY <1>5, <2>3, <2>4
  <2> QED
    BY <2>1, <2>3, <2>5
<1>a. /\ done + 1 \in 1 .. HeaderBytes + size
      /\ a + (done + 1) = p + 1 /\ p + 1 >= 1 /\ a <= p + 1 /\ done + 1 = p + 1 - a
      /\ done + 1 < HeaderBytes + size => p + 1 < b
      /\ done + 1 = HeaderBytes + size => p + 1 = b /\ p + 1 - b = 0
  <2>1. HeaderBytes \in Nat /\ size \in Nat /\ p < b /\ b = a + HeaderBytes + size
    BY <1>1, <1>2, <1>4, <1>6 DEF ReadTo
  <2> QED
    BY <1>5, <1>6, <2>1
<1>7. w[p + 1] = ByteOf(c + 1, size, done + 1)
  <2>1. done + 1 \in 1 .. HeaderBytes + size /\ a + (done + 1) = p + 1 /\ p + 1 >= 1
    BY <1>a
  <2>2. \A k \in 1 .. HeaderBytes + size : a + k >= 1 => w[a + k] = ByteOf(c + 1, size, k)
    BY <1>2, <1>3, <1>4 DEF Layout
  <2> QED
    BY <2>1, <2>2
<1>8. PICK i \in Nat : i = c + 1
  OBVIOUS
<1>9. \/ done + 1 < HeaderBytes + size /\ HasRead(e, i, size, done + 1) /\ e.frames = d.frames
      \/ /\ done + 1 = HeaderBytes + size /\ \A s : HasRead(e, i + 1, s, 0)
         /\ e.frames = Append(d.frames, Payload(i, size)) /\ Len(d.frames) # FramesPerFeed
      \/ e = Failed
  <2>1. e = FeedByte(d, ByteOf(i, size, done + 1)) /\ HasRead(d, i, size, done)
    BY <1>6, <1>7, <1>8
  <2>2. OneByteOn(d, e, i, size, done)
    BY <1>6, <2>1, ByteRead
  <2> QED
    BY <2>2 DEF OneByteOn
<1>10. CASE done + 1 < HeaderBytes + size /\ HasRead(e, i, size, done + 1) /\ e.frames = d.frames
  <2>1. a <= p + 1 /\ p + 1 < b /\ done + 1 = p + 1 - a
    BY <1>10, <1>a
  <2>2. PICK q \in Nat : q = p + 1
    OBVIOUS
  <2>a. q - start[c + 1] = done + 1
    <3>1. q - a = done + 1
      BY <2>1, <2>2
    <3> QED
      BY <1>4, <3>1
  <2>b. HasRead(e, c + 1, ss[c + 1], q - start[c + 1])
    BY <1>3, <1>8, <1>10, <2>a
  <2>3. ReadTo(ss, e, start, c, p + 1)
    <3>1. c \in 0 .. Len(ss) /\ start[c + 1] <= p + 1 /\ p + 1 < start[c + 2]
      BY <1>4, <2>1 DEF ReadTo
    <3>2. c \in 0 .. Len(ss) /\ start[c + 1] <= q /\ (c < Len(ss) => q < start[c + 2])
      BY <3>1, <2>2
    <3>3. ReadTo(ss, e, start, c, q)
      BY <2>b, <3>2, Zenon DEF ReadTo
    <3> QED
      BY <2>2, <3>3
  <2> QED
    BY <1>10, <2>3
<1>11. CASE /\ done + 1 = HeaderBytes + size /\ \A s : HasRead(e, i + 1, s, 0)
            /\ e.frames = Append(d.frames, Payload(i, size)) /\ Len(d.frames) # FramesPerFeed
  <2>1. p + 1 = b /\ p + 1 - b = 0
    BY <1>11, <1>a
  <2>2. ASSUME i < Len(ss) PROVE p + 1 < start[i + 2]
    <3>1. i + 1 \in 1 .. Len(ss) /\ (i + 1) + 1 = i + 2 /\ c + 2 = i + 1
      BY <1>1, <1>8, <2>2
    <3>2. start[i + 2] = b + HeaderBytes + ss[i + 1] /\ ss[i + 1] \in 1 .. FrameBytes
      BY <1>1, <1>4, <3>1 DEF Layout
    <3>3. ss[i + 1] \in Nat
      <4>1. FrameBytes \in Int
        BY FramingAssumption
      <4> QED
        BY <3>2, <4>1
    <3> QED
      BY <1>1, <2>1, <3>2, <3>3
  <2>3. i \in 0 .. Len(ss) /\ start[i + 1] = b
    <3>1. c \in Nat /\ c < Len(ss) /\ Len(ss) \in Nat
      BY <1>1, <1>2
    <3>2. c + 1 \in 0 .. Len(ss) /\ (c + 1) + 1 = c + 2
      BY <3>1
    <3> QED
      BY <1>4, <1>8, <3>2
  <2>4. HasRead(e, i + 1, ss[i + 1], p + 1 - start[i + 1])
    BY <1>11, <2>1, <2>3
  <2>5. ReadTo(ss, e, start, i, p + 1)
    BY <2>1, <2>2, <2>3, <2>4 DEF ReadTo
  <2>6. PICK q \in Seq(Seq(Nat)) : q = d.frames
    BY DEF Decoders
  <2>7. PICK n \in Nat : n = Len(q)
    BY LenProperties
  <2>8. PICK x \in Seq(Nat) : x = Payload(i, size)
    BY <1>6, PayloadGrows
  <2>9. n = c - c0 /\ n <= FramesPerFeed /\ n # FramesPerFeed
        /\ \A j \in 1 .. n : q[j] = Payload(c0 + j, ss[c0 + j])
    BY <1>11, <2>6, <2>7 DEF Completed
  <2>10. e.frames = Append(q, x)
    BY <1>11, <2>6, <2>8
  <2>11. Len(e.frames) = n + 1 /\ e.frames[n + 1] = x /\ \A j \in 1 .. n : e.frames[j] = q[j]
    BY <2>7, <2>10, AppendProperties
  <2>12. n + 1 = i - c0 /\ n + 1 <= FramesPerFeed /\ c0 + (n + 1) = i
    BY <1>1, <1>8, <2>9
  <2>13. e.frames[n + 1] = Payload(c0 + (n + 1), ss[c0 + (n + 1)])
    BY <1>3, <1>8, <2>8, <2>11, <2>12
  <2>14. ASSUME NEW j \in 1 .. n + 1 PROVE e.frames[j] = Payload(c0 + j, ss[c0 + j])
    <3>1. j \in 1 .. n \/ j = n + 1
      OBVIOUS
    <3> QED
      BY <2>9, <2>11, <2>13, <3>1
  <2>15. Completed(ss, e.frames, c0, i)
    BY <2>11, <2>12, <2>14 DEF Completed
  <2>16. i \in Nat /\ c0 <= i
    BY <1>8
  <2> QED
    BY <2>5, <2>15, <2>16
<1> QED
  BY <1>9, <1>10, <1>11

(* A whole message, however it cuts the frames.                                   *)
LEMMA MessageRead ==
    ASSUME NEW ss \in Seq(1 .. FrameBytes), NEW w \in Seq(Nat), NEW start, Layout(ss, w, start),
           NEW d \in Decoders, NEW c0 \in Nat, ReadTo(ss, d, start, c0, 0),
           NEW n \in 1 .. Len(w), NEW e, e = Feed(d, SubSeq(w, 1, n))
    PROVE  /\ e \in Decoders
           /\ \/ e = Failed
              \/ \E c \in Nat : c0 <= c /\ ReadTo(ss, e, start, c, n) /\ Completed(ss, e.frames, c0, c)
<1>1. Len(w) \in Nat /\ n \in Nat /\ FramesPerFeed \in Nat
  BY FramingAssumption, LenProperties
<1>2. PICK m : m = SubSeq(w, 1, n)
  OBVIOUS
<1>3. m \in Seq(Nat) /\ Len(m) = n /\ \A k \in 1 .. n : m[k] = w[k]
  BY <1>1, <1>2
<1>4. PICK g \in [0 .. n -> Decoders] :
         /\ g[0] = [d EXCEPT !.frames = <<>>]
         /\ \A k \in 1 .. n : g[k] = FeedByte(g[k - 1], m[k])
         /\ e = g[n]
  <2>1. \E g \in [0 .. Len(m) -> Decoders] :
           /\ g[0] = [d EXCEPT !.frames = <<>>]
           /\ \A k \in 1 .. Len(m) : g[k] = FeedByte(g[k - 1], m[k])
           /\ Feed(d, m) = g[Len(m)]
    BY <1>3, MessageFed
  <2> QED
    BY <1>2, <1>3, <2>1
<1> DEFINE Good(p) ==
      \/ g[p] = Failed
      \/ \E c \in Nat : c0 <= c /\ ReadTo(ss, g[p], start, c, p) /\ Completed(ss, g[p].frames, c0, c)
<1>5. Good(0)
  <2>1. g[0].frames = <<>> /\ g[0].failed = d.failed /\ g[0].expected = d.expected /\ g[0].header = d.header
        /\ g[0].payload = d.payload
    BY <1>4 DEF Decoders
  <2>2. ReadTo(ss, g[0], start, c0, 0)
    BY <2>1 DEF ReadTo, HasRead
  <2>3. Completed(ss, g[0].frames, c0, c0)
    <3>1. Len(<<>>) = 0 /\ 1 .. 0 = {} /\ c0 - c0 = 0
      OBVIOUS
    <3> QED
      BY <1>1, <2>1, <3>1 DEF Completed
  <2> QED
    BY <2>2, <2>3
<1>6. ASSUME NEW p \in 0 .. n - 1, Good(p) PROVE Good(p + 1)
  <2>1. p \in Nat /\ p < Len(w) /\ p + 1 \in 1 .. n /\ (p + 1) - 1 = p /\ p \in 0 .. n
    BY <1>1
  <2>2. g[p + 1] = FeedByte(g[p], w[p + 1]) /\ g[p] \in Decoders
    BY <1>3, <1>4, <2>1
  <2>3. CASE g[p] = Failed
    BY <2>2, <2>3, FailedDecoder DEF FeedByte
  <2>4. ASSUME NEW c \in Nat, c0 <= c, ReadTo(ss, g[p], start, c, p), Completed(ss, g[p].frames, c0, c)
        PROVE  Good(p + 1)
    BY <2>1, <2>2, <2>4, NextByte
  <2> QED
    BY <1>6, <2>3, <2>4
<1>7. \A p \in 0 .. n : Good(p)
  <2> DEFINE T == {p \in 0 .. n : Good(p)}
  <2> HIDE DEF Good
  <2>1. 0 \in T /\ \A p \in 0 .. n - 1 : p \in T => p + 1 \in T
    BY <1>1, <1>5, <1>6
  <2>2. \A p \in 0 .. n : p \in T
    <3> HIDE DEF T
    <3> QED
      BY <1>1, <2>1, InductiveTo
  <2> QED
    BY <2>2
<1>8. n \in 0 .. n
  BY <1>1
<1> QED
  BY <1>4, <1>7, <1>8

(* Between two messages the decoder keeps less than a frame.                      *)
Bounded(d) ==
    /\ Len(d.header) < HeaderBytes
    /\ d.expected # None => d.expected \in 1 .. FrameBytes
    /\ Len(d.payload) < IF d.expected = None THEN 1 ELSE d.expected

LEMMA ReadBounded ==
    ASSUME NEW ss \in Seq(1 .. FrameBytes), NEW w \in Seq(Nat), NEW start, Layout(ss, w, start),
           NEW d, NEW c, NEW p \in Nat, p <= Len(w), ReadTo(ss, d, start, c, p)
    PROVE  Bounded(d)
<1>1. /\ Len(ss) \in Nat /\ Len(w) \in Nat /\ HeaderBytes \in Nat \ {0} /\ None \notin Nat /\ FrameBytes \in Nat
      /\ \A i \in 1 .. Len(ss) : ss[i] \in 1 .. FrameBytes
  <2>1. FrameBytes \in 1 .. Power[HeaderBytes] - 2 /\ HeaderBytes \in Nat \ {0} /\ None \notin Nat
    BY FramingAssumption
  <2> QED
    BY <2>1, LenProperties, ElementOfSeq
<1>2. Len(<<>>) = 0
  OBVIOUS
<1>3. CASE c = Len(ss)
  <2>1. p - start[c + 1] = 0
    BY <1>1, <1>3 DEF Layout, ReadTo
  <2>2. HasRead(d, c + 1, ss[c + 1], 0)
    BY <2>1 DEF ReadTo
  <2>3. HeaderPart(ss[c + 1], 0) = <<>>
    BY DEF HeaderPart
  <2> QED
    BY <1>1, <1>2, <2>2, <2>3 DEF HasRead, Bounded
<1>4. CASE c # Len(ss)
  <2>1. c \in Nat /\ c + 1 \in 1 .. Len(ss) /\ c + 1 \in 1 .. Len(ss) + 1 /\ c + 2 = (c + 1) + 1 /\ c < Len(ss)
    BY <1>1, <1>4 DEF ReadTo
  <2>2. PICK size \in 1 .. FrameBytes : size = ss[c + 1]
    BY <1>1, <2>1
  <2>3. start[c + 1] \in Int /\ start[c + 2] = start[c + 1] + HeaderBytes + size
    BY <2>1, <2>2 DEF Layout
  <2>4. PICK done \in Nat : done = p - start[c + 1]
    BY <2>3 DEF ReadTo
  <2>5. size \in Nat /\ done < HeaderBytes + size /\ HasRead(d, c + 1, size, done)
    <3>1. p < start[c + 2] /\ HasRead(d, c + 1, size, done)
      BY <2>1, <2>2, <2>4 DEF ReadTo
    <3> QED
      BY <1>1, <2>3, <2>4, <3>1
  <2>6. CASE done < HeaderBytes
    <3>1. Len(HeaderPart(size, done)) = done
      BY <2>5, <2>6, HeaderGrows
    <3> QED
      BY <1>1, <1>2, <2>5, <2>6, <3>1 DEF HasRead, Bounded
  <2>7. CASE done >= HeaderBytes
    <3>1. PICK k \in Nat : k = done - HeaderBytes
      BY <1>1, <2>7
    <3>a. k < size
      BY <1>1, <2>5, <3>1
    <3>b. c + 1 \in Nat
      BY <2>1
    <3>2. Len(Payload(c + 1, k)) = k /\ k < size
      BY <3>a, <3>b, PayloadGrows
    <3>3. d.expected = size /\ d.header = <<>> /\ d.payload = Payload(c + 1, k)
      BY <2>5, <2>7, <3>1 DEF HasRead
    <3> QED
      BY <1>1, <1>2, <2>2, <3>2, <3>3 DEF Bounded
  <2> QED
    BY <1>1, <2>6, <2>7
<1> QED
  BY <1>3, <1>4

-------------------------------------------------------------------------------
(* A frame that is sent lies behind the others.                                   *)
LEMMA Encoded ==
    ASSUME NEW i \in 1 .. Base - 1, NEW size \in 1 .. FrameBytes
    PROVE  /\ Encode(i, size) \in Seq(0 .. Base - 1) /\ Len(Encode(i, size)) = HeaderBytes + size
           /\ \A k \in 1 .. HeaderBytes + size : Encode(i, size)[k] = ByteOf(i, size, k)
<1>1. HeaderBytes \in Nat /\ Base \in Nat /\ FrameBytes \in Nat /\ size \in Nat
  <2>1. FrameBytes \in 1 .. Power[HeaderBytes] - 2 /\ HeaderBytes \in Nat /\ Base \in Nat
    BY FramingAssumption
  <2> QED
    BY <2>1
<1>2. Header(size) \in Seq(0 .. Base - 1) /\ Len(Header(size)) = HeaderBytes
  BY <1>1, Digits
<1>3. Payload(i, size) \in [1 .. size -> 0 .. Base - 1]
  <2>1. i \in 0 .. Base - 1
    BY <1>1
  <2> QED
    BY <2>1 DEF Payload
<1>4. PICK h \in Seq(0 .. Base - 1) : h = Header(size) /\ Len(h) = HeaderBytes
  BY <1>1, <1>2
<1>5. PICK q \in Seq(0 .. Base - 1) : q = Payload(i, size) /\ Len(q) = size
  BY <1>1, <1>3
<1>6. Encode(i, size) = h \o q
  BY <1>4, <1>5 DEF Encode, Header
<1>7. h \o q \in Seq(0 .. Base - 1) /\ Len(h \o q) = HeaderBytes + size
      /\ \A k \in 1 .. HeaderBytes + size : (h \o q)[k] = IF k <= HeaderBytes THEN h[k] ELSE q[k - HeaderBytes]
  <2>1. /\ h \o q \in Seq(0 .. Base - 1) /\ Len(h \o q) = Len(h) + Len(q)
        /\ \A k \in 1 .. Len(h) + Len(q) : (h \o q)[k] = IF k <= Len(h) THEN h[k] ELSE q[k - Len(h)]
    BY ConcatProperties
  <2> QED
    BY <1>4, <1>5, <2>1
<1>8. ASSUME NEW k \in 1 .. HeaderBytes + size PROVE Encode(i, size)[k] = ByteOf(i, size, k)
  <2>1. CASE k <= HeaderBytes
    <3>1. h[k] = Digit(size, k)
      BY <1>1, <1>4, <2>1 DEF Header
    <3> QED
      BY <1>6, <1>7, <2>1, <3>1 DEF ByteOf
  <2>2. CASE ~(k <= HeaderBytes)
    <3>1. k - HeaderBytes \in 1 .. size
      BY <1>1, <2>2
    <3>2. q[k - HeaderBytes] = i
      BY <1>5, <3>1 DEF Payload
    <3> QED
      BY <1>6, <1>7, <2>2, <3>2 DEF ByteOf
  <2> QED
    BY <2>1, <2>2
<1> QED
  BY <1>6, <1>7, <1>8

LEMMA SizesAreNat ==
    ASSUME NEW ss \in Seq(1 .. FrameBytes)
    PROVE  Len(ss) \in Nat /\ \A i \in 1 .. Len(ss) : ss[i] \in Nat \ {0}
<1>1. FrameBytes \in 1 .. Power[HeaderBytes] - 2
  BY FramingAssumption
<1>2. FrameBytes \in Int /\ \A i \in 1 .. Len(ss) : ss[i] \in 1 .. FrameBytes
  BY <1>1, ElementOfSeq
<1> QED
  BY <1>2, LenProperties

Further(start, n, size) == [i \in 1 .. n + 2 |-> IF i = n + 2 THEN start[n + 1] + HeaderBytes + size ELSE start[i]]

LEMMA LayoutExtends ==
    ASSUME NEW ss \in Seq(1 .. FrameBytes), NEW w \in Seq(Nat), NEW start, Layout(ss, w, start),
           NEW size \in 1 .. FrameBytes, NEW code \in Seq(Nat), Len(code) = HeaderBytes + size,
           \A k \in 1 .. HeaderBytes + size : code[k] = ByteOf(Len(ss) + 1, size, k)
    PROVE  Layout(Append(ss, size), w \o code, Further(start, Len(ss), size))
<1>1. PICK n \in Nat : n = Len(ss)
  BY LenProperties
<1>2. PICK m \in Nat : m = Len(w)
  BY LenProperties
<1>3. PICK l \in Nat \ {0} : l = HeaderBytes + size
  <2>1. FrameBytes \in 1 .. Power[HeaderBytes] - 2 /\ HeaderBytes \in Nat
    BY FramingAssumption
  <2>2. size \in Nat \ {0}
    BY <2>1
  <2> QED
    BY <2>1, <2>2
<1>4. PICK v : v = w \o code
  OBVIOUS
<1>5. Len(v) = m + l /\ (\A k \in 1 .. m : v[k] = w[k]) /\ (\A k \in 1 .. l : v[m + k] = code[k])
  BY <1>2, <1>3, <1>4, ConcatProperties
<1>6. PICK tt : tt = Append(ss, size)
  OBVIOUS
<1>7. Len(tt) = n + 1 /\ (\A i \in 1 .. n : tt[i] = ss[i]) /\ tt[n + 1] = size
  BY <1>1, <1>6, AppendProperties
<1>8. start \in [1 .. n + 1 -> Int] /\ start[n + 1] = m
  BY <1>1, <1>2 DEF Layout
<1>9. PICK bt : bt = Further(start, n, size)
  OBVIOUS
<1>a. HeaderBytes \in Nat /\ size \in Nat
  BY FramingAssumption
<1>10. bt \in [1 .. n + 2 -> Int] /\ bt[n + 2] = m + l /\ \A i \in 1 .. n + 1 : bt[i] = start[i]
  <2>1. start[n + 1] + HeaderBytes + size = m + l
    BY <1>3, <1>8, <1>a
  <2>2. bt = [i \in 1 .. n + 2 |-> IF i = n + 2 THEN m + l ELSE start[i]]
    BY <1>9, <2>1 DEF Further
  <2>3. \A i \in 1 .. n + 2 : i # n + 2 => i \in 1 .. n + 1
    OBVIOUS
  <2> QED
    BY <1>8, <2>2, <2>3
<1>11. ASSUME NEW i \in 1 .. n
       PROVE  /\ bt[i + 1] = bt[i] + HeaderBytes + tt[i] /\ bt[i + 1] <= Len(v)
              /\ \A k \in 1 .. HeaderBytes + tt[i] : bt[i] + k >= 1 => v[bt[i] + k] = ByteOf(i, tt[i], k)
  <2>1. PICK s \in Nat : s = ss[i]
    BY <1>1, SizesAreNat
  <2>2. PICK a \in Int, b \in Int : a = start[i] /\ b = start[i + 1]
    <3>1. i \in 1 .. n + 1 /\ i + 1 \in 1 .. n + 1
      OBVIOUS
    <3>2. start[i] \in Int /\ start[i + 1] \in Int
      BY <1>8, <3>1
    <3> QED
      BY <3>2
  <2>3. b = a + HeaderBytes + s /\ b <= m
        /\ \A k \in 1 .. HeaderBytes + s : a + k >= 1 => w[a + k] = ByteOf(i, s, k)
    BY <1>1, <1>2, <2>1, <2>2 DEF Layout
  <2>4. bt[i] = a /\ bt[i + 1] = b /\ tt[i] = s
    BY <1>7, <1>10, <2>1, <2>2
  <2>5. ASSUME NEW k \in 1 .. HeaderBytes + s, a + k >= 1 PROVE v[a + k] = ByteOf(i, s, k)
    <3>1. a + k \in 1 .. m
      BY <1>a, <2>3, <2>5
    <3> QED
      BY <1>5, <2>3, <2>5, <3>1
  <2>6. b <= Len(v)
    BY <1>5, <2>3
  <2> QED
    BY <2>3, <2>4, <2>5, <2>6
<1>12. /\ bt[(n + 1) + 1] = bt[n + 1] + HeaderBytes + tt[n + 1] /\ bt[(n + 1) + 1] <= Len(v)
       /\ \A k \in 1 .. HeaderBytes + tt[n + 1] :
             bt[n + 1] + k >= 1 => v[bt[n + 1] + k] = ByteOf(n + 1, tt[n + 1], k)
  <2>1. (n + 1) + 1 = n + 2 /\ n + 1 \in 1 .. n + 1 /\ m + l = m + HeaderBytes + size
    BY <1>3, <1>a
  <2>2. bt[n + 1] = m /\ bt[n + 2] = m + l /\ tt[n + 1] = size
    BY <1>7, <1>8, <1>10, <2>1
  <2>3. \A k \in 1 .. HeaderBytes + size : v[m + k] = ByteOf(n + 1, size, k)
    BY <1>1, <1>3, <1>5
  <2> QED
    BY <1>5, <2>1, <2>2, <2>3
<1>13. \A i \in 1 .. n + 1 : i \in 1 .. n \/ i = n + 1
  OBVIOUS
<1>14. \A i \in 1 .. n + 1 :
          /\ bt[i + 1] = bt[i] + HeaderBytes + tt[i] /\ bt[i + 1] <= Len(v)
          /\ \A k \in 1 .. HeaderBytes + tt[i] : bt[i] + k >= 1 => v[bt[i] + k] = ByteOf(i, tt[i], k)
  BY <1>11, <1>12, <1>13
<1>15. (n + 1) + 1 = n + 2
  OBVIOUS
<1>16. Layout(tt, v, bt)
  BY <1>5, <1>7, <1>10, <1>14, <1>15 DEF Layout
<1> QED
  BY <1>1, <1>4, <1>6, <1>9, <1>16

(* Sending disturbs neither the frame being read nor those completed.             *)
LEMMA ReadOfExtended ==
    ASSUME NEW ss \in Seq(1 .. FrameBytes), NEW w \in Seq(Nat), NEW start, Layout(ss, w, start),
           NEW d, NEW c, ReadTo(ss, d, start, c, 0), NEW size \in 1 .. FrameBytes
    PROVE  ReadTo(Append(ss, size), d, Further(start, Len(ss), size), c, 0)
<1>1. PICK n \in Nat : n = Len(ss)
  BY LenProperties
<1>2. PICK tt : tt = Append(ss, size)
  OBVIOUS
<1>3. Len(tt) = n + 1 /\ (\A i \in 1 .. n : tt[i] = ss[i]) /\ tt[n + 1] = size
  BY <1>1, <1>2, AppendProperties
<1>4. HeaderBytes \in Nat \ {0} /\ size \in Nat
  BY FramingAssumption
<1>5. start \in [1 .. n + 1 -> Int] /\ start[n + 1] = Len(w) /\ Len(w) \in Nat
  BY <1>1, LenProperties DEF Layout
<1>6. PICK bt : bt = Further(start, n, size)
  OBVIOUS
<1>7. (\A i \in 1 .. n + 1 : bt[i] = start[i]) /\ bt[n + 2] = Len(w) + HeaderBytes + size
  <2>1. \A i \in 1 .. n + 1 : i # n + 2 /\ i \in 1 .. n + 2
    OBVIOUS
  <2>2. n + 2 \in 1 .. n + 2
    OBVIOUS
  <2> QED
    BY <1>5, <1>6, <2>1, <2>2 DEF Further
<1>8. /\ c \in 0 .. n /\ start[c + 1] <= 0 /\ (c < n => 0 < start[c + 2])
      /\ HasRead(d, c + 1, ss[c + 1], 0 - start[c + 1])
  BY <1>1 DEF ReadTo
<1>9. c \in 0 .. n + 1 /\ c + 1 \in 1 .. n + 1 /\ bt[c + 1] = start[c + 1]
  BY <1>7, <1>8
<1>10. c < n + 1 => 0 < bt[c + 2]
  <2>1. CASE c = n
    BY <1>4, <1>5, <1>7, <2>1
  <2>2. CASE c < n
    BY <1>7, <1>8, <2>2
  <2> QED
    BY <1>8, <2>1, <2>2
<1>11. HasRead(d, c + 1, tt[c + 1], 0 - start[c + 1])
  <2>1. CASE c < n
    <3>1. c + 1 \in 1 .. n
      BY <1>8, <2>1
    <3> QED
      BY <1>3, <1>8, <3>1
  <2>2. CASE c = n
    <3>1. start[c + 1] = 0 /\ 0 - start[c + 1] = 0
      BY <1>5, <1>8, <2>2
    <3>2. HasRead(d, c + 1, ss[c + 1], 0)
      BY <1>8, <3>1
    <3>3. HasRead(d, c + 1, tt[c + 1], 0)
      BY <3>2, NothingRead
    <3> QED
      BY <3>1, <3>3
  <2> QED
    BY <1>8, <2>1, <2>2
<1>12. ReadTo(tt, d, bt, c, 0)
  BY <1>3, <1>8, <1>9, <1>10, <1>11 DEF ReadTo
<1> QED
  BY <1>1, <1>2, <1>6, <1>12

(* A message that is taken off moves all of them to the front.                    *)
Nearer(start, m, n) == [i \in 1 .. m + 1 |-> start[i] - n]

LEMMA LayoutMoves ==
    ASSUME NEW ss \in Seq(1 .. FrameBytes), NEW w \in Seq(Nat), NEW start, Layout(ss, w, start), NEW n \in 1 .. Len(w)
    PROVE  Layout(ss, SubSeq(w, n + 1, Len(w)), Nearer(start, Len(ss), n))
<1>1. PICK m \in Nat : m = Len(ss)
  BY LenProperties
<1>2. PICK l \in Nat : l = Len(w)
  BY LenProperties
<1>3. PICK v : v = SubSeq(w, n + 1, Len(w))
  OBVIOUS
<1>a. n \in 1 .. l /\ n \in Nat
  BY <1>2
<1>4. Len(v) = l - n /\ \A k \in 1 .. l - n : v[k] = w[n + k]
  <2>1. v = SubSeq(w, n + 1, l)
    BY <1>2, <1>3
  <2>2. Len(v) = l - n
    BY <1>2, <1>a, <2>1
  <2>3. ASSUME NEW k \in 1 .. l - n PROVE v[k] = w[n + k]
    <3>1. k \in Nat /\ (n + 1) + k - 1 = n + k
      BY <1>2, <1>a
    <3>2. v[k] = w[(n + 1) + k - 1]
      BY <1>2, <1>a, <2>1
    <3> QED
      BY <3>1, <3>2
  <2> QED
    BY <2>2, <2>3
<1>5. start \in [1 .. m + 1 -> Int] /\ start[m + 1] = l
  BY <1>1, <1>2 DEF Layout
<1>6. PICK bt : bt = Nearer(start, m, n)
  OBVIOUS
<1>7. bt \in [1 .. m + 1 -> Int] /\ \A i \in 1 .. m + 1 : bt[i] = start[i] - n
  BY <1>5, <1>6, <1>a DEF Nearer
<1>8. bt[m + 1] = Len(v)
  <2>1. m + 1 \in 1 .. m + 1
    OBVIOUS
  <2> QED
    BY <1>4, <1>5, <1>7, <2>1
<1>9. HeaderBytes \in Nat
  BY FramingAssumption
<1>10. ASSUME NEW i \in 1 .. m
       PROVE  /\ bt[i + 1] = bt[i] + HeaderBytes + ss[i] /\ bt[i + 1] <= Len(v)
              /\ \A k \in 1 .. HeaderBytes + ss[i] : bt[i] + k >= 1 => v[bt[i] + k] = ByteOf(i, ss[i], k)
  <2>1. PICK s \in Nat : s = ss[i]
    BY <1>1, SizesAreNat
  <2>2. PICK a \in Int, b \in Int : a = start[i] /\ b = start[i + 1]
    <3>1. i \in 1 .. m + 1 /\ i + 1 \in 1 .. m + 1
      OBVIOUS
    <3>2. start[i] \in Int /\ start[i + 1] \in Int
      BY <1>5, <3>1
    <3> QED
      BY <3>2
  <2>3. b = a + HeaderBytes + s /\ b <= l
        /\ \A k \in 1 .. HeaderBytes + s : a + k >= 1 => w[a + k] = ByteOf(i, s, k)
    BY <1>1, <1>2, <2>1, <2>2 DEF Layout
  <2>4. PICK x \in Int, y \in Int : x = bt[i] /\ y = bt[i + 1] /\ x = a - n /\ y = b - n
    <3>1. i \in 1 .. m + 1 /\ i + 1 \in 1 .. m + 1
      OBVIOUS
    <3>2. bt[i] = a - n /\ bt[i + 1] = b - n
      BY <1>7, <2>2, <3>1
    <3> QED
      BY <1>a, <3>2
  <2>5. y = x + HeaderBytes + s /\ y <= Len(v)
    <3>1. b = a + HeaderBytes + s /\ b <= l /\ x = a - n /\ y = b - n
      BY <2>3, <2>4
    <3> QED
      BY <1>4, <1>9, <1>a, <3>1
  <2>6. ASSUME NEW k \in 1 .. HeaderBytes + s, x + k >= 1 PROVE v[x + k] = ByteOf(i, s, k)
    <3>1. x = a - n /\ b = a + HeaderBytes + s /\ b <= l
      BY <2>3, <2>4
    <3>2. k \in Nat /\ x + k \in 1 .. l - n /\ n + (x + k) = a + k /\ a + k >= 1
      BY <1>9, <1>a, <2>6, <3>1
    <3>3. v[x + k] = w[a + k]
      BY <1>4, <3>2
    <3>4. w[a + k] = ByteOf(i, s, k)
      BY <2>3, <3>2
    <3> QED
      BY <3>3, <3>4
  <2>7. bt[i + 1] = x + HeaderBytes + s /\ bt[i] = x /\ ss[i] = s /\ bt[i + 1] <= Len(v)
    BY <2>1, <2>4, <2>5
  <2> QED
    BY <2>6, <2>7
<1>11. Layout(ss, v, bt)
  BY <1>1, <1>7, <1>8, <1>10 DEF Layout
<1> QED
  BY <1>1, <1>3, <1>6, <1>11

LEMMA ReadOfMoved ==
    ASSUME NEW ss \in Seq(1 .. FrameBytes), NEW w \in Seq(Nat), NEW start, Layout(ss, w, start),
           NEW n \in 1 .. Len(w), NEW d, NEW c, ReadTo(ss, d, start, c, n), NEW e, e.failed = d.failed, e.expected = d.expected,
           e.header = d.header, e.payload = d.payload
    PROVE  ReadTo(ss, e, Nearer(start, Len(ss), n), c, 0)
<1>1. PICK m \in Nat : m = Len(ss)
  BY LenProperties
<1>2. n \in Nat
  <2>1. Len(w) \in Nat
    BY LenProperties
  <2> QED
    BY <2>1
<1>3. start \in [1 .. m + 1 -> Int]
  BY <1>1 DEF Layout
<1>4. PICK bt : bt = Nearer(start, m, n)
  OBVIOUS
<1>5. \A i \in 1 .. m + 1 : bt[i] = start[i] - n
  BY <1>4 DEF Nearer
<1>6. /\ c \in 0 .. m /\ start[c + 1] <= n /\ (c < m => n < start[c + 2])
      /\ HasRead(d, c + 1, ss[c + 1], n - start[c + 1])
  BY <1>1 DEF ReadTo
<1>7. PICK a \in Int : a = start[c + 1] /\ bt[c + 1] = a - n
  <2>1. c + 1 \in 1 .. m + 1
    BY <1>6
  <2>2. start[c + 1] \in Int /\ bt[c + 1] = start[c + 1] - n
    BY <1>3, <1>5, <2>1
  <2> QED
    BY <2>2
<1>8. a - n <= 0 /\ 0 - (a - n) = n - a
  <2>1. a <= n
    BY <1>6, <1>7
  <2> QED
    BY <1>2, <2>1
<1>9. HasRead(e, c + 1, ss[c + 1], n - a)
  <2>1. HasRead(d, c + 1, ss[c + 1], n - a)
    BY <1>6, <1>7
  <2> QED
    BY <2>1 DEF HasRead
<1>10. ASSUME c < m PROVE 0 < bt[c + 2]
  <2>1. c + 2 \in 1 .. m + 1
    BY <1>6, <1>10
  <2>2. start[c + 2] \in Int /\ bt[c + 2] = start[c + 2] - n /\ n < start[c + 2]
    BY <1>3, <1>5, <1>6, <1>10, <2>1
  <2> QED
    BY <1>2, <2>2
<1>11. HasRead(e, c + 1, ss[c + 1], 0 - bt[c + 1])
  <2>1. 0 - bt[c + 1] = n - a
    BY <1>7, <1>8
  <2> QED
    BY <1>9, <2>1
<1>12. ReadTo(ss, e, bt, c, 0)
  BY <1>1, <1>6, <1>7, <1>8, <1>10, <1>11 DEF ReadTo
<1> QED
  BY <1>1, <1>4, <1>12

-------------------------------------------------------------------------------
(* What was received is what was sent first, and what is on its way is the rest:  *)
(* the frames the decoder has completed, the one it stands in, and those behind.  *)
FrameShapes ==
    /\ sizes \in Seq(1 .. FrameBytes) /\ Len(sizes) <= MaxSentFrames
    /\ wire \in Seq(0 .. Base - 1)
    /\ decoder \in Decoders /\ decoder.frames = <<>> /\ Bounded(decoder)
    /\ pendingFrames \in Seq(Seq(Nat)) /\ Len(pendingFrames) <= FramesPerFeed
    /\ receivedFrames \in Seq(Seq(Nat))
    /\ channelEnd \in {"open", "closing", "closed", "broken"}
FramesAreSent ==
    /\ Len(receivedFrames) <= Len(sizes)
    /\ \A n \in 1 .. Len(receivedFrames) : receivedFrames[n] = Payload(n, sizes[n])
OnTheWay ==
    \E start : \E c \in Nat :
        /\ Layout(sizes, wire, start) /\ ReadTo(sizes, decoder, start, c, 0) /\ Len(receivedFrames) <= c
        /\ Completed(sizes, pendingFrames, Len(receivedFrames), c)
FramingInv == FrameShapes /\ FramesAreSent /\ (channelEnd # "broken" => OnTheWay)

Counted(n) == [k \in 1 .. n |-> k]
EndOf == CASE channelEnd = "closed" -> "finished" [] channelEnd = "broken" -> "cut" [] OTHER -> "open"

(* One step of the abstract stream, in the terms of its refinement.               *)
FrameStep ==
    \/ Len(sizes') = Len(sizes) + 1 /\ Len(receivedFrames') = Len(receivedFrames) /\ EndOf' = EndOf
    \/ /\ EndOf = "open" /\ Len(receivedFrames) < Len(sizes) /\ Len(receivedFrames') = Len(receivedFrames) + 1
       /\ Len(sizes') = Len(sizes) /\ EndOf' = EndOf
    \/ /\ EndOf = "open" /\ Len(receivedFrames) = Len(sizes) /\ EndOf' = "finished"
       /\ Len(sizes') = Len(sizes) /\ Len(receivedFrames') = Len(receivedFrames)
    \/ /\ EndOf = "open" /\ EndOf' = "cut"
       /\ Len(sizes') = Len(sizes) /\ Len(receivedFrames') = Len(receivedFrames)
    \/ Len(sizes') = Len(sizes) /\ Len(receivedFrames') = Len(receivedFrames) /\ EndOf' = EndOf

LEMMA BytesAreNat == ASSUME NEW w \in Seq(0 .. Base - 1) PROVE w \in Seq(Nat)
<1>1. Base \in Nat
  BY FramingAssumption
<1>2. 0 .. Base - 1 \subseteq Nat
  BY <1>1
<1>3. Len(w) \in Nat /\ w \in [1 .. Len(w) -> 0 .. Base - 1]
  BY LenProperties
<1>4. w \in [1 .. Len(w) -> Nat]
  BY <1>2, <1>3
<1> QED
  BY <1>3, <1>4

LEMMA FramesBegin == FramingInit => FramingInv
<1> SUFFICES ASSUME FramingInit PROVE FramingInv
  OBVIOUS
<1>1. /\ sizes = <<>> /\ wire = <<>> /\ pendingFrames = <<>> /\ receivedFrames = <<>>
      /\ decoder = NewDecoder /\ channelEnd = "open"
  BY DEF FramingInit
<1>2. Len(<<>>) = 0 /\ 1 .. 0 = {}
  OBVIOUS
<1>3. HeaderBytes \in Nat \ {0} /\ MaxSentFrames \in Nat /\ FramesPerFeed \in Nat
  <2>1. HeaderBytes \in Nat \ {0} /\ Base \in Nat /\ MaxSentFrames \in 0 .. Base - 1 /\ FramesPerFeed \in Nat
    BY FramingAssumption
  <2> QED
    BY <2>1
<1>4. /\ NewDecoder.header = <<>> /\ NewDecoder.expected = None /\ NewDecoder.payload = <<>>
      /\ NewDecoder.frames = <<>> /\ NewDecoder.failed = FALSE /\ NewDecoder \in Decoders
  <2>1. <<>> \in Seq(Nat) /\ <<>> \in Seq(Seq(Nat))
    BY EmptySeq
  <2> QED
    BY <2>1 DEF NewDecoder, Decoders
<1>5. FrameShapes
  <2>1. <<>> \in Seq(1 .. FrameBytes) /\ <<>> \in Seq(0 .. Base - 1) /\ <<>> \in Seq(Seq(Nat))
    BY EmptySeq
  <2>2. Bounded(NewDecoder)
    BY <1>2, <1>3, <1>4 DEF Bounded
  <2> QED
    BY <1>1, <1>2, <1>3, <1>4, <2>1, <2>2 DEF FrameShapes
<1>6. FramesAreSent
  BY <1>1, <1>2 DEF FramesAreSent
<1>7. OnTheWay
  <2>1. PICK start : start = [i \in 1 .. 1 |-> 0]
    OBVIOUS
  <2>2. start \in [1 .. 0 + 1 -> Int] /\ start[0 + 1] = 0 /\ 0 - start[0 + 1] = 0
    BY <2>1
  <2>3. Layout(<<>>, <<>>, start)
    BY <1>2, <2>2 DEF Layout
  <2>4. HasRead(NewDecoder, 0 + 1, <<>>[0 + 1], 0)
    <3>1. HeaderPart(<<>>[0 + 1], 0) = <<>>
      BY DEF HeaderPart
    <3> QED
      BY <1>3, <1>4, <3>1 DEF HasRead
  <2>5. ReadTo(<<>>, NewDecoder, start, 0, 0)
    <3>1. 0 \in 0 .. 0 /\ ~(0 < 0) /\ 0 <= 0
      OBVIOUS
    <3> QED
      BY <1>2, <2>2, <2>4, <3>1 DEF ReadTo
  <2>6. Completed(<<>>, <<>>, 0, 0)
    BY <1>2, <1>3 DEF Completed
  <2>7. 0 \in Nat /\ 0 <= 0
    OBVIOUS
  <2> QED
    BY <1>1, <1>2, <2>3, <2>5, <2>6, <2>7 DEF OnTheWay
<1> QED
  BY <1>5, <1>6, <1>7 DEF FramingInv

LEMMA FrameIsSent ==
    ASSUME FramingInv, NEW size \in 0 .. FrameBytes + 1, SendFrame(size)
    PROVE  FramingInv' /\ FrameStep
<1>1. /\ channelEnd = "open" /\ Len(sizes) < MaxSentFrames
      /\ UNCHANGED <<decoder, pendingFrames, receivedFrames>>
  BY DEF SendFrame
<1>2. CASE ~Allowed(size)
  <2>1. channelEnd' = "closing" /\ UNCHANGED <<sizes, wire>>
    BY <1>2 DEF SendFrame
  <2>2. OnTheWay
    BY <1>1 DEF FramingInv
  <2>3. FrameShapes' /\ FramesAreSent' /\ OnTheWay'
    BY <1>1, <2>1, <2>2 DEF FramingInv, FrameShapes, FramesAreSent, OnTheWay
  <2>4. EndOf = "open" /\ EndOf' = "open"
    BY <1>1, <2>1 DEF EndOf
  <2> QED
    BY <1>1, <2>1, <2>3, <2>4 DEF FramingInv, FrameStep
<1>3. CASE Allowed(size)
  <2>1. sizes' = Append(sizes, size) /\ wire' = wire \o Encode(Len(sizes) + 1, size) /\ UNCHANGED channelEnd
    BY <1>3 DEF SendFrame, PutOnWire
  <2>2. size \in 1 .. FrameBytes
    BY <1>3 DEF Allowed
  <2>3. PICK n \in Nat : n = Len(sizes)
    BY LenProperties DEF FramingInv, FrameShapes
  <2>4. n < MaxSentFrames /\ MaxSentFrames \in 0 .. Base - 1 /\ Base \in Nat
    BY <1>1, <2>3, FramingAssumption
  <2>5. n + 1 \in 1 .. Base - 1 /\ n + 1 <= MaxSentFrames
    BY <2>4
  <2>6. PICK code \in Seq(0 .. Base - 1) :
           /\ code = Encode(n + 1, size) /\ Len(code) = HeaderBytes + size
           /\ \A k \in 1 .. HeaderBytes + size : code[k] = ByteOf(n + 1, size, k)
    BY <2>2, <2>5, Encoded
  <2>7. sizes \in Seq(1 .. FrameBytes) /\ wire \in Seq(0 .. Base - 1) /\ wire \in Seq(Nat) /\ code \in Seq(Nat)
    BY <2>6, BytesAreNat DEF FramingInv, FrameShapes
  <2>8. sizes' \in Seq(1 .. FrameBytes) /\ Len(sizes') = n + 1 /\ \A i \in 1 .. n : sizes'[i] = sizes[i]
    BY <2>1, <2>2, <2>3, <2>7, AppendProperties
  <2>9. wire' \in Seq(0 .. Base - 1)
    BY <2>1, <2>3, <2>6, <2>7, ConcatProperties
  <2>10. FrameShapes'
    BY <1>1, <2>1, <2>5, <2>8, <2>9 DEF FramingInv, FrameShapes
  <2>11. FramesAreSent'
    <3>1. PICK l \in Nat : l = Len(receivedFrames)
      BY LenProperties DEF FramingInv, FrameShapes
    <3>2. l <= n /\ \A k \in 1 .. l : receivedFrames[k] = Payload(k, sizes[k])
      BY <2>3, <3>1 DEF FramingInv, FramesAreSent
    <3>3. \A k \in 1 .. l : k \in 1 .. n
      BY <3>2
    <3> QED
      BY <1>1, <2>8, <3>1, <3>2, <3>3 DEF FramesAreSent
  <2>12. OnTheWay'
    <3>a. PICK start : \E c \in Nat :
             /\ Layout(sizes, wire, start) /\ ReadTo(sizes, decoder, start, c, 0) /\ Len(receivedFrames) <= c
             /\ Completed(sizes, pendingFrames, Len(receivedFrames), c)
      <4>1. OnTheWay
        BY <1>1 DEF FramingInv
      <4> QED
        BY <4>1 DEF OnTheWay
    <3>1. PICK c \in Nat :
             /\ Layout(sizes, wire, start) /\ ReadTo(sizes, decoder, start, c, 0) /\ Len(receivedFrames) <= c
             /\ Completed(sizes, pendingFrames, Len(receivedFrames), c)
      BY <3>a
    <3>2. PICK bt : bt = Further(start, n, size)
      OBVIOUS
    <3>3. Layout(sizes', wire', bt)
      BY <2>1, <2>2, <2>3, <2>6, <2>7, <3>1, <3>2, LayoutExtends
    <3>4. ReadTo(sizes', decoder, bt, c, 0)
      BY <2>1, <2>2, <2>3, <2>7, <3>1, <3>2, ReadOfExtended
    <3>5. Completed(sizes', pendingFrames, Len(receivedFrames), c)
      <4>1. PICK l \in Nat, m \in Nat : l = Len(receivedFrames) /\ m = Len(pendingFrames)
        BY LenProperties DEF FramingInv, FrameShapes
      <4>2. m = c - l /\ m <= FramesPerFeed /\ \A j \in 1 .. m : pendingFrames[j] = Payload(l + j, sizes[l + j])
        BY <3>1, <4>1 DEF Completed
      <4>3. c <= n
        BY <2>3, <3>1 DEF ReadTo
      <4>4. \A j \in 1 .. m : l + j \in 1 .. n
        BY <4>2, <4>3
      <4>5. \A j \in 1 .. m : pendingFrames[j] = Payload(l + j, sizes'[l + j])
        BY <2>8, <4>2, <4>4
      <4> QED
        BY <4>1, <4>2, <4>5 DEF Completed
    <3> QED
      BY <1>1, <3>1, <3>3, <3>4, <3>5 DEF OnTheWay
  <2>13. EndOf' = EndOf
    BY <2>1 DEF EndOf
  <2> QED
    BY <1>1, <2>3, <2>8, <2>10, <2>11, <2>12, <2>13 DEF FramingInv, FrameStep
<1> QED
  BY <1>2, <1>3

LEMMA MessageReceived ==
    ASSUME FramingInv, NEW n \in 1 .. Len(wire), ReceiveMessage(n)
    PROVE  FramingInv' /\ FrameStep
<1>1. PICK d : d = Feed(decoder, SubSeq(wire, 1, n))
  OBVIOUS
<1>2. /\ channelEnd \in {"open", "closing"} /\ pendingFrames = <<>>
      /\ decoder' = [d EXCEPT !.frames = <<>>] /\ pendingFrames' = d.frames
      /\ channelEnd' = IF d.failed THEN "broken" ELSE channelEnd
      /\ wire' = SubSeq(wire, n + 1, Len(wire)) /\ UNCHANGED <<sizes, receivedFrames>>
  BY <1>1 DEF ReceiveMessage
<1>3. /\ sizes \in Seq(1 .. FrameBytes) /\ Len(sizes) <= MaxSentFrames /\ wire \in Seq(0 .. Base - 1)
      /\ wire \in Seq(Nat) /\ decoder \in Decoders /\ receivedFrames \in Seq(Seq(Nat))
  BY BytesAreNat DEF FramingInv, FrameShapes
<1>4. PICK l \in Nat : l = Len(receivedFrames)
  BY <1>3, LenProperties
<1>5. PICK start : Layout(sizes, wire, start) /\ ReadTo(sizes, decoder, start, l, 0)
  <2>1. channelEnd # "broken"
    BY <1>2
  <2>2. OnTheWay
    BY <2>1 DEF FramingInv
  <2>3. PICK start : \E c \in Nat :
           /\ Layout(sizes, wire, start) /\ ReadTo(sizes, decoder, start, c, 0)
           /\ Completed(sizes, pendingFrames, Len(receivedFrames), c)
    BY <2>2 DEF OnTheWay
  <2>4. PICK c \in Nat :
           /\ Layout(sizes, wire, start) /\ ReadTo(sizes, decoder, start, c, 0)
           /\ Completed(sizes, pendingFrames, Len(receivedFrames), c)
    BY <2>3
  <2>5. Len(<<>>) = 0
    OBVIOUS
  <2>6. 0 = c - l
    BY <1>2, <1>4, <2>4, <2>5 DEF Completed
  <2>7. c = l
    BY <2>6
  <2> QED
    BY <2>4, <2>7
<1>6. /\ d \in Decoders
      /\ \/ d = Failed
         \/ \E c \in Nat : l <= c /\ ReadTo(sizes, d, start, c, n) /\ Completed(sizes, d.frames, l, c)
  BY <1>1, <1>3, <1>4, <1>5, MessageRead
<1>7. /\ decoder'.failed = d.failed /\ decoder'.expected = d.expected /\ decoder'.header = d.header
      /\ decoder'.payload = d.payload /\ decoder'.frames = <<>> /\ decoder' \in Decoders
  <2>1. <<>> \in Seq(Seq(Nat))
    BY EmptySeq
  <2> QED
    BY <1>2, <1>6, <2>1 DEF Decoders
<1>8. wire' \in Seq(0 .. Base - 1) /\ n \in Nat /\ n <= Len(wire)
  <2>1. Len(wire) \in Nat
    BY <1>3, LenProperties
  <2>2. n + 1 \in 1 .. Len(wire) + 1 /\ n \in Nat /\ n <= Len(wire)
    BY <2>1
  <2>3. \A k \in n + 1 .. Len(wire) : wire[k] \in 0 .. Base - 1
    <3>1. \A k \in 1 .. Len(wire) : wire[k] \in 0 .. Base - 1
      BY <1>3, ElementOfSeq
    <3>2. \A k \in n + 1 .. Len(wire) : k \in 1 .. Len(wire)
      BY <2>1, <2>2
    <3> QED
      BY <3>1, <3>2
  <2>4. SubSeq(wire, n + 1, Len(wire)) \in Seq(0 .. Base - 1)
    BY <1>3, <2>1, <2>2, <2>3
  <2> QED
    BY <1>2, <2>2, <2>4
<1>9. FramesAreSent'
  BY <1>2 DEF FramingInv, FramesAreSent
<1>10. Len(sizes') = Len(sizes) /\ Len(receivedFrames') = Len(receivedFrames) /\ EndOf = "open"
  BY <1>2 DEF EndOf
<1>11. d.frames \in Seq(Seq(Nat))
  BY <1>6 DEF Decoders
<1>12. CASE d = Failed
  <2>1. channelEnd' = "broken" /\ pendingFrames' = <<>> /\ EndOf' = "cut"
    BY <1>2, <1>12, FailedDecoder DEF EndOf
  <2>2. Len(<<>>) = 0 /\ HeaderBytes \in Nat \ {0} /\ FramesPerFeed \in Nat
    BY FramingAssumption
  <2>3. Bounded(decoder')
    BY <1>7, <1>12, <2>2, FailedDecoder DEF Bounded
  <2>4. FrameShapes'
    BY <1>2, <1>3, <1>7, <1>8, <1>11, <1>12, <2>1, <2>2, <2>3, FailedDecoder DEF FrameShapes
  <2> QED
    BY <1>9, <1>10, <2>1, <2>4 DEF FramingInv, FrameStep
<1>13. ASSUME NEW c \in Nat, l <= c, ReadTo(sizes, d, start, c, n), Completed(sizes, d.frames, l, c)
       PROVE  FramingInv' /\ FrameStep
  <2>1. d.failed = FALSE
    BY <1>13 DEF ReadTo, HasRead
  <2>2. channelEnd' = channelEnd
    BY <1>2, <2>1
  <2>3. Bounded(decoder')
    <3>1. Bounded(d)
      BY <1>3, <1>5, <1>8, <1>13, ReadBounded
    <3> QED
      BY <1>7, <3>1 DEF Bounded
  <2>4. Len(pendingFrames') <= FramesPerFeed
    BY <1>2, <1>13 DEF Completed
  <2>5. FrameShapes'
    BY <1>2, <1>3, <1>7, <1>8, <1>11, <2>2, <2>3, <2>4 DEF FramingInv, FrameShapes
  <2>6. PICK bt : bt = Nearer(start, Len(sizes), n)
    OBVIOUS
  <2>7. Layout(sizes, wire', bt)
    BY <1>2, <1>3, <1>5, <2>6, LayoutMoves
  <2>8. ReadTo(sizes, decoder', bt, c, 0)
    <3>1. PICK e : e = decoder'
      OBVIOUS
    <3>2. ReadTo(sizes, e, bt, c, 0)
      BY <1>3, <1>5, <1>7, <1>13, <2>6, <3>1, ReadOfMoved
    <3> QED
      BY <3>1, <3>2
  <2>9. OnTheWay'
    BY <1>2, <1>4, <1>13, <2>7, <2>8 DEF OnTheWay
  <2>10. EndOf' = EndOf
    BY <2>2 DEF EndOf
  <2> QED
    BY <1>9, <1>10, <2>5, <2>9, <2>10 DEF FramingInv, FrameStep
<1> QED
  BY <1>6, <1>12, <1>13

LEMMA FrameReceived == ASSUME FramingInv, ReceiveFrame PROVE FramingInv' /\ FrameStep
<1>1. /\ pendingFrames # <<>> /\ channelEnd \in {"open", "closing"}
      /\ receivedFrames' = Append(receivedFrames, Head(pendingFrames)) /\ pendingFrames' = Tail(pendingFrames)
      /\ UNCHANGED <<sizes, wire, decoder, channelEnd>>
  BY DEF ReceiveFrame
<1>2. PICK p \in Seq(Seq(Nat)), r \in Seq(Seq(Nat)) : p = pendingFrames /\ r = receivedFrames
  BY DEF FramingInv, FrameShapes
<1>3. PICK m \in Nat, l \in Nat : m = Len(p) /\ l = Len(r)
  BY LenProperties
<1>4. m # 0
  BY <1>1, <1>2, <1>3, EmptySeq
<1>5. Head(p) = p[1] /\ Head(p) \in Seq(Nat) /\ Tail(p) \in Seq(Seq(Nat)) /\ Len(Tail(p)) = m - 1
      /\ \A j \in 1 .. m - 1 : Tail(p)[j] = p[j + 1]
  BY <1>1, <1>2, <1>3, HeadTailProperties
<1>6. receivedFrames' = Append(r, p[1]) /\ pendingFrames' = Tail(p)
  BY <1>1, <1>2, <1>5
<1>7. Len(receivedFrames') = l + 1 /\ receivedFrames' \in Seq(Seq(Nat)) /\ receivedFrames'[l + 1] = p[1]
      /\ \A k \in 1 .. l : receivedFrames'[k] = r[k]
  BY <1>3, <1>5, <1>6, AppendProperties
<1>8. PICK start : \E c \in Nat :
         /\ Layout(sizes, wire, start) /\ ReadTo(sizes, decoder, start, c, 0) /\ Len(receivedFrames) <= c
         /\ Completed(sizes, pendingFrames, Len(receivedFrames), c)
  <2>1. OnTheWay
    BY <1>1 DEF FramingInv
  <2> QED
    BY <2>1 DEF OnTheWay
<1>9. PICK c \in Nat :
         /\ Layout(sizes, wire, start) /\ ReadTo(sizes, decoder, start, c, 0) /\ l <= c /\ Completed(sizes, p, l, c)
  BY <1>2, <1>3, <1>8
<1>10. m = c - l /\ m <= FramesPerFeed /\ \A j \in 1 .. m : p[j] = Payload(l + j, sizes[l + j])
  BY <1>3, <1>9 DEF Completed
<1>11. PICK n \in Nat : n = Len(sizes) /\ c <= n
  BY <1>9, LenProperties DEF FramingInv, FrameShapes, ReadTo
<1>12. l + 1 <= c /\ l < n /\ m - 1 = c - (l + 1) /\ m - 1 <= FramesPerFeed
  <2>1. FramesPerFeed \in Nat
    BY FramingAssumption
  <2> QED
    BY <1>4, <1>10, <1>11, <2>1
<1>13. p[1] = Payload(l + 1, sizes[l + 1])
  BY <1>4, <1>10
<1>14. FrameShapes'
  BY <1>1, <1>5, <1>6, <1>7, <1>12 DEF FramingInv, FrameShapes
<1>15. FramesAreSent'
  <2>1. \A k \in 1 .. l : r[k] = Payload(k, sizes[k])
    BY <1>2, <1>3 DEF FramingInv, FramesAreSent
  <2>2. \A k \in 1 .. l + 1 : k \in 1 .. l \/ k = l + 1
    OBVIOUS
  <2>3. \A k \in 1 .. l + 1 : receivedFrames'[k] = Payload(k, sizes[k])
    BY <1>7, <1>13, <2>1, <2>2
  <2>4. l + 1 <= Len(sizes)
    BY <1>11, <1>12
  <2> QED
    BY <1>1, <1>7, <2>3, <2>4 DEF FramesAreSent
<1>16. OnTheWay'
  <2>1. ASSUME NEW j \in 1 .. m - 1 PROVE Tail(p)[j] = Payload((l + 1) + j, sizes[(l + 1) + j])
    <3>1. j + 1 \in 1 .. m /\ l + (j + 1) = (l + 1) + j
      OBVIOUS
    <3>2. p[j + 1] = Payload(l + (j + 1), sizes[l + (j + 1)])
      BY <1>10, <3>1
    <3> QED
      BY <1>5, <3>1, <3>2
  <2>2. Completed(sizes, Tail(p), l + 1, c)
    BY <1>5, <1>12, <2>1 DEF Completed
  <2> QED
    BY <1>1, <1>6, <1>7, <1>9, <1>12, <2>2 DEF OnTheWay
<1>17. EndOf = "open" /\ EndOf' = EndOf
  BY <1>1 DEF EndOf
<1> QED
  BY <1>1, <1>2, <1>3, <1>7, <1>11, <1>12, <1>14, <1>15, <1>16, <1>17 DEF FramingInv, FrameStep

LEMMA ChannelEnds ==
    ASSUME FramingInv, SenderCloses \/ ReceiveClose \/ ConnectionBreaks \/ UNCHANGED framingVars
    PROVE  FramingInv' /\ FrameStep
<1>1. UNCHANGED <<sizes, wire, decoder, pendingFrames, receivedFrames>>
  BY DEF SenderCloses, ReceiveClose, ConnectionBreaks, framingVars
<1>2. channelEnd' \in {"open", "closing", "closed", "broken"} /\ (channelEnd' # "broken" => channelEnd # "broken")
  BY DEF SenderCloses, ReceiveClose, ConnectionBreaks, framingVars, FramingInv, FrameShapes
<1>3. FrameShapes' /\ FramesAreSent' /\ OnTheWay' = OnTheWay
  BY <1>1, <1>2 DEF FramingInv, FrameShapes, FramesAreSent, OnTheWay
<1>4. FramingInv'
  BY <1>2, <1>3 DEF FramingInv
<1>5. Len(sizes') = Len(sizes) /\ Len(receivedFrames') = Len(receivedFrames)
  BY <1>1
<1>6. CASE ReceiveClose
  <2>1. channelEnd = "closing" /\ channelEnd' = "closed" /\ wire = <<>> /\ pendingFrames = <<>>
    BY <1>6 DEF ReceiveClose
  <2>2. EndOf = "open" /\ EndOf' = "finished"
    BY <2>1 DEF EndOf
  <2>3. PICK start : \E c \in Nat :
           /\ Layout(sizes, wire, start) /\ ReadTo(sizes, decoder, start, c, 0)
           /\ Completed(sizes, pendingFrames, Len(receivedFrames), c)
    <3>1. OnTheWay
      BY <2>1 DEF FramingInv
    <3> QED
      BY <3>1 DEF OnTheWay
  <2>4. PICK c \in Nat :
           /\ Layout(sizes, wire, start) /\ ReadTo(sizes, decoder, start, c, 0)
           /\ Completed(sizes, pendingFrames, Len(receivedFrames), c)
    BY <2>3
  <2>5. PICK l \in Nat, n \in Nat : l = Len(receivedFrames) /\ n = Len(sizes)
    BY LenProperties DEF FramingInv, FrameShapes
  <2>6. Len(<<>>) = 0
    OBVIOUS
  <2>7. 0 = c - l
    BY <2>1, <2>4, <2>5, <2>6 DEF Completed
  <2>8. c = n
    <3>1. c \in 0 .. n /\ (c < n => 0 < start[c + 2])
      BY <2>4, <2>5 DEF ReadTo
    <3>2. ASSUME c < n PROVE start[c + 2] <= 0
      <4>1. c + 1 \in 1 .. n /\ (c + 1) + 1 = c + 2
        BY <3>1, <3>2
      <4>2. start[(c + 1) + 1] <= Len(wire)
        BY <2>4, <2>5, <4>1 DEF Layout
      <4> QED
        BY <2>1, <2>6, <4>1, <4>2
    <3>3. ASSUME c < n PROVE start[c + 2] \in Int
      <4>1. c + 2 \in 1 .. n + 1
        BY <3>1, <3>3
      <4> QED
        BY <2>4, <2>5, <4>1 DEF Layout
    <3> QED
      BY <3>1, <3>2, <3>3
  <2> QED
    BY <1>4, <1>5, <2>2, <2>5, <2>7, <2>8 DEF FrameStep
<1>7. CASE SenderCloses
  <2>1. EndOf' = EndOf
    BY <1>7 DEF SenderCloses, EndOf
  <2> QED
    BY <1>4, <1>5, <2>1 DEF FrameStep
<1>8. CASE ConnectionBreaks
  <2>1. EndOf = "open" /\ EndOf' = "cut"
    BY <1>8 DEF ConnectionBreaks, EndOf
  <2> QED
    BY <1>4, <1>5, <2>1 DEF FrameStep
<1>9. CASE UNCHANGED framingVars
  <2>1. EndOf' = EndOf
    BY <1>9 DEF framingVars, EndOf
  <2> QED
    BY <1>4, <1>5, <2>1 DEF FrameStep
<1> QED
  BY <1>6, <1>7, <1>8, <1>9

LEMMA FramesMove == FramingInv /\ [FramingNext]_framingVars => FramingInv' /\ FrameStep
  BY FrameIsSent, MessageReceived, FrameReceived, ChannelEnds DEF FramingNext

LEMMA FramesTyped == FramingInv => FramingTypeOK
  BY DEF FramingInv, FrameShapes, Bounded, FramingTypeOK

(* The decoder keeps less than one frame between two messages, and the channel    *)
(* holds no more frames than one message may complete.                            *)
THEOREM FramingTypeCorrect == FramingSpec => []FramingTypeOK
  BY FramesBegin, FramesMove, FramesTyped, PTL DEF FramingSpec

(* The frames received are numbered as they were sent.                            *)
LEMMA AreCounted ==
    ASSUME NEW ss \in Seq(1 .. FrameBytes), NEW rr \in Seq(Seq(Nat)), Len(rr) <= Len(ss),
           \A n \in 1 .. Len(rr) : rr[n] = Payload(n, ss[n])
    PROVE  /\ [n \in DOMAIN rr |-> IF n \in DOMAIN ss /\ rr[n] = Payload(n, ss[n]) THEN n ELSE 0]
                 = Counted(Len(rr))
           /\ Len(rr) \in Nat /\ Len(ss) \in Nat
<1>1. PICK l \in Nat, n \in Nat : l = Len(rr) /\ n = Len(ss)
  BY LenProperties
<1>2. DOMAIN rr = 1 .. l /\ DOMAIN ss = 1 .. n
  BY <1>1, LenProperties
<1>3. \A k \in 1 .. l : k \in 1 .. n
  BY <1>1
<1>4. \A k \in 1 .. l : (IF k \in DOMAIN ss /\ rr[k] = Payload(k, ss[k]) THEN k ELSE 0) = k
  BY <1>1, <1>2, <1>3
<1> QED
  BY <1>1, <1>2, <1>4 DEF Counted

LEMMA CountedOn == ASSUME NEW n \in Nat PROVE Append(Counted(n), n + 1) = Counted(n + 1) /\ Len(Counted(n)) = n
<1>1. Counted(n) \in Seq(Nat) /\ Len(Counted(n)) = n /\ Counted(n + 1) \in Seq(Nat) /\ Len(Counted(n + 1)) = n + 1
  <2>1. Counted(n) \in [1 .. n -> Nat] /\ Counted(n + 1) \in [1 .. n + 1 -> Nat]
    BY DEF Counted
  <2> QED
    BY <2>1
<1>2. \A k \in 1 .. n : Counted(n + 1)[k] = Counted(n)[k]
  BY DEF Counted
<1>3. Counted(n + 1)[n + 1] = n + 1
  BY DEF Counted
<1> QED
  BY <1>1, <1>2, <1>3, Grows

LEMMA FramesFollow ==
    ASSUME FramingInv, FramingInv', FrameStep
    PROVE  [Frames!StreamNext]_(Frames!streamVars)
<1> DEFINE given == [s \in {"frames"} |-> Len(sizes)]
<1> DEFINE got == [s \in {"frames"} |-> [n \in DOMAIN receivedFrames |-> Recognised(n)]]
<1> DEFINE ended == [s \in {"frames"} |->
              CASE channelEnd = "closed" -> "finished" [] channelEnd = "broken" -> "cut" [] OTHER -> "open"]
<1>a. /\ sizes \in Seq(1 .. FrameBytes) /\ receivedFrames \in Seq(Seq(Nat)) /\ Len(receivedFrames) <= Len(sizes)
      /\ \A n \in 1 .. Len(receivedFrames) : receivedFrames[n] = Payload(n, sizes[n])
  BY DEF FramingInv, FrameShapes, FramesAreSent
<1>b. /\ sizes' \in Seq(1 .. FrameBytes) /\ receivedFrames' \in Seq(Seq(Nat)) /\ Len(receivedFrames') <= Len(sizes')
      /\ \A n \in 1 .. Len(receivedFrames') : receivedFrames'[n] = Payload(n, sizes'[n])
  BY DEF FramingInv, FrameShapes, FramesAreSent
<1>1. PICK l \in Nat, n \in Nat : l = Len(receivedFrames) /\ n = Len(sizes)
  BY <1>a, AreCounted
<1>2. PICK l1 \in Nat, n1 \in Nat : l1 = Len(receivedFrames') /\ n1 = Len(sizes')
  BY <1>b, AreCounted
<1>3. given["frames"] = n /\ got["frames"] = Counted(l) /\ ended["frames"] = EndOf
  <2>1. [m \in DOMAIN receivedFrames |-> Recognised(m)] = Counted(l)
    BY <1>1, <1>a, AreCounted DEF Recognised
  <2> QED
    BY <1>1, <2>1 DEF EndOf
<1>4. given'["frames"] = n1 /\ got'["frames"] = Counted(l1) /\ ended'["frames"] = EndOf'
  <2>1. [m \in DOMAIN receivedFrames' |-> Recognised(m)'] = Counted(l1)
    BY <1>2, <1>b, AreCounted DEF Recognised
  <2> QED
    BY <1>2, <2>1 DEF EndOf
<1>5. Len(Counted(l)) = l /\ Append(Counted(l), l + 1) = Counted(l + 1)
  BY CountedOn
<1>6. \/ n1 = n + 1 /\ l1 = l /\ EndOf' = EndOf
      \/ EndOf = "open" /\ l < n /\ l1 = l + 1 /\ n1 = n /\ EndOf' = EndOf
      \/ EndOf = "open" /\ l = n /\ EndOf' = "finished" /\ n1 = n /\ l1 = l
      \/ EndOf = "open" /\ EndOf' = "cut" /\ n1 = n /\ l1 = l
      \/ n1 = n /\ l1 = l /\ EndOf' = EndOf
  BY <1>1, <1>2 DEF FrameStep
<1>7. \/ Frames!Send("frames") \/ Frames!Receive("frames") \/ Frames!FinishStream("frames")
      \/ Frames!Cut("frames") \/ Frames!Rest("frames")
  <2> HIDE DEF given, got, ended
  <2>1. \/ /\ given'["frames"] = given["frames"] + 1
           /\ got'["frames"] = got["frames"] /\ ended'["frames"] = ended["frames"]
        \/ /\ ended["frames"] = "open" /\ Len(got["frames"]) < given["frames"]
           /\ got'["frames"] = Append(got["frames"], Len(got["frames"]) + 1)
           /\ given'["frames"] = given["frames"] /\ ended'["frames"] = ended["frames"]
        \/ /\ ended["frames"] = "open" /\ Len(got["frames"]) = given["frames"] /\ ended'["frames"] = "finished"
           /\ given'["frames"] = given["frames"] /\ got'["frames"] = got["frames"]
        \/ /\ ended["frames"] = "open" /\ ended'["frames"] = "cut"
           /\ given'["frames"] = given["frames"] /\ got'["frames"] = got["frames"]
        \/ /\ given'["frames"] = given["frames"] /\ got'["frames"] = got["frames"]
           /\ ended'["frames"] = ended["frames"]
    BY <1>3, <1>4, <1>5, <1>6
  <2> QED
    BY <2>1 DEF given, got, ended, Frames!Send, Frames!Receive, Frames!FinishStream, Frames!Cut, Frames!Rest,
                Frames!Keeps
<1>8. Frames!StreamNext
  BY <1>7 DEF Frames!StreamNext
<1> QED
  BY <1>8

LEMMA FramesFirst == FramingInit => Frames!StreamInit
<1> SUFFICES ASSUME FramingInit PROVE Frames!StreamInit
  OBVIOUS
<1>1. sizes = <<>> /\ receivedFrames = <<>> /\ channelEnd = "open"
  BY DEF FramingInit
<1>2. Len(<<>>) = 0 /\ DOMAIN <<>> = {}
  OBVIOUS
<1>3. [n \in DOMAIN receivedFrames |-> Recognised(n)] = <<>>
  <2>1. [n \in 1 .. 0 |-> Recognised(n)] = <<>> /\ 1 .. 0 = {}
    OBVIOUS
  <2> QED
    BY <1>1, <1>2, <2>1
<1> QED
  BY <1>1, <1>2, <1>3 DEF Frames!StreamInit

(* Framing implements TunnelStream: however the connection cuts the frames into   *)
(* messages, the receiver gets the frames that were sent, whole and in order, and *)
(* the end of the channel only after the last of them.                            *)
THEOREM FramingKeepsFrames == FramingSpec => FramesKept
<1>1. FramingInit => FramingInv /\ Frames!StreamInit
  BY FramesBegin, FramesFirst
<1>2. FramingInv /\ [FramingNext]_framingVars => FramingInv' /\ [Frames!StreamNext]_(Frames!streamVars)
  BY FramesMove, FramesFollow
<1> QED
  BY <1>1, <1>2, PTL DEF FramingSpec, FramesKept, Frames!StreamSpec
===============================================================================
