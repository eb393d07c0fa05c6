--------------------------- MODULE HostTunnelsProofs ---------------------------
(* HostTunnels implements TunnelStream, for any number of tunnels, frames and   *)
(* chunks and any capacity of the channel.                                      *)
EXTENDS HostTunnels, SequenceTheorems, TLAPS

Of(m, s) == m.to = s[1] /\ m.what = s[2]
Chunk(m, t) == m.to = t /\ m.what \in {"out", "err"}
HostClosing(m, t) == m.to = t /\ m.what \in {"exit", "close"}

(* The queue q holds, in order, the chunks d + 1 to p of stream s.                *)
FrameChain(q, s, d, p) ==
    /\ d <= p
    /\ \A i \in 1 .. Len(q) : Of(q[i], s) => d < q[i].chunk /\ q[i].chunk <= p
    /\ \A i, j \in 1 .. Len(q) : Of(q[i], s) /\ Of(q[j], s) /\ i < j => q[i].chunk < q[j].chunk
    /\ \A n \in Nat : d < n /\ n <= p => \E i \in 1 .. Len(q) : Of(q[i], s) /\ q[i].chunk = n

Quiet(q, t) == \A i \in 1 .. Len(q) : ~Chunk(q[i], t)

(* Nothing of a tunnel's output is queued after its end.                          *)
ClosesLast(q, t) == \A i, j \in 1 .. Len(q) : HostClosing(q[i], t) /\ i < j => ~Chunk(q[j], t)

(* What is appended to the channel is its last entry.                          *)
LEMMA Pushed ==
    ASSUME NEW q \in Seq(Messages), NEW m \in Messages
    PROVE  /\ Append(q, m) \in Seq(Messages) /\ Len(Append(q, m)) = Len(q) + 1 /\ Len(q) \in Nat
           /\ \A i \in 1 .. Len(q) : Append(q, m)[i] = q[i]
           /\ Append(q, m)[Len(q) + 1] = m
OBVIOUS

(* Taking the head moves every other entry up by one.                          *)
LEMMA Popped ==
    ASSUME NEW q \in Seq(Messages), q # <<>>
    PROVE  /\ Tail(q) \in Seq(Messages) /\ Len(Tail(q)) = Len(q) - 1 /\ Len(q) \in Nat \ {0}
           /\ \A i \in 1 .. Len(Tail(q)) : Tail(q)[i] = q[i + 1] /\ i + 1 \in 1 .. Len(q)
           /\ Head(q) = q[1] /\ Head(q) \in Messages
OBVIOUS

(* Every entry of the channel is a message with a chunk number.                *)
LEMMA FrameQueued ==
    ASSUME NEW q \in Seq(Messages), NEW i \in 1 .. Len(q)
    PROVE  q[i] \in Messages /\ q[i].chunk \in Nat
<1>1. q[i] \in Messages
  OBVIOUS
<1> QED
  BY <1>1 DEF Messages

(* A head that is not of the stream takes none of its chunks.                     *)
LEMMA PopOther ==
    ASSUME NEW q \in Seq(Messages), q # <<>>, NEW s \in Streams, NEW d \in Nat, NEW p \in Nat,
           FrameChain(q, s, d, p), ~Of(Head(q), s)
    PROVE  FrameChain(Tail(q), s, d, p)
<1>1. ASSUME NEW n \in Nat, d < n, n <= p
      PROVE  \E i \in 1 .. Len(Tail(q)) : Of(Tail(q)[i], s) /\ Tail(q)[i].chunk = n
  <2>1. PICK i \in 1 .. Len(q) : Of(q[i], s) /\ q[i].chunk = n
    BY <1>1 DEF FrameChain
  <2>2. i # 1 /\ i - 1 \in 1 .. Len(Tail(q)) /\ (i - 1) + 1 = i
    BY <2>1, Popped
  <2>3. Tail(q)[i - 1] = q[i]
    BY <2>2, Popped
  <2> QED
    BY <2>1, <2>2, <2>3
<1>2. \A i \in 1 .. Len(Tail(q)) : Of(Tail(q)[i], s) => d < Tail(q)[i].chunk /\ Tail(q)[i].chunk <= p
  BY Popped DEF FrameChain
<1>3. ASSUME NEW i \in 1 .. Len(Tail(q)), NEW j \in 1 .. Len(Tail(q)),
             Of(Tail(q)[i], s), Of(Tail(q)[j], s), i < j
      PROVE  Tail(q)[i].chunk < Tail(q)[j].chunk
  <2>1. /\ i + 1 \in 1 .. Len(q) /\ j + 1 \in 1 .. Len(q) /\ i + 1 < j + 1
        /\ Tail(q)[i] = q[i + 1] /\ Tail(q)[j] = q[j + 1]
    BY <1>3, Popped
  <2> QED
    BY <1>3, <2>1 DEF FrameChain
<1> QED
  BY <1>1, <1>2, <1>3 DEF FrameChain

(* A head that is of the stream is its next chunk to deliver.                  *)
LEMMA PopOwn ==
    ASSUME NEW q \in Seq(Messages), q # <<>>, NEW s \in Streams, NEW d \in Nat, NEW p \in Nat,
           FrameChain(q, s, d, p), Of(Head(q), s)
    PROVE  Head(q).chunk = d + 1 /\ d < p /\ FrameChain(Tail(q), s, d + 1, p)
<1>1. /\ 1 \in 1 .. Len(q) /\ q[1] = Head(q) /\ q[1].chunk \in Nat
      /\ d < q[1].chunk /\ q[1].chunk <= p
  <2>1. 1 \in 1 .. Len(q) /\ q[1] = Head(q)
    BY Popped
  <2> QED
    BY <2>1, FrameQueued DEF FrameChain
<1>2. PICK k \in 1 .. Len(q) : Of(q[k], s) /\ q[k].chunk = d + 1
  BY <1>1 DEF FrameChain
<1>3. q[1].chunk = d + 1
  <2>1. CASE k = 1
    BY <1>2, <2>1
  <2>2. CASE k # 1
    <3>1. 1 < k
      BY <2>2, Popped
    <3> QED
      BY <1>1, <1>2, <3>1 DEF FrameChain
  <2> QED
    BY <2>1, <2>2
<1>4. ASSUME NEW n \in Nat, d + 1 < n, n <= p
      PROVE  \E i \in 1 .. Len(Tail(q)) : Of(Tail(q)[i], s) /\ Tail(q)[i].chunk = n
  <2>1. PICK i \in 1 .. Len(q) : Of(q[i], s) /\ q[i].chunk = n
    BY <1>4 DEF FrameChain
  <2>2. i # 1 /\ i - 1 \in 1 .. Len(Tail(q)) /\ (i - 1) + 1 = i
    BY <1>3, <1>4, <2>1, Popped
  <2>3. Tail(q)[i - 1] = q[i]
    BY <2>2, Popped
  <2> QED
    BY <2>1, <2>2, <2>3
<1>5. ASSUME NEW i \in 1 .. Len(Tail(q)), Of(Tail(q)[i], s)
      PROVE  d + 1 < Tail(q)[i].chunk /\ Tail(q)[i].chunk <= p
  <2>1. i + 1 \in 1 .. Len(q) /\ Tail(q)[i] = q[i + 1] /\ 1 < i + 1
    BY Popped
  <2> QED
    BY <1>1, <1>3, <1>5, <2>1 DEF FrameChain
<1>6. ASSUME NEW i \in 1 .. Len(Tail(q)), NEW j \in 1 .. Len(Tail(q)),
             Of(Tail(q)[i], s), Of(Tail(q)[j], s), i < j
      PROVE  Tail(q)[i].chunk < Tail(q)[j].chunk
  <2>1. /\ i + 1 \in 1 .. Len(q) /\ j + 1 \in 1 .. Len(q) /\ i + 1 < j + 1
        /\ Tail(q)[i] = q[i + 1] /\ Tail(q)[j] = q[j + 1]
    BY <1>6, Popped
  <2> QED
    BY <1>6, <2>1 DEF FrameChain
<1> QED
  BY <1>1, <1>3, <1>4, <1>5, <1>6 DEF FrameChain

(* Queueing something else leaves the stream's chunks as they were.            *)
LEMMA PushOther ==
    ASSUME NEW q \in Seq(Messages), NEW m \in Messages, NEW s \in Streams,
           NEW d \in Nat, NEW p \in Nat, FrameChain(q, s, d, p), ~Of(m, s)
    PROVE  FrameChain(Append(q, m), s, d, p)
BY Pushed DEF FrameChain

(* Queueing the next chunk of the stream lengthens what is queued of it by one.*)
LEMMA PushOwn ==
    ASSUME NEW q \in Seq(Messages), NEW m \in Messages, NEW s \in Streams,
           NEW d \in Nat, NEW p \in Nat, FrameChain(q, s, d, p), Of(m, s), m.chunk = p + 1
    PROVE  FrameChain(Append(q, m), s, d, p + 1)
<1> DEFINE r == Append(q, m)
<1>1. ASSUME NEW i \in 1 .. Len(r)
      PROVE  (i \in 1 .. Len(q) /\ r[i] = q[i]) \/ (i = Len(q) + 1 /\ r[i] = m)
  <2>1. i \in 1 .. Len(q) \/ i = Len(q) + 1
    BY Pushed
  <2> QED
    BY <2>1, Pushed
<1>2. ASSUME NEW i \in 1 .. Len(r), Of(r[i], s) PROVE d < r[i].chunk /\ r[i].chunk <= p + 1
  <2>1. CASE i \in 1 .. Len(q) /\ r[i] = q[i]
    <3>1. q[i].chunk \in Nat /\ d < q[i].chunk /\ q[i].chunk <= p
      BY <1>2, <2>1, FrameQueued DEF FrameChain
    <3> QED
      BY <2>1, <3>1
  <2>2. CASE r[i] = m
    BY <2>2 DEF FrameChain
  <2> QED
    BY <1>1, <2>1, <2>2
<1>3. ASSUME NEW i \in 1 .. Len(r), NEW j \in 1 .. Len(r), Of(r[i], s), Of(r[j], s), i < j
      PROVE  r[i].chunk < r[j].chunk
  <2>1. i \in 1 .. Len(q) /\ r[i] = q[i]
    BY <1>1, <1>3, Pushed
  <2>2. CASE j \in 1 .. Len(q) /\ r[j] = q[j]
    BY <1>3, <2>1, <2>2 DEF FrameChain
  <2>3. CASE r[j] = m
    <3>1. q[i].chunk \in Nat /\ q[i].chunk <= p
      BY <1>3, <2>1, FrameQueued DEF FrameChain
    <3> QED
      BY <2>1, <2>3, <3>1
  <2> QED
    BY <1>1, <2>2, <2>3
<1>4. ASSUME NEW n \in Nat, d < n, n <= p + 1 PROVE \E i \in 1 .. Len(r) : Of(r[i], s) /\ r[i].chunk = n
  <2>1. CASE n = p + 1
    BY <2>1, Pushed
  <2>2. CASE n <= p
    BY <1>4, <2>2, Pushed DEF FrameChain
  <2> QED
    BY <1>4, <2>1, <2>2
<1> QED
  BY <1>2, <1>3, <1>4 DEF FrameChain

(* Where no output of its tunnel is queued, a stream has been delivered whole. *)
LEMMA QuietEnds ==
    ASSUME NEW q \in Seq(Messages), NEW s \in Streams, NEW d \in Nat, NEW p \in Nat,
           FrameChain(q, s, d, p), Quiet(q, s[1])
    PROVE  d = p
<1>1. s[2] \in {"out", "err"}
  BY DEF Streams
<1>2. \A i \in 1 .. Len(q) : ~Of(q[i], s)
  BY <1>1 DEF Quiet, Chunk, Of
<1> QED
  BY <1>2 DEF FrameChain

-------------------------------------------------------------------------------
(* The invariant                                                                  *)

TunnelShapes ==
    /\ link \in {"up", "down"}
    /\ offered \in [Tunnels -> {"idle", "refused", "rpc", "pty", "bridge", "offload"}]
    /\ table \in [Tunnels -> {None, "rpc", "pty", "bridge", "pending", "offload"}]
    /\ output \in Seq(Messages)
    /\ streams \subseteq Streams
    /\ \A c \in calls : c[1] \in Tunnels
    /\ command \in [Tunnels -> {None, "running", "exited", "closed", "cleaned"}]
    /\ produced \in [Streams -> 0 .. MaxChunks]
    /\ delivered \in [Streams -> Seq(Nat)]
    /\ ended \in [Tunnels -> {None, "exit", "close", "error", "peer"}]

WriteInv == writing # None => writing \in Tunnels /\ table[writing] \in {"pty", "bridge"}

(* Nothing has begun to produce output for the tunnel.                            *)
NoTaskLeft(t) ==
    /\ ~Open(t) /\ command[t] = None
    /\ \A s \in Streams : s[1] = t => produced[s] = 0
    /\ \A i \in 1 .. Len(output) : output[i].to # t

(* What a tunnel was offered as says which tasks and messages it can have.        *)
RoleInv ==
    /\ \A t \in Tunnels :
          /\ offered[t] = "idle" => table[t] = None /\ ended[t] = None
          /\ table[t] \in {"rpc", "pty", "bridge"} => offered[t] = table[t]
          /\ table[t] \in {"pending", "offload"} => offered[t] = "offload"
          /\ offered[t] = "idle" \/ table[t] = "pending" => NoTaskLeft(t)
          /\ command[t] # None => offered[t] = "offload"
          /\ command[t] \in {"exited", "closed", "cleaned"} => ~Open(t)
    /\ \A c \in calls : offered[c[1]] = "rpc"
    /\ \A s \in streams : s[2] = "err" => offered[s[1]] = "offload"

(* An end of the local side is queued when its output has been, and is the last   *)
(* of it; once it is sent nothing is left.                                        *)
HostEndInv ==
    /\ \A t \in Tunnels :
          /\ ended[t] # None => table[t] = None \/ (ended[t] = "exit" /\ table[t] = "offload")
          /\ ended[t] = "exit" => ~Open(t) /\ Quiet(output, t)
          /\ ClosesLast(output, t)
          /\ \A i \in 1 .. Len(output) : HostClosing(output[i], t) =>
                ~Open(t) /\ (output[i].what = "exit" => offered[t] = "offload")
    /\ link = "down" => output = <<>> /\ \A t \in Tunnels : table[t] = None

(* Of an open stream, what was produced is delivered or queued, in order.         *)
FlowInv ==
    \A s \in Streams :
       Ending(s[1]) = "open" => FrameChain(output, s, Len(delivered[s]), produced[s])

TunnelsInv == TunnelShapes /\ WriteInv /\ RoleInv /\ HostEndInv /\ FlowInv

(* What a step may do to a stream.                                                *)
StreamStep(s) ==
    \/ /\ produced'[s] = produced[s] \/ produced'[s] = produced[s] + 1
       /\ delivered'[s] = delivered[s] /\ Ending(s[1])' = Ending(s[1])
    \/ /\ Ending(s[1]) = "open"
       /\ produced'[s] = produced[s] /\ delivered'[s] = delivered[s]
       /\ Ending(s[1])' = "cut" \/ (Ending(s[1])' = "finished" /\ Len(delivered[s]) = produced[s])
    \/ /\ Ending(s[1]) = "open" /\ Ending(s[1])' = "open" /\ produced'[s] = produced[s]
       /\ Len(delivered[s]) < produced[s]
       /\ delivered'[s] = Append(delivered[s], Len(delivered[s]) + 1)

StreamsStep == \A s \in Streams : StreamStep(s)

(* No entry is none of the names that an entry may have.                       *)
LEMMA NoneApart ==
    /\ None \notin Tunnels /\ None \notin {"rpc", "pty", "bridge", "pending", "offload"}
    /\ None \notin {"running", "exited", "closed", "cleaned", "exit", "close", "error", "peer"}
BY HostTunnelsAssumption

(* What the streams depend on.                                                    *)
seen == <<link, offered, table, output, streams, calls, produced, delivered, ended>>

(* Steps that change none of it.                                                  *)
LEMMA Unseen ==
    ASSUME TunnelsInv, UNCHANGED seen, WriteInv',
           \/ UNCHANGED command
           \/ \E t \in Tunnels : CommandTo(t, "closed", "cleaned")
    PROVE  TunnelsInv' /\ StreamsStep
<1>1. /\ command' \in [Tunnels -> {None, "running", "exited", "closed", "cleaned"}]
      /\ \A t \in Tunnels : command'[t] = command[t] \/ (command[t] = "closed" /\ command'[t] = "cleaned")
  BY DEF CommandTo, TunnelsInv, TunnelShapes
<1>2. TunnelShapes'
  BY <1>1 DEF TunnelsInv, TunnelShapes, seen
<1>3. \A t \in Tunnels : NoTaskLeft(t) => NoTaskLeft(t)'
  BY <1>1, NoneApart DEF NoTaskLeft, Open, seen
<1>4. RoleInv'
  BY <1>1, <1>3, NoneApart DEF TunnelsInv, RoleInv, Open, seen
<1>5. HostEndInv'
  BY DEF TunnelsInv, HostEndInv, Open, Quiet, ClosesLast, seen
<1>6. FlowInv' /\ StreamsStep
  BY DEF TunnelsInv, FlowInv, Ending, seen, StreamsStep, StreamStep
<1> QED
  BY <1>2, <1>4, <1>5, <1>6 DEF TunnelsInv

(* Tunnels leave the tables, closed by the peer or not; with the connection all   *)
(* do, and the channel is gone.                                                   *)
LEMMA Leaving ==
    ASSUME TunnelsInv, UNCHANGED <<offered, streams, calls, command, produced, delivered>>,
           table' \in [Tunnels -> {None, "rpc", "pty", "bridge", "pending", "offload"}],
           ended' \in [Tunnels -> {None, "exit", "close", "error", "peer"}],
           \A t \in Tunnels : table'[t] \in {None, table[t]},
           \A t \in Tunnels : \/ ended'[t] = ended[t]
                              \/ /\ ended'[t] = "peer" /\ table[t] \notin {None, "offload"}
                                 /\ table'[t] = None,
           \/ UNCHANGED <<link, output>>
           \/ link' = "down" /\ output' = <<>> /\ \A t \in Tunnels : table'[t] = None,
           WriteInv'
    PROVE  TunnelsInv' /\ StreamsStep
<1>1. TunnelShapes'
  <2>1. output' \in Seq(Messages) /\ link' \in {"up", "down"}
    <3>1. CASE UNCHANGED <<link, output>>
      BY <3>1 DEF TunnelsInv, TunnelShapes
    <3>2. CASE link' = "down" /\ output' = <<>>
      <4>1. <<>> \in Seq(Messages)
        OBVIOUS
      <4> QED
        BY <3>2, <4>1
    <3> QED
      BY <3>1, <3>2
  <2> QED
    BY <2>1 DEF TunnelsInv, TunnelShapes
<1>2. \A i \in 1 .. Len(output') : output' = output
  BY DEF TunnelsInv, TunnelShapes
<1>3. \A t \in Tunnels : NoTaskLeft(t) => NoTaskLeft(t)'
  BY <1>2 DEF NoTaskLeft, Open
<1>4. RoleInv'
  <2>1. \A t \in Tunnels : offered[t] = "idle" => table[t] = None
    BY DEF TunnelsInv, RoleInv
  <2>2. \A t \in Tunnels : table'[t] = "pending" => table[t] = "pending"
    BY NoneApart
  <2>3. \A t \in Tunnels : offered[t] = "idle" => table'[t] = None /\ ended'[t] = None
    BY <2>1 DEF TunnelsInv, RoleInv
  <2>4. \A t \in Tunnels : /\ table'[t] \in {"rpc", "pty", "bridge"} => offered[t] = table'[t]
                           /\ table'[t] \in {"pending", "offload"} => offered[t] = "offload"
    BY NoneApart DEF TunnelsInv, RoleInv
  <2>5. \A t \in Tunnels : offered[t] = "idle" \/ table'[t] = "pending" => NoTaskLeft(t)'
    BY <1>3, <2>2 DEF TunnelsInv, RoleInv
  <2> QED
    BY <2>3, <2>4, <2>5 DEF TunnelsInv, RoleInv, Open
<1>5. HostEndInv'
  <2>1. ASSUME NEW t \in Tunnels
        PROVE  /\ ended'[t] # None => table'[t] = None \/ (ended'[t] = "exit" /\ table'[t] = "offload")
               /\ ended'[t] = "exit" => ended[t] = "exit"
    BY NoneApart DEF TunnelsInv, HostEndInv
  <2>2. \A t \in Tunnels : Quiet(output, t) => Quiet(output', t)
    BY <1>2 DEF Quiet
  <2>3. \A t \in Tunnels : ClosesLast(output, t) => ClosesLast(output', t)
    BY <1>2 DEF ClosesLast
  <2>4. \A t \in Tunnels : \A i \in 1 .. Len(output') : HostClosing(output'[i], t) =>
           ~Open(t) /\ (output'[i].what = "exit" => offered[t] = "offload")
    BY <1>2 DEF TunnelsInv, HostEndInv
  <2>5. link' = "down" => output' = <<>> /\ \A t \in Tunnels : table'[t] = None
    BY DEF TunnelsInv, HostEndInv
  <2> QED
    BY <2>1, <2>2, <2>3, <2>4, <2>5 DEF TunnelsInv, HostEndInv, Open
<1>6. ASSUME NEW t \in Tunnels
      PROVE  Ending(t)' = Ending(t) \/ (Ending(t) = "open" /\ Ending(t)' = "cut")
  <2>1. CASE ended'[t] = ended[t] /\ table'[t] = table[t]
    BY <2>1 DEF Ending
  <2>2. CASE ended'[t] = ended[t] /\ table'[t] = None
    BY <2>2 DEF Ending
  <2>3. CASE ended'[t] # ended[t]
    BY <2>3, NoneApart DEF Ending, TunnelsInv, HostEndInv, RoleInv
  <2> QED
    BY <2>1, <2>2, <2>3
<1>7. StreamsStep
  <2>1. ASSUME NEW s \in Streams PROVE StreamStep(s)
    <3>1. s[1] \in Tunnels
      BY DEF Streams
    <3> QED
      BY <1>6, <3>1 DEF StreamStep
  <2> QED
    BY <2>1 DEF StreamsStep
<1>8. FlowInv'
  <2>1. ASSUME NEW s \in Streams, Ending(s[1])' = "open"
        PROVE  FrameChain(output', s, Len(delivered[s]), produced[s])
    <3>1. s[1] \in Tunnels
      BY DEF Streams
    <3>2. FrameChain(output, s, Len(delivered[s]), produced[s])
      BY <1>6, <2>1, <3>1 DEF TunnelsInv, FlowInv
    <3>3. CASE output' = <<>> /\ \A t \in Tunnels : table'[t] = None
      <4>1. offered[s[1]] = "idle"
        BY <2>1, <3>1, <3>3 DEF Ending
      <4>2. produced[s] = 0 /\ Len(delivered[s]) \in Nat /\ Len(delivered[s]) <= 0
        BY <3>1, <3>2, <4>1 DEF TunnelsInv, RoleInv, NoTaskLeft, FrameChain, TunnelShapes
      <4> QED
        BY <3>3, <4>2 DEF FrameChain
    <3> QED
      BY <3>2, <3>3
  <2> QED
    BY <2>1 DEF FlowInv
<1> QED
  BY <1>1, <1>4, <1>5, <1>8, <1>7 DEF TunnelsInv

(* A write to a local side that has gone takes the tunnel from its table.         *)
LEMMA WritesFail ==
    ASSUME TunnelsInv, FailWrite
    PROVE  TunnelsInv' /\ StreamsStep
<1>1. /\ writing \in Tunnels /\ table' = [table EXCEPT ![writing] = None] /\ writing' = None
      /\ UNCHANGED <<link, offered, output, streams, calls, command, produced, delivered, ended>>
  BY DEF FailWrite, Leave, Enter, TunnelsInv, WriteInv, history
<1>2. table' \in [Tunnels -> {None, "rpc", "pty", "bridge", "pending", "offload"}]
      /\ \A t \in Tunnels : table'[t] \in {None, table[t]}
  BY <1>1 DEF TunnelsInv, TunnelShapes
<1>3. ended' \in [Tunnels -> {None, "exit", "close", "error", "peer"}] /\ WriteInv'
  BY <1>1 DEF TunnelsInv, TunnelShapes, WriteInv
<1> QED
  BY <1>1, <1>2, <1>3, Leaving

(* An empty frame of the relay: the tunnel leaves its table.                   *)
LEMMA PeersClose ==
    ASSUME TunnelsInv, NEW t \in Tunnels, PeerCloses(t)
    PROVE  TunnelsInv' /\ StreamsStep
<1>1. /\ table[t] \notin {None, "offload"} /\ writing = None
      /\ table' = [table EXCEPT ![t] = None] /\ ended' = [ended EXCEPT ![t] = "peer"]
      /\ UNCHANGED <<link, offered, writing, output, streams, calls, command, produced, delivered>>
  BY DEF PeerCloses, Leave, Enter, Receiving, Selecting
<1>2. /\ table' \in [Tunnels -> {None, "rpc", "pty", "bridge", "pending", "offload"}]
      /\ ended' \in [Tunnels -> {None, "exit", "close", "error", "peer"}]
      /\ table'[t] = None /\ ended'[t] = "peer"
      /\ \A u \in Tunnels \ {t} : table'[u] = table[u] /\ ended'[u] = ended[u]
  BY <1>1 DEF TunnelsInv, TunnelShapes
<1>3. WriteInv'
  BY <1>1 DEF WriteInv
<1> QED
  BY <1>1, <1>2, <1>3, Leaving

(* The tables and the channel go with the connection.                          *)
LEMMA AllTunnelsEnd ==
    ASSUME TunnelsInv, LinkEnds
    PROVE  TunnelsInv' /\ StreamsStep
<1>1. /\ writing = None /\ link' = "down" /\ output' = <<>> /\ table' = [t \in Tunnels |-> None]
      /\ UNCHANGED <<offered, writing, streams, calls, command, produced, delivered, ended>>
  BY DEF LinkEnds, Selecting, history
<1>2. /\ table' \in [Tunnels -> {None, "rpc", "pty", "bridge", "pending", "offload"}]
      /\ \A t \in Tunnels : table'[t] = None
      /\ ended' \in [Tunnels -> {None, "exit", "close", "error", "peer"}] /\ WriteInv'
  BY <1>1 DEF TunnelsInv, TunnelShapes, WriteInv
<1> QED
  BY <1>1, <1>2, Leaving

(* A local port that cannot be dialled cuts the tunnel before it has carried      *)
(* anything; nothing is queued for a tunnel that is new.                          *)
LEMMA Offers ==
    ASSUME TunnelsInv, NEW t \in Tunnels, NEW kind \in {"rpc", "pty", "bridge", "offload"},
           Offer(t, kind)
    PROVE  TunnelsInv' /\ StreamsStep
<1> DEFINE collection == IF kind = "offload" THEN "pending" ELSE kind
<1>1. /\ offered[t] = "idle" /\ table[t] = None /\ ended[t] = None /\ NoTaskLeft(t)
      /\ writing = None /\ link = "up"
      /\ UNCHANGED <<link, writing, output, calls, command, produced, delivered, ended>>
  BY DEF Offer, Arrives, Receiving, Selecting, history, TunnelsInv, RoleInv
<1>2. \/ /\ offered' = [offered EXCEPT ![t] = kind] /\ table' = [table EXCEPT ![t] = collection]
         /\ \/ kind \in {"pty", "bridge"} /\ streams' = streams \cup {<<t, "out">>}
            \/ kind \in {"rpc", "offload"} /\ streams' = streams
      \/ offered' = [offered EXCEPT ![t] = "refused"] /\ UNCHANGED <<table, streams>>
  BY DEF Offer, Enter, Out
<1>3. /\ offered' \in [Tunnels -> {"idle", "refused", "rpc", "pty", "bridge", "offload"}]
      /\ table' \in [Tunnels -> {None, "rpc", "pty", "bridge", "pending", "offload"}]
      /\ streams' \subseteq Streams
      /\ \A u \in Tunnels \ {t} : offered'[u] = offered[u] /\ table'[u] = table[u]
      /\ \/ offered'[t] = kind /\ table'[t] = collection
         \/ offered'[t] = "refused" /\ table'[t] = None
      /\ \A s \in streams' : s \in streams \/ (s = <<t, "out">> /\ kind \in {"pty", "bridge"}
                                               /\ offered'[t] = kind /\ table'[t] = kind)
      /\ streams \subseteq streams'
  <2>1. collection \in {"rpc", "pty", "bridge", "pending"} /\ (kind \in {"pty", "bridge"} => collection = kind)
    OBVIOUS
  <2>2. streams \subseteq Streams /\ <<t, "out">> \in Streams
    BY DEF TunnelsInv, TunnelShapes, Streams
  <2>3. CASE /\ offered' = [offered EXCEPT ![t] = kind] /\ table' = [table EXCEPT ![t] = collection]
             /\ \/ kind \in {"pty", "bridge"} /\ streams' = streams \cup {<<t, "out">>}
                \/ kind \in {"rpc", "offload"} /\ streams' = streams
    <3>1. /\ offered' \in [Tunnels -> {"idle", "refused", "rpc", "pty", "bridge", "offload"}]
          /\ table' \in [Tunnels -> {None, "rpc", "pty", "bridge", "pending", "offload"}]
          /\ \A u \in Tunnels \ {t} : offered'[u] = offered[u] /\ table'[u] = table[u]
          /\ offered'[t] = kind /\ table'[t] = collection
      BY <2>1, <2>3 DEF TunnelsInv, TunnelShapes
    <3> HIDE DEF collection
    <3> QED
      BY <2>1, <2>2, <2>3, <3>1
  <2>4. CASE offered' = [offered EXCEPT ![t] = "refused"] /\ UNCHANGED <<table, streams>>
    BY <1>1, <2>2, <2>4 DEF TunnelsInv, TunnelShapes
  <2> QED
    BY <1>2, <2>3, <2>4
<1>4. TunnelShapes' /\ WriteInv'
  BY <1>1, <1>3 DEF TunnelsInv, TunnelShapes, WriteInv
<1>5. \A u \in Tunnels \ {t} : Open(u)' = Open(u)
  BY <1>3 DEF Open
<1>6. \A u \in Tunnels \ {t} : NoTaskLeft(u) => NoTaskLeft(u)'
  BY <1>1, <1>5 DEF NoTaskLeft
<1>7. RoleInv'
  <2>1. ASSUME NEW u \in Tunnels \ {t}
        PROVE  /\ offered'[u] = "idle" => table'[u] = None /\ ended'[u] = None
               /\ table'[u] \in {"rpc", "pty", "bridge"} => offered'[u] = table'[u]
               /\ table'[u] \in {"pending", "offload"} => offered'[u] = "offload"
               /\ offered'[u] = "idle" \/ table'[u] = "pending" => NoTaskLeft(u)'
               /\ command'[u] # None => offered'[u] = "offload"
               /\ command'[u] \in {"exited", "closed", "cleaned"} => ~Open(u)'
    BY <1>1, <1>3, <1>5, <1>6 DEF TunnelsInv, RoleInv
  <2>2. table'[t] = "pending" => NoTaskLeft(t)'
    <3>1. ASSUME table'[t] = "pending" PROVE streams' = streams
      BY <1>2, <1>3, <3>1, NoneApart DEF TunnelsInv, TunnelShapes
    <3> QED
      BY <1>1, <3>1 DEF NoTaskLeft, Open
  <2>3. /\ offered'[t] # "idle"
        /\ table'[t] \in {"rpc", "pty", "bridge"} => offered'[t] = table'[t]
        /\ table'[t] \in {"pending", "offload"} => offered'[t] = "offload"
        /\ command'[t] = None
    BY <1>1, <1>3, NoneApart DEF NoTaskLeft
  <2>4. \A c \in calls' : offered'[c[1]] = "rpc"
    BY <1>1, <1>3 DEF TunnelsInv, RoleInv, TunnelShapes
  <2>5. \A s \in streams' : s[2] = "err" => offered'[s[1]] = "offload"
    <3>1. ASSUME NEW s \in streams PROVE s[1] \in Tunnels /\ s[1] # t
      BY <1>1 DEF TunnelsInv, TunnelShapes, Streams, NoTaskLeft, Open
    <3> QED
      BY <1>3, <3>1 DEF TunnelsInv, RoleInv
  <2> QED
    BY <2>1, <2>2, <2>3, <2>4, <2>5, NoneApart DEF RoleInv
<1>8. HostEndInv'
  <2>1. ASSUME NEW u \in Tunnels \ {t}
        PROVE  /\ ended'[u] # None => table'[u] = None \/ (ended'[u] = "exit" /\ table'[u] = "offload")
               /\ ended'[u] = "exit" => ~Open(u)' /\ Quiet(output', u)
               /\ ClosesLast(output', u)
               /\ \A i \in 1 .. Len(output') : HostClosing(output'[i], u) =>
                     ~Open(u)' /\ (output'[i].what = "exit" => offered'[u] = "offload")
    BY <1>1, <1>3, <1>5 DEF TunnelsInv, HostEndInv
  <2>2. ended'[t] = None /\ ClosesLast(output', t) /\ \A i \in 1 .. Len(output') : ~HostClosing(output'[i], t)
    BY <1>1 DEF NoTaskLeft, HostClosing, ClosesLast
  <2> QED
    BY <1>1, <2>1, <2>2, NoneApart DEF HostEndInv
<1>9. \A u \in Tunnels : Ending(u)' = Ending(u) \/ (Ending(u) = "open" /\ Ending(u)' = "cut")
  <2>1. \A u \in Tunnels \ {t} : Ending(u)' = Ending(u)
    BY <1>1, <1>3 DEF Ending
  <2>2. Ending(t) = "open" /\ Ending(t)' \in {"open", "cut"}
    BY <1>1, NoneApart DEF Ending
  <2> QED
    BY <2>1, <2>2
<1>10. FlowInv' /\ StreamsStep
  <2>1. \A s \in Streams : s[1] \in Tunnels
    BY DEF Streams
  <2> QED
    BY <1>1, <1>9, <2>1 DEF TunnelsInv, FlowInv, StreamsStep, StreamStep
<1> QED
  BY <1>4, <1>7, <1>8, <1>10 DEF TunnelsInv

(* A request to run a command is refused before it has carried anything, or its   *)
(* readers start.                                                                 *)
LEMMA OffloadsStart ==
    ASSUME TunnelsInv, NEW t \in Tunnels, RequestOffload(t)
    PROVE  TunnelsInv' /\ StreamsStep
<1>1. /\ table[t] = "pending" /\ offered[t] = "offload" /\ NoTaskLeft(t) /\ ended[t] = None
      /\ writing = None /\ link = "up"
      /\ UNCHANGED <<link, offered, writing, output, calls, produced, delivered>>
  <2>1. table[t] = "pending" /\ writing = None /\ link = "up"
        /\ UNCHANGED <<link, offered, writing, output, calls, produced, delivered>>
    BY DEF RequestOffload, Frame, Receiving, Selecting
  <2> QED
    BY <2>1, NoneApart DEF TunnelsInv, RoleInv, HostEndInv
<1>2. \/ /\ table' = [table EXCEPT ![t] = None] /\ ended' = [ended EXCEPT ![t] = "error"]
         /\ UNCHANGED <<streams, command>>
      \/ /\ table' = [table EXCEPT ![t] = "offload"] /\ ended' = ended
         /\ streams' = streams \cup {<<t, "out">>, <<t, "err">>}
         /\ command' = [command EXCEPT ![t] = "running"]
  BY DEF RequestOffload, Leave, Enter, Out
<1>3. /\ table' \in [Tunnels -> {None, "rpc", "pty", "bridge", "pending", "offload"}]
      /\ ended' \in [Tunnels -> {None, "exit", "close", "error", "peer"}]
      /\ command' \in [Tunnels -> {None, "running", "exited", "closed", "cleaned"}]
      /\ streams' \subseteq Streams
      /\ \A u \in Tunnels \ {t} : table'[u] = table[u] /\ ended'[u] = ended[u] /\ command'[u] = command[u]
      /\ \/ table'[t] = None /\ ended'[t] = "error"
         \/ table'[t] = "offload" /\ ended'[t] = None
      /\ command'[t] \in {None, "running"}
      /\ \A s \in streams' : s \in streams \/ s[1] = t
      /\ streams \subseteq streams'
  <2>1. command[t] = None /\ streams \subseteq Streams /\ <<t, "out">> \in Streams /\ <<t, "err">> \in Streams
    BY <1>1 DEF TunnelsInv, TunnelShapes, Streams, NoTaskLeft
  <2>2. CASE /\ table' = [table EXCEPT ![t] = None] /\ ended' = [ended EXCEPT ![t] = "error"]
             /\ UNCHANGED <<streams, command>>
    BY <2>1, <2>2 DEF TunnelsInv, TunnelShapes
  <2>3. CASE /\ table' = [table EXCEPT ![t] = "offload"] /\ ended' = ended
             /\ streams' = streams \cup {<<t, "out">>, <<t, "err">>}
             /\ command' = [command EXCEPT ![t] = "running"]
    <3>1. /\ table' \in [Tunnels -> {None, "rpc", "pty", "bridge", "pending", "offload"}]
          /\ command' \in [Tunnels -> {None, "running", "exited", "closed", "cleaned"}]
          /\ \A u \in Tunnels \ {t} : table'[u] = table[u] /\ command'[u] = command[u]
          /\ table'[t] = "offload" /\ command'[t] = "running"
      BY <2>3 DEF TunnelsInv, TunnelShapes
    <3>2. ended' = ended /\ ended \in [Tunnels -> {None, "exit", "close", "error", "peer"}]
      BY <2>3 DEF TunnelsInv, TunnelShapes
    <3>3. streams' \subseteq Streams /\ streams \subseteq streams' /\ \A s \in streams' : s \in streams \/ s[1] = t
      BY <2>1, <2>3
    <3> QED
      BY <1>1, <3>1, <3>2, <3>3
  <2> QED
    BY <1>2, <2>2, <2>3
<1>4. TunnelShapes' /\ WriteInv'
  BY <1>1, <1>3 DEF TunnelsInv, TunnelShapes, WriteInv
<1>5. \A u \in Tunnels \ {t} : Open(u)' = Open(u)
  BY <1>3 DEF Open
<1>6. \A u \in Tunnels \ {t} : NoTaskLeft(u) => NoTaskLeft(u)'
  BY <1>1, <1>3, <1>5 DEF NoTaskLeft
<1>7. RoleInv'
  <2>1. ASSUME NEW u \in Tunnels \ {t}
        PROVE  /\ offered'[u] = "idle" => table'[u] = None /\ ended'[u] = None
               /\ table'[u] \in {"rpc", "pty", "bridge"} => offered'[u] = table'[u]
               /\ table'[u] \in {"pending", "offload"} => offered'[u] = "offload"
               /\ offered'[u] = "idle" \/ table'[u] = "pending" => NoTaskLeft(u)'
               /\ command'[u] # None => offered'[u] = "offload"
               /\ command'[u] \in {"exited", "closed", "cleaned"} => ~Open(u)'
    BY <1>1, <1>3, <1>5, <1>6 DEF TunnelsInv, RoleInv
  <2>2. \A c \in calls' : offered'[c[1]] = "rpc"
    BY <1>1 DEF TunnelsInv, RoleInv
  <2>3. \A s \in streams' : s[2] = "err" => offered'[s[1]] = "offload"
    BY <1>1, <1>3 DEF TunnelsInv, RoleInv
  <2>4. /\ offered'[t] = "offload" /\ table'[t] \in {None, "offload"}
        /\ command'[t] \notin {"exited", "closed", "cleaned"}
    BY <1>1, <1>3, NoneApart
  <2> QED
    BY <2>1, <2>2, <2>3, <2>4, NoneApart DEF RoleInv
<1>8. HostEndInv'
  <2>1. ASSUME NEW u \in Tunnels \ {t}
        PROVE  /\ ended'[u] # None => table'[u] = None \/ (ended'[u] = "exit" /\ table'[u] = "offload")
               /\ ended'[u] = "exit" => ~Open(u)' /\ Quiet(output', u)
               /\ ClosesLast(output', u)
               /\ \A i \in 1 .. Len(output') : HostClosing(output'[i], u) =>
                     ~Open(u)' /\ (output'[i].what = "exit" => offered'[u] = "offload")
    BY <1>1, <1>3, <1>5 DEF TunnelsInv, HostEndInv
  <2>2. /\ ended'[t] # None => table'[t] = None
        /\ ended'[t] # "exit"
        /\ ClosesLast(output', t) /\ \A i \in 1 .. Len(output') : ~HostClosing(output'[i], t)
    BY <1>1, <1>3, NoneApart DEF NoTaskLeft, HostClosing, ClosesLast
  <2> QED
    BY <1>1, <2>1, <2>2 DEF HostEndInv
<1>9. \A s \in Streams : s[1] = t => produced[s] = 0 /\ Len(delivered[s]) = 0
  <2>1. Ending(t) = "open"
    BY <1>1, NoneApart DEF Ending
  <2>2. ASSUME NEW s \in Streams, s[1] = t PROVE produced[s] = 0 /\ Len(delivered[s]) = 0
    <3>1. produced[s] = 0 /\ Len(delivered[s]) \in Nat
      BY <1>1, <2>2 DEF NoTaskLeft, TunnelsInv, TunnelShapes
    <3>2. Len(delivered[s]) <= produced[s]
      BY <2>1, <2>2 DEF TunnelsInv, FlowInv, FrameChain
    <3> QED
      BY <3>1, <3>2
  <2> QED
    BY <2>2
<1>10. /\ \A u \in Tunnels \ {t} : Ending(u)' = Ending(u)
       /\ Ending(t) = "open" /\ Ending(t)' \in {"open", "finished"}
  BY <1>1, <1>3, NoneApart DEF Ending
<1>11. FlowInv' /\ StreamsStep
  <2>1. \A s \in Streams : s[1] \in Tunnels
    BY DEF Streams
  <2>2. FlowInv'
    BY <1>1, <1>10, <2>1 DEF TunnelsInv, FlowInv
  <2>3. \A s \in Streams : StreamStep(s)
    BY <1>1, <1>9, <1>10, <2>1 DEF StreamStep
  <2> QED
    BY <2>2, <2>3 DEF StreamsStep
<1> QED
  BY <1>4, <1>7, <1>8, <1>11 DEF TunnelsInv

(* A call begins on a tunnel that has no output stream.                           *)
LEMMA CallsBegin ==
    ASSUME TunnelsInv, NEW t \in Tunnels, RequestRpc(t)
    PROVE  TunnelsInv' /\ StreamsStep
<1>1. /\ table[t] = "rpc" /\ calls' = calls \cup {<<t, frames[t]>>} /\ UNCHANGED command
      /\ UNCHANGED <<link, offered, table, writing, output, streams, produced, delivered, ended>>
  BY DEF RequestRpc, loopState, history
<1>2. offered[t] = "rpc"
  BY <1>1 DEF TunnelsInv, RoleInv
<1>3. TunnelShapes' /\ WriteInv'
  BY <1>1 DEF TunnelsInv, TunnelShapes, WriteInv
<1>4. \A u \in Tunnels : NoTaskLeft(u) => NoTaskLeft(u)'
  BY <1>1 DEF NoTaskLeft, Open
<1>5. RoleInv'
  BY <1>1, <1>2, <1>4 DEF TunnelsInv, RoleInv, Open
<1>6. HostEndInv'
  BY <1>1 DEF TunnelsInv, HostEndInv, Open
<1>7. FlowInv' /\ StreamsStep
  BY <1>1 DEF TunnelsInv, FlowInv, Ending, StreamsStep, StreamStep
<1> QED
  BY <1>3, <1>5, <1>6, <1>7 DEF TunnelsInv

(* The answer of a call, or the end of a tunnel that nobody reads for any more.   *)
QueuesLast(m) ==
    /\ link = "up" /\ output' = Append(output, m)
    /\ m.what \in {"answer", "exit", "close"}
    /\ offered[m.to] # "idle" /\ table[m.to] # "pending"
    /\ m.what \in {"exit", "close"} => ~Open(m.to)'
    /\ m.what = "exit" => offered[m.to] = "offload"

(* A task ends, and may queue an answer or the end of a tunnel whose readers have *)
(* all gone.                                                                      *)
LEMMA TasksEnd ==
    ASSUME TunnelsInv, UNCHANGED <<link, offered, table, produced, delivered, ended>>, WriteInv',
           streams' \subseteq streams, calls' \subseteq calls,
           command' \in [Tunnels -> {None, "running", "exited", "closed", "cleaned"}],
           \A t \in Tunnels : \/ command'[t] = command[t]
                              \/ command[t] # None /\ command'[t] # None /\ ~Open(t)',
           UNCHANGED output \/ \E m \in Messages : QueuesLast(m)
    PROVE  TunnelsInv' /\ StreamsStep
<1>1. \A t \in Tunnels : Open(t)' => Open(t)
  BY DEF Open
<1>2. output \in Seq(Messages) /\ output' \in Seq(Messages)
  <2>1. output \in Seq(Messages)
    BY DEF TunnelsInv, TunnelShapes
  <2>2. ASSUME NEW m \in Messages, QueuesLast(m) PROVE output' \in Seq(Messages)
    BY <2>1, <2>2, Pushed DEF QueuesLast
  <2> QED
    BY <2>1, <2>2
<1>3. TunnelShapes'
  BY <1>2 DEF TunnelsInv, TunnelShapes
<1>4. ASSUME NEW i \in 1 .. Len(output')
      PROVE  \/ i \in 1 .. Len(output) /\ output'[i] = output[i]
             \/ i = Len(output) + 1 /\ \E n \in Messages : n = output'[i] /\ QueuesLast(n)
  <2>1. CASE UNCHANGED output
    BY <2>1
  <2>2. ASSUME NEW m \in Messages, QueuesLast(m)
        PROVE  \/ i \in 1 .. Len(output) /\ output'[i] = output[i]
               \/ i = Len(output) + 1 /\ \E n \in Messages : n = output'[i] /\ QueuesLast(n)
    <3>1. output' = Append(output, m)
      BY <2>2 DEF QueuesLast
    <3>2. i \in 1 .. Len(output) \/ i = Len(output) + 1
      BY <1>2, <3>1, Pushed
    <3>3. i \in 1 .. Len(output) => output'[i] = output[i]
      BY <1>2, <3>1, Pushed
    <3>4. i = Len(output) + 1 => output'[i] = m
      BY <1>2, <3>1, Pushed
    <3> QED
      BY <2>2, <3>2, <3>3, <3>4
  <2> QED
    BY <2>1, <2>2
<1>5. ASSUME NEW t \in Tunnels, offered[t] = "idle" \/ table[t] = "pending"
      PROVE  NoTaskLeft(t)'
  <2>1. NoTaskLeft(t)
    BY <1>5 DEF TunnelsInv, RoleInv
  <2>2. command'[t] = None /\ ~Open(t)'
    BY <1>1, <2>1 DEF NoTaskLeft
  <2>3. \A i \in 1 .. Len(output') : output'[i].to # t
    BY <1>4, <1>5, <2>1 DEF NoTaskLeft, QueuesLast
  <2> QED
    BY <2>1, <2>2, <2>3 DEF NoTaskLeft
<1>6. RoleInv'
  <2>1. \A t \in Tunnels :
          /\ offered'[t] = "idle" => table'[t] = None /\ ended'[t] = None
          /\ table'[t] \in {"rpc", "pty", "bridge"} => offered'[t] = table'[t]
          /\ table'[t] \in {"pending", "offload"} => offered'[t] = "offload"
          /\ offered'[t] = "idle" \/ table'[t] = "pending" => NoTaskLeft(t)'
    BY <1>5 DEF TunnelsInv, RoleInv
  <2>2. \A t \in Tunnels :
          /\ command'[t] # None => offered'[t] = "offload"
          /\ command'[t] \in {"exited", "closed", "cleaned"} => ~Open(t)'
    BY <1>1 DEF TunnelsInv, RoleInv
  <2>3. /\ \A c \in calls' : offered'[c[1]] = "rpc"
        /\ \A s \in streams' : s[2] = "err" => offered'[s[1]] = "offload"
    BY DEF TunnelsInv, RoleInv
  <2> QED
    BY <2>1, <2>2, <2>3 DEF RoleInv
<1>7. HostEndInv'
  <2>1. ASSUME NEW t \in Tunnels, Quiet(output, t) PROVE Quiet(output', t)
    BY <1>4, <2>1 DEF Quiet, Chunk, QueuesLast
  <2>2. ASSUME NEW t \in Tunnels PROVE ClosesLast(output', t)
    <3>1. ASSUME NEW i \in 1 .. Len(output'), NEW j \in 1 .. Len(output'),
                 HostClosing(output'[i], t), i < j, Chunk(output'[j], t)
          PROVE  FALSE
      <4>1. j \in 1 .. Len(output) /\ output'[j] = output[j]
        BY <1>4, <3>1 DEF Chunk, QueuesLast
      <4>2. Len(output) \in Nat /\ Len(output') \in Nat
        BY <1>2
      <4>3. i \in 1 .. Len(output) /\ i # Len(output) + 1
        BY <3>1, <4>1, <4>2
      <4>4. output'[i] = output[i]
        BY <1>4, <4>3
      <4> QED
        BY <3>1, <4>1, <4>3, <4>4 DEF TunnelsInv, HostEndInv, ClosesLast
    <3> QED
      BY <3>1 DEF ClosesLast
  <2>3. ASSUME NEW t \in Tunnels, NEW i \in 1 .. Len(output'), HostClosing(output'[i], t)
        PROVE  ~Open(t)' /\ (output'[i].what = "exit" => offered'[t] = "offload")
    <3>1. CASE i \in 1 .. Len(output) /\ output'[i] = output[i]
      BY <1>1, <2>3, <3>1 DEF TunnelsInv, HostEndInv
    <3>2. CASE \E n \in Messages : n = output'[i] /\ QueuesLast(n)
      BY <2>3, <3>2 DEF HostClosing, QueuesLast
    <3> QED
      BY <1>4, <3>1, <3>2
  <2>4. \A t \in Tunnels :
          /\ ended'[t] # None => table'[t] = None \/ (ended'[t] = "exit" /\ table'[t] = "offload")
          /\ ended'[t] = "exit" => ~Open(t)' /\ Quiet(output', t)
    BY <1>1, <2>1 DEF TunnelsInv, HostEndInv
  <2>5. link' = "down" => output' = <<>> /\ \A t \in Tunnels : table'[t] = None
    BY DEF TunnelsInv, HostEndInv, QueuesLast
  <2> QED
    BY <2>2, <2>3, <2>4, <2>5 DEF HostEndInv
<1>8. FlowInv'
  <2>1. ASSUME NEW s \in Streams, Ending(s[1]) = "open"
        PROVE  FrameChain(output', s, Len(delivered[s]), produced[s])
    <3>1. FrameChain(output, s, Len(delivered[s]), produced[s])
      BY <2>1 DEF TunnelsInv, FlowInv
    <3>2. Len(delivered[s]) \in Nat /\ produced[s] \in Nat /\ s[2] \in {"out", "err"}
      BY DEF TunnelsInv, TunnelShapes, Streams
    <3>3. ASSUME NEW m \in Messages, QueuesLast(m)
          PROVE  FrameChain(output', s, Len(delivered[s]), produced[s])
      <4>1. output' = Append(output, m) /\ ~Of(m, s)
        BY <3>2, <3>3 DEF Of, QueuesLast
      <4> QED
        BY <1>2, <3>1, <3>2, <4>1, PushOther
    <3> QED
      BY <3>1, <3>3
  <2> QED
    BY <2>1 DEF FlowInv, Ending
<1>9. StreamsStep
  BY DEF Ending, StreamsStep, StreamStep
<1> QED
  BY <1>3, <1>6, <1>7, <1>8, <1>9 DEF TunnelsInv

(* A reader has come to its end; that of a socket queues the close of its tunnel. *)
LEMMA OutputEnds ==
    ASSUME TunnelsInv, NEW s \in Streams, EndOfOutput(s)
    PROVE  TunnelsInv' /\ StreamsStep
<1> DEFINE m == [to |-> s[1], what |-> "close", chunk |-> 0]
<1>1. /\ s \in streams /\ streams' = streams \ {s} /\ s[1] \in Tunnels
      /\ UNCHANGED <<link, offered, table, writing, calls, command, produced, delivered, ended>>
  BY DEF EndOfOutput, loopState, history, Streams
<1>2. \/ UNCHANGED output
      \/ offered[s[1]] = "bridge" /\ link = "up" /\ output' = Append(output, m)
  BY DEF EndOfOutput, Queue, QueueChunk
<1>3. m \in Messages /\ m.what = "close" /\ m.to = s[1]
  BY <1>1, HostTunnelsAssumption DEF Messages
<1>4. offered[s[1]] # "idle" /\ table[s[1]] # "pending"
  BY <1>1 DEF TunnelsInv, RoleInv, NoTaskLeft, Open
<1>5. offered[s[1]] = "bridge" => ~Open(s[1])'
  <2>1. ASSUME offered[s[1]] = "bridge", NEW r \in streams, r[1] = s[1] PROVE r = s
    <3>1. r[2] # "err" /\ s[2] # "err"
      BY <1>1, <2>1 DEF TunnelsInv, RoleInv
    <3>2. r \in Tunnels \X {"out", "err"} /\ s \in Tunnels \X {"out", "err"}
      BY <1>1 DEF TunnelsInv, TunnelShapes, Streams
    <3> QED
      BY <2>1, <3>1, <3>2
  <2> QED
    BY <1>1, <2>1 DEF Open
<1>6. WriteInv' /\ command' \in [Tunnels -> {None, "running", "exited", "closed", "cleaned"}]
  BY <1>1 DEF TunnelsInv, WriteInv, TunnelShapes
<1>7. UNCHANGED output \/ \E n \in Messages : QueuesLast(n)
  <2> HIDE DEF m
  <2>1. CASE offered[s[1]] = "bridge" /\ link = "up" /\ output' = Append(output, m)
    <3>1. QueuesLast(m)
      BY <1>3, <1>4, <1>5, <2>1 DEF QueuesLast
    <3> QED
      BY <1>3, <3>1
  <2> QED
    BY <1>2, <2>1
<1>8. streams' \subseteq streams /\ calls' \subseteq calls /\ \A t \in Tunnels : command'[t] = command[t]
  BY <1>1
<1> QED
  BY <1>1, <1>6, <1>7, <1>8, TasksEnd

(* The answer of a call is queued.                                             *)
LEMMA CallsEnd ==
    ASSUME TunnelsInv, NEW c \in calls, RpcAnswers(c)
    PROVE  TunnelsInv' /\ StreamsStep
<1> DEFINE m == [to |-> c[1], what |-> "answer", chunk |-> 0]
<1>1. /\ calls' = calls \ {c}
      /\ UNCHANGED <<link, offered, table, writing, streams, command, produced, delivered, ended>>
  BY DEF RpcAnswers, loopState, history
<1>2. UNCHANGED output \/ (link = "up" /\ output' = Append(output, m))
  BY DEF RpcAnswers, Queue, QueueChunk
<1>3. c[1] \in Tunnels /\ offered[c[1]] # "idle" /\ table[c[1]] # "pending"
  BY NoneApart DEF TunnelsInv, TunnelShapes, RoleInv
<1>4. m \in Messages /\ m.what = "answer" /\ m.to = c[1]
  BY <1>3, HostTunnelsAssumption DEF Messages
<1>5. UNCHANGED output \/ \E n \in Messages : QueuesLast(n)
  <2> HIDE DEF m
  <2>1. CASE link = "up" /\ output' = Append(output, m)
    <3>1. QueuesLast(m)
      BY <1>3, <1>4, <2>1 DEF QueuesLast
    <3> QED
      BY <1>4, <3>1
  <2> QED
    BY <1>2, <2>1
<1>6. /\ WriteInv' /\ command' \in [Tunnels -> {None, "running", "exited", "closed", "cleaned"}]
      /\ streams' \subseteq streams /\ calls' \subseteq calls /\ \A t \in Tunnels : command'[t] = command[t]
  BY <1>1 DEF TunnelsInv, WriteInv, TunnelShapes
<1> QED
  BY <1>1, <1>5, <1>6, TasksEnd

(* The exit code and the close of a command are queued; its readers have ended.*)
LEMMA CommandsEnd ==
    ASSUME TunnelsInv, NEW t \in Tunnels, CommandExits(t) \/ CommandCloses(t)
    PROVE  TunnelsInv' /\ StreamsStep
<1> DEFINE m(what) == [to |-> t, what |-> what, chunk |-> 0]
<1>1. /\ command[t] \in {"running", "exited"} /\ ~Open(t)
      /\ command' = [command EXCEPT ![t] = IF command[t] = "running" THEN "exited" ELSE "closed"]
      /\ UNCHANGED <<link, offered, table, writing, streams, calls, produced, delivered, ended>>
  BY DEF CommandExits, CommandCloses, CommandTo, loopState, history, TunnelsInv, RoleInv
<1>2. UNCHANGED output \/ \E what \in {"exit", "close"} : link = "up" /\ output' = Append(output, m(what))
  BY DEF CommandExits, CommandCloses, Queue, QueueChunk
<1>3. offered[t] = "offload" /\ table[t] # "pending"
  BY <1>1, NoneApart DEF TunnelsInv, RoleInv, NoTaskLeft
<1>4. ASSUME NEW what \in {"exit", "close"}
      PROVE  m(what) \in Messages /\ m(what).what = what /\ m(what).to = t
  BY HostTunnelsAssumption DEF Messages
<1>5. ~Open(t)'
  BY <1>1 DEF Open
<1>6. UNCHANGED output \/ \E n \in Messages : QueuesLast(n)
  <2> HIDE DEF m
  <2>1. ASSUME NEW what \in {"exit", "close"}, link = "up", output' = Append(output, m(what))
        PROVE  QueuesLast(m(what))
    BY <1>3, <1>4, <1>5, <2>1 DEF QueuesLast
  <2> QED
    BY <1>2, <1>4, <2>1
<1>7. /\ WriteInv' /\ command' \in [Tunnels -> {None, "running", "exited", "closed", "cleaned"}]
      /\ streams' \subseteq streams /\ calls' \subseteq calls
      /\ \A u \in Tunnels : \/ command'[u] = command[u]
                            \/ command[u] # None /\ command'[u] # None /\ ~Open(u)'
  BY <1>1, <1>5, NoneApart DEF TunnelsInv, WriteInv, TunnelShapes
<1> QED
  BY <1>1, <1>6, <1>7, TasksEnd

(* What a reader queues follows what it queued before; it is still open, so no    *)
(* end has been queued.                                                           *)
LEMMA Forwards ==
    ASSUME TunnelsInv, NEW s \in Streams, Forward(s), link = "up"
    PROVE  TunnelsInv' /\ StreamsStep
<1> DEFINE m == [to |-> s[1], what |-> s[2], chunk |-> produced[s] + 1]
<1>1. /\ s \in streams /\ produced[s] < MaxChunks /\ output' = Append(output, m)
      /\ produced' = [produced EXCEPT ![s] = @ + 1]
      /\ UNCHANGED <<link, offered, table, writing, streams, calls, command, delivered, ended>>
  BY DEF Forward, QueueChunk, loopState
<1>2. /\ s[1] \in Tunnels /\ s[2] \in {"out", "err"} /\ produced[s] \in Nat
      /\ produced[s] + 1 \in 0 .. MaxChunks
  BY <1>1, HostTunnelsAssumption DEF TunnelsInv, TunnelShapes, Streams
<1>3. m \in Messages /\ m.to = s[1] /\ m.what = s[2] /\ m.chunk = produced[s] + 1
  BY <1>2 DEF Messages
<1> HIDE DEF m
<1>4. output \in Seq(Messages)
  BY DEF TunnelsInv, TunnelShapes
<1>5. /\ output' \in Seq(Messages) /\ Len(output') = Len(output) + 1 /\ Len(output) \in Nat
      /\ \A i \in 1 .. Len(output) : output'[i] = output[i]
      /\ output'[Len(output) + 1] = m
  BY <1>1, <1>3, <1>4, Pushed
<1>6. \A i \in 1 .. Len(output') : (i \in 1 .. Len(output) /\ output'[i] = output[i])
                                   \/ (i = Len(output) + 1 /\ output'[i] = m)
  BY <1>5
<1>7. produced' \in [Streams -> 0 .. MaxChunks] /\ produced'[s] = produced[s] + 1
      /\ \A r \in Streams \ {s} : produced'[r] = produced[r]
  BY <1>1, <1>2 DEF TunnelsInv, TunnelShapes
<1>8. TunnelShapes' /\ WriteInv'
  BY <1>1, <1>5, <1>7 DEF TunnelsInv, TunnelShapes, WriteInv
<1>9. Open(s[1]) /\ ~NoTaskLeft(s[1]) /\ \A t \in Tunnels : Open(t)' = Open(t)
  BY <1>1 DEF Open, NoTaskLeft
<1>10. ASSUME NEW t \in Tunnels, NoTaskLeft(t) PROVE NoTaskLeft(t)'
  <2>1. t # s[1]
    BY <1>9, <1>10
  <2>2. \A r \in Streams : r[1] = t => produced'[r] = 0
    BY <1>7, <1>10, <2>1 DEF NoTaskLeft
  <2>3. \A i \in 1 .. Len(output') : output'[i].to # t
    BY <1>3, <1>6, <1>10, <2>1 DEF NoTaskLeft
  <2> QED
    BY <1>1, <1>9, <1>10, <2>2, <2>3 DEF NoTaskLeft
<1>11. RoleInv'
  BY <1>1, <1>9, <1>10 DEF TunnelsInv, RoleInv
<1>12. HostEndInv'
  <2>1. ASSUME NEW t \in Tunnels, NEW i \in 1 .. Len(output'), HostClosing(output'[i], t)
        PROVE  /\ i \in 1 .. Len(output) /\ output'[i] = output[i] /\ t # s[1]
               /\ ~Open(t)' /\ (output'[i].what = "exit" => offered'[t] = "offload")
    <3>1. i \in 1 .. Len(output) /\ output'[i] = output[i]
      BY <1>2, <1>3, <1>6, <2>1 DEF HostClosing
    <3>2. ~Open(t) /\ (output[i].what = "exit" => offered[t] = "offload")
      BY <2>1, <3>1 DEF TunnelsInv, HostEndInv
    <3> QED
      BY <1>1, <1>9, <3>1, <3>2
  <2>2. ASSUME NEW t \in Tunnels PROVE ClosesLast(output', t)
    <3>1. ASSUME NEW i \in 1 .. Len(output'), NEW j \in 1 .. Len(output'),
                 HostClosing(output'[i], t), i < j, Chunk(output'[j], t)
          PROVE  FALSE
      <4>1. i \in 1 .. Len(output) /\ output'[i] = output[i] /\ t # s[1]
        BY <2>1, <3>1
      <4>2. j \in 1 .. Len(output) /\ output'[j] = output[j]
        BY <1>3, <1>6, <3>1, <4>1 DEF Chunk
      <4> QED
        BY <3>1, <4>1, <4>2 DEF TunnelsInv, HostEndInv, ClosesLast
    <3> QED
      BY <3>1 DEF ClosesLast
  <2>3. ASSUME NEW t \in Tunnels, ended[t] = "exit" PROVE ~Open(t)' /\ Quiet(output', t)
    <3>1. ~Open(t) /\ Quiet(output, t) /\ t # s[1]
      BY <1>9, <2>3 DEF TunnelsInv, HostEndInv
    <3> QED
      BY <1>3, <1>6, <1>9, <3>1 DEF Quiet, Chunk
  <2> QED
    BY <1>1, <2>1, <2>2, <2>3 DEF TunnelsInv, HostEndInv
<1>13. ASSUME NEW r \in Streams, Ending(r[1]) = "open"
       PROVE  FrameChain(output', r, Len(delivered[r]), produced'[r])
  <2>1. FrameChain(output, r, Len(delivered[r]), produced[r])
    BY <1>13 DEF TunnelsInv, FlowInv
  <2>2. Len(delivered[r]) \in Nat /\ produced[r] \in Nat
    BY DEF TunnelsInv, TunnelShapes
  <2>3. CASE r = s
    BY <1>1, <1>3, <1>4, <1>7, <2>1, <2>2, <2>3, PushOwn DEF Of
  <2>4. CASE r # s
    <3>1. ~Of(m, r)
      BY <1>3, <2>4 DEF Of, Streams
    <3> QED
      BY <1>1, <1>3, <1>4, <1>7, <2>1, <2>2, <2>4, <3>1, PushOther
  <2> QED
    BY <2>3, <2>4
<1>14. FlowInv' /\ StreamsStep
  BY <1>1, <1>7, <1>13 DEF FlowInv, Ending, StreamsStep, StreamStep
<1> QED
  BY <1>8, <1>11, <1>12, <1>14 DEF TunnelsInv

(* The head of the channel goes, whatever becomes of it.                          *)
LEMMA HeadGoes ==
    ASSUME TunnelsInv, output # <<>>, output' = Tail(output), NEW t \in Tunnels
    PROVE  /\ output' \in Seq(Messages) /\ Head(output) \in Messages
           /\ (\A i \in 1 .. Len(output) : output[i].to # t) =>
                 Head(output).to # t /\ \A i \in 1 .. Len(output') : output'[i].to # t
           /\ Quiet(output, t) => Quiet(output', t) /\ ~Chunk(Head(output), t)
           /\ ClosesLast(output', t)
           /\ HostClosing(Head(output), t) => Quiet(output', t)
           /\ \A i \in 1 .. Len(output') \cup {0} :
                 LET m == IF i = 0 THEN Head(output) ELSE output'[i]
                 IN HostClosing(m, t) => ~Open(t) /\ (m.what = "exit" => offered[t] = "offload")
<1>1. /\ output \in Seq(Messages) /\ ClosesLast(output, t)
      /\ \A i \in 1 .. Len(output) : HostClosing(output[i], t) =>
            ~Open(t) /\ (output[i].what = "exit" => offered[t] = "offload")
  BY DEF TunnelsInv, TunnelShapes, HostEndInv
<1>2. /\ output' \in Seq(Messages) /\ Head(output) \in Messages
      /\ 1 \in 1 .. Len(output) /\ Head(output) = output[1] /\ Len(output') \in Nat
      /\ \A i \in 1 .. Len(output') : output'[i] = output[i + 1] /\ i + 1 \in 1 .. Len(output)
  BY <1>1, Popped
<1>3. (\A i \in 1 .. Len(output) : output[i].to # t) =>
         Head(output).to # t /\ \A i \in 1 .. Len(output') : output'[i].to # t
  BY <1>2
<1>4. Quiet(output, t) => Quiet(output', t) /\ ~Chunk(Head(output), t)
  BY <1>2 DEF Quiet
<1>5. ClosesLast(output', t)
  <2>1. ASSUME NEW i \in 1 .. Len(output'), NEW j \in 1 .. Len(output'), HostClosing(output'[i], t), i < j
        PROVE  ~Chunk(output'[j], t)
    <3>1. i + 1 < j + 1
      BY <2>1
    <3> QED
      BY <1>1, <1>2, <2>1, <3>1 DEF ClosesLast
  <2> QED
    BY <2>1 DEF ClosesLast
<1>6. HostClosing(Head(output), t) => Quiet(output', t)
  <2>1. ASSUME HostClosing(Head(output), t), NEW i \in 1 .. Len(output') PROVE ~Chunk(output'[i], t)
    <3>1. 1 < i + 1
      OBVIOUS
    <3> QED
      BY <1>1, <1>2, <2>1, <3>1 DEF ClosesLast
  <2> QED
    BY <2>1 DEF Quiet
<1>7. \A i \in 1 .. Len(output') \cup {0} :
         LET m == IF i = 0 THEN Head(output) ELSE output'[i]
         IN HostClosing(m, t) => ~Open(t) /\ (m.what = "exit" => offered[t] = "offload")
  BY <1>1, <1>2
<1> QED
  BY <1>2, <1>3, <1>4, <1>5, <1>6, <1>7

(* What the loop does with it: an end closes the tunnel, a chunk is sent, and     *)
(* what no collection holds any more is dropped.                                  *)
EndGoes(m) ==
    /\ m.what \in {"exit", "close"} /\ table[m.to] \in {"pty", "bridge", "offload", "rpc"}
    /\ ended' = [ended EXCEPT ![m.to] = IF @ = None THEN m.what ELSE @]
    /\ table' = IF m.what = "close" THEN [table EXCEPT ![m.to] = None] ELSE table
    /\ delivered' = delivered
ChunkGoes(m) ==
    /\ m.what \in {"out", "err"} /\ table[m.to] # None
    /\ delivered' = [delivered EXCEPT ![<<m.to, m.what>>] = Append(@, m.chunk)]
    /\ UNCHANGED <<ended, table>>
NothingGoes(m) ==
    /\ m.what = "answer" \/ table[m.to] = None
    /\ UNCHANGED <<ended, table, delivered>>

(* The three arms of it, with what they leave alone.                           *)
LEMMA Sending ==
    ASSUME TunnelsInv, SendOutput
    PROVE  /\ output # <<>> /\ output' = Tail(output) /\ link = "up" /\ writing = None
           /\ UNCHANGED <<link, offered, writing, streams, calls, command, produced>>
           /\ Head(output) \in Messages
           /\ offered[Head(output).to] # "idle" /\ table[Head(output).to] # "pending"
           /\ EndGoes(Head(output)) \/ ChunkGoes(Head(output)) \/ NothingGoes(Head(output))
<1> DEFINE m == Head(output)
<1>1. /\ output # <<>> /\ output' = Tail(output) /\ link = "up" /\ writing = None
      /\ UNCHANGED <<link, offered, writing, streams, calls, command, produced>>
  BY DEF SendOutput, Selecting
<1>2. output \in Seq(Messages)
  BY DEF TunnelsInv, TunnelShapes
<1>3. m \in Messages /\ m.to \in Tunnels /\ m.what \in {"answer", "exit", "close", "out", "err"}
  BY <1>1, <1>2, Popped DEF Messages
<1>4. 1 \in 1 .. Len(output) /\ output[1] = m
  BY <1>1, <1>2, Popped
<1>5. offered[m.to] # "idle" /\ table[m.to] # "pending"
  BY <1>3, <1>4 DEF TunnelsInv, RoleInv, NoTaskLeft
<1>6. table[m.to] \in {None, "rpc", "pty", "bridge", "offload"}
  BY <1>3, <1>5 DEF TunnelsInv, TunnelShapes
<1>7. EndGoes(m) \/ ChunkGoes(m) \/ NothingGoes(m)
  <2> DEFINE held == table[m.to] \in {"pty", "bridge", "offload", "rpc"}
  <2>1. CASE held /\ m.what \in {"exit", "close"}
    BY <2>1 DEF SendOutput, EndGoes, Leave, Enter
  <2>2. CASE held /\ m.what \in {"out", "err"}
    BY <2>2, NoneApart DEF SendOutput, ChunkGoes
  <2>3. CASE held /\ m.what = "answer"
    BY <2>3 DEF SendOutput, NothingGoes
  <2>4. CASE ~held
    BY <1>6, <2>4 DEF SendOutput, NothingGoes
  <2> QED
    BY <1>3, <2>1, <2>2, <2>3, <2>4
<1> QED
  BY <1>1, <1>3, <1>5, <1>7

(* A chunk that is sent is the next one, an end is sent after all of them.     *)
LEMMA HostSends ==
    ASSUME TunnelsInv, SendOutput
    PROVE  TunnelsInv' /\ StreamsStep
<1>a. PICK m : m = Head(output)
  OBVIOUS
<1>b. PICK t : t = m.to
  OBVIOUS
<1>1. /\ output # <<>> /\ output' = Tail(output) /\ link = "up" /\ writing = None
      /\ UNCHANGED <<link, offered, writing, streams, calls, command, produced>>
      /\ m \in Messages /\ offered[t] # "idle" /\ table[t] # "pending"
      /\ EndGoes(m) \/ ChunkGoes(m) \/ NothingGoes(m)
  BY <1>a, <1>b, Sending
<1>2. t \in Tunnels /\ m.chunk \in Nat /\ output \in Seq(Messages)
  BY <1>1, <1>b DEF Messages, TunnelsInv, TunnelShapes
<1>3. /\ table' \in [Tunnels -> {None, "rpc", "pty", "bridge", "pending", "offload"}]
      /\ ended' \in [Tunnels -> {None, "exit", "close", "error", "peer"}]
      /\ \A u \in Tunnels \ {t} : table'[u] = table[u] /\ ended'[u] = ended[u]
      /\ table'[t] \in {None, table[t]}
      /\ \/ ended'[t] = ended[t] /\ table'[t] = table[t]
         \/ /\ EndGoes(m) /\ m.what = "close" /\ table'[t] = None
            /\ ended'[t] = IF ended[t] = None THEN "close" ELSE ended[t]
         \/ /\ EndGoes(m) /\ m.what = "exit" /\ table'[t] = table[t]
            /\ ended'[t] = IF ended[t] = None THEN "exit" ELSE ended[t]
  <2>1. table \in [Tunnels -> {None, "rpc", "pty", "bridge", "pending", "offload"}]
        /\ ended \in [Tunnels -> {None, "exit", "close", "error", "peer"}]
    BY DEF TunnelsInv, TunnelShapes
  <2>2. CASE EndGoes(m) /\ m.what = "close"
    BY <1>a, <1>b, <1>2, <2>1, <2>2 DEF EndGoes
  <2>3. CASE EndGoes(m) /\ m.what = "exit"
    BY <1>a, <1>b, <1>2, <2>1, <2>3 DEF EndGoes
  <2>4. CASE ChunkGoes(m) \/ NothingGoes(m)
    BY <1>a, <1>b, <1>2, <2>1, <2>4 DEF ChunkGoes, NothingGoes
  <2>5. EndGoes(m) => m.what \in {"exit", "close"}
    BY <1>a, <1>b DEF EndGoes
  <2> QED
    BY <1>1, <2>2, <2>3, <2>4, <2>5
<1>4. delivered' \in [Streams -> Seq(Nat)]
  <2>1. delivered \in [Streams -> Seq(Nat)]
    BY DEF TunnelsInv, TunnelShapes
  <2>2. CASE ChunkGoes(m)
    <3>1. <<t, m.what>> \in Streams
      BY <1>a, <1>b, <1>2, <2>2 DEF ChunkGoes, Streams
    <3>2. Append(delivered[<<t, m.what>>], m.chunk) \in Seq(Nat)
      BY <1>2, <2>1, <3>1
    <3> QED
      BY <1>a, <1>b, <2>1, <2>2, <3>1, <3>2 DEF ChunkGoes
  <2> QED
    BY <1>a, <1>b, <1>1, <2>1, <2>2 DEF EndGoes, NothingGoes
<1>5. TunnelShapes' /\ WriteInv'
  <2>1. output' \in Seq(Messages)
    BY <1>a, <1>b, <1>1, <1>2, HeadGoes
  <2> QED
    BY <1>1, <1>3, <1>4, <2>1 DEF TunnelsInv, TunnelShapes, WriteInv
<1>6. \A u \in Tunnels : NoTaskLeft(u) => NoTaskLeft(u)' /\ u # t
  BY <1>a, <1>b, <1>1, <1>2, HeadGoes DEF NoTaskLeft, Open
<1>7. RoleInv'
  <2>1. ASSUME NEW u \in Tunnels
        PROVE  /\ offered'[u] = "idle" => table'[u] = None /\ ended'[u] = None
               /\ table'[u] \in {"rpc", "pty", "bridge"} => offered'[u] = table'[u]
               /\ table'[u] \in {"pending", "offload"} => offered'[u] = "offload"
               /\ offered'[u] = "idle" \/ table'[u] = "pending" => NoTaskLeft(u)'
    <3>1. table'[u] \in {None, table[u]} /\ (u # t => ended'[u] = ended[u])
      BY <1>3
    <3> QED
      BY <1>1, <1>6, <3>1, NoneApart DEF TunnelsInv, RoleInv
  <2>2. \A u \in Tunnels :
          /\ command'[u] # None => offered'[u] = "offload"
          /\ command'[u] \in {"exited", "closed", "cleaned"} => ~Open(u)'
    BY <1>1 DEF TunnelsInv, RoleInv, Open
  <2>3. /\ \A c \in calls' : offered'[c[1]] = "rpc"
        /\ \A s \in streams' : s[2] = "err" => offered'[s[1]] = "offload"
    BY <1>1 DEF TunnelsInv, RoleInv
  <2> QED
    BY <2>1, <2>2, <2>3 DEF RoleInv
<1>8. EndGoes(m) => HostClosing(m, t) /\ ~Open(t) /\ (m.what = "exit" => offered[t] = "offload")
  <2>1. EndGoes(m) => HostClosing(m, t)
    BY <1>a, <1>b DEF EndGoes, HostClosing
  <2>2. 0 \in 1 .. Len(output') \cup {0}
    OBVIOUS
  <2> QED
    BY <1>a, <1>b, <1>1, <1>2, <2>1, <2>2, HeadGoes
<1>9. HostEndInv'
  <2>1. ASSUME NEW u \in Tunnels
        PROVE  /\ ended'[u] # None => table'[u] = None \/ (ended'[u] = "exit" /\ table'[u] = "offload")
               /\ ended'[u] = "exit" => ended[u] = "exit" \/ (u = t /\ EndGoes(m))
    <3>1. ended[u] # None => table[u] = None \/ (ended[u] = "exit" /\ table[u] = "offload")
      BY DEF TunnelsInv, HostEndInv
    <3>2. CASE table'[u] = table[u] /\ ended'[u] = ended[u]
      BY <3>1, <3>2
    <3>3. CASE u = t /\ EndGoes(m) /\ m.what = "close" /\ table'[t] = None
      BY <3>3
    <3>4. CASE /\ u = t /\ EndGoes(m) /\ m.what = "exit" /\ table'[t] = table[t]
               /\ ended'[t] = IF ended[t] = None THEN "exit" ELSE ended[t]
      <4>1. offered[t] = "offload" /\ table[t] \in {"pty", "bridge", "offload", "rpc"}
        BY <1>a, <1>b, <1>8, <3>4 DEF EndGoes
      <4>2. table[t] = "offload"
        BY <1>2, <4>1 DEF TunnelsInv, RoleInv
      <4> QED
        BY <3>1, <3>4, <4>2, NoneApart
    <3> QED
      BY <1>3, <3>2, <3>3, <3>4
  <2>2. ASSUME NEW u \in Tunnels
        PROVE  /\ ended'[u] = "exit" => ~Open(u)' /\ Quiet(output', u)
               /\ ClosesLast(output', u)
               /\ \A i \in 1 .. Len(output') : HostClosing(output'[i], u) =>
                     ~Open(u)' /\ (output'[i].what = "exit" => offered'[u] = "offload")
    <3>1. Open(u)' = Open(u)
      BY <1>1 DEF Open
    <3>2. ended[u] = "exit" => ~Open(u) /\ Quiet(output, u)
      BY DEF TunnelsInv, HostEndInv
    <3>3. /\ Quiet(output, u) => Quiet(output', u)
          /\ ClosesLast(output', u)
          /\ HostClosing(m, u) => Quiet(output', u)
      BY <1>a, <1>b, <1>1, HeadGoes
    <3>4. \A i \in 1 .. Len(output') : HostClosing(output'[i], u) =>
             ~Open(u) /\ (output'[i].what = "exit" => offered[u] = "offload")
      <4>1. ASSUME NEW i \in 1 .. Len(output') PROVE i \in 1 .. Len(output') \cup {0} /\ i # 0
        OBVIOUS
      <4> QED
        BY <1>a, <1>b, <1>1, <4>1, HeadGoes
    <3> QED
      BY <1>1, <1>8, <2>1, <3>1, <3>2, <3>3, <3>4
  <2> QED
    BY <1>1, <2>1, <2>2 DEF HostEndInv
<1>10. ASSUME NEW s \in Streams
       PROVE  /\ s[1] \in Tunnels /\ s[2] \in {"out", "err"}
              /\ Len(delivered[s]) \in Nat /\ produced[s] \in Nat
              /\ Ending(s[1]) = "open" => FrameChain(output, s, Len(delivered[s]), produced[s])
  <2>1. s[1] \in Tunnels /\ s[2] \in {"out", "err"}
    BY DEF Streams
  <2>2. delivered[s] \in Seq(Nat) /\ produced[s] \in 0 .. MaxChunks
    BY DEF TunnelsInv, TunnelShapes
  <2>3. Ending(s[1]) = "open" => FrameChain(output, s, Len(delivered[s]), produced[s])
    BY DEF TunnelsInv, FlowInv
  <2> QED
    BY <2>1, <2>2, <2>3
<1>11. ASSUME NEW s \in Streams, Ending(s[1]) = "open", ~Of(m, s)
       PROVE  FrameChain(output', s, Len(delivered[s]), produced[s])
  BY <1>a, <1>b, <1>1, <1>2, <1>10, <1>11, PopOther
<1>12. \A u \in Tunnels \ {t} : Ending(u)' = Ending(u)
  BY <1>1, <1>3 DEF Ending
<1>13. CASE EndGoes(m)
  <2>1. delivered' = delivered /\ m.what \in {"exit", "close"} /\ table[t] # None /\ HostClosing(m, t)
    BY <1>a, <1>b, <1>8, <1>13, NoneApart DEF EndGoes
  <2>2. \A s \in Streams : ~Of(m, s)
    BY <1>a, <1>b, <1>10, <2>1 DEF Of
  <2>3. CASE ended[t] = None
    <3>1. Ending(t) = "open" /\ Ending(t)' = "finished"
      BY <1>a, <1>b, <1>3, <1>13, <2>1, <2>3, NoneApart DEF Ending, EndGoes
    <3>2. Quiet(output', t)
      BY <1>a, <1>b, <1>1, <1>2, <2>1, HeadGoes
    <3>3. ASSUME NEW s \in Streams, s[1] = t PROVE Len(delivered[s]) = produced[s]
      <4>1. output' \in Seq(Messages) /\ FrameChain(output', s, Len(delivered[s]), produced[s])
        BY <1>a, <1>b, <1>1, <1>2, <1>11, <2>2, <3>1, <3>3, HeadGoes
      <4> QED
        BY <1>10, <3>2, <3>3, <4>1, QuietEnds
    <3>4. \A s \in Streams : StreamStep(s)
      BY <1>1, <1>10, <1>12, <2>1, <3>1, <3>3 DEF StreamStep
    <3>5. FlowInv'
      BY <1>1, <1>10, <1>11, <1>12, <2>1, <2>2, <3>1 DEF FlowInv
    <3> QED
      BY <1>5, <1>7, <1>9, <3>4, <3>5 DEF TunnelsInv, StreamsStep
  <2>4. CASE ended[t] # None
    <3>1. ended[t] = "exit" /\ ended'[t] = "exit"
      BY <1>2, <1>3, <2>1, <2>4 DEF TunnelsInv, HostEndInv
    <3>2. Ending(t)' = Ending(t)
      BY <3>1 DEF Ending
    <3>3. \A s \in Streams : StreamStep(s)
      BY <1>1, <1>10, <1>12, <2>1, <3>2 DEF StreamStep
    <3>4. FlowInv'
      BY <1>1, <1>10, <1>11, <1>12, <2>1, <2>2, <3>2 DEF FlowInv
    <3> QED
      BY <1>5, <1>7, <1>9, <3>3, <3>4 DEF TunnelsInv, StreamsStep
  <2> QED
    BY <2>3, <2>4
<1>14. CASE ChunkGoes(m)
  <2> DEFINE own == <<t, m.what>>
  <2>1. /\ m.what \in {"out", "err"} /\ table[t] # None /\ ended' = ended /\ table' = table
        /\ delivered' = [delivered EXCEPT ![own] = Append(@, m.chunk)]
        /\ own \in Streams /\ own[1] = t /\ own[2] = m.what
    BY <1>a, <1>b, <1>2, <1>14 DEF ChunkGoes, Streams
  <2>2. Ending(t) = "open"
    <3>1. ended[t] # "exit"
      BY <1>a, <1>b, <1>1, <1>2, <2>1, HeadGoes DEF TunnelsInv, HostEndInv, Chunk
    <3>2. ended[t] = None
      BY <1>2, <2>1, <3>1 DEF TunnelsInv, HostEndInv
    <3> QED
      BY <2>1, <3>2, NoneApart DEF Ending
  <2>3. \A u \in Tunnels : Ending(u)' = Ending(u)
    BY <1>1, <2>1 DEF Ending
  <2>4. /\ m.chunk = Len(delivered[own]) + 1 /\ Len(delivered[own]) < produced[own]
        /\ FrameChain(output', own, Len(delivered[own]) + 1, produced[own])
    <3>1. Of(m, own)
      BY <1>a, <1>b, <2>1 DEF Of
    <3>2. FrameChain(output, own, Len(delivered[own]), produced[own])
      BY <1>10, <2>1, <2>2
    <3> QED
      BY <1>a, <1>b, <1>1, <1>2, <1>10, <2>1, <3>1, <3>2, PopOwn
  <2>5. delivered'[own] = Append(delivered[own], m.chunk) /\ Len(delivered'[own]) = Len(delivered[own]) + 1
    <3>1. delivered'[own] = Append(delivered[own], m.chunk)
      BY <2>1 DEF TunnelsInv, TunnelShapes
    <3>2. delivered[own] \in Seq(Nat)
      BY <2>1 DEF TunnelsInv, TunnelShapes
    <3> QED
      BY <1>2, <3>1, <3>2
  <2>6. ASSUME NEW s \in Streams, s # own PROVE delivered'[s] = delivered[s] /\ ~Of(m, s)
    <3>1. delivered'[s] = delivered[s]
      BY <2>1, <2>6 DEF TunnelsInv, TunnelShapes
    <3>2. ~Of(m, s)
      BY <1>a, <1>b, <2>6 DEF Of, Streams
    <3> QED
      BY <3>1, <3>2
  <2> HIDE DEF own
  <2>7. \A s \in Streams : StreamStep(s)
    <3>1. StreamStep(own)
      BY <1>1, <1>2, <2>1, <2>2, <2>3, <2>4, <2>5 DEF StreamStep
    <3>2. ASSUME NEW s \in Streams, s # own PROVE StreamStep(s)
      BY <1>1, <1>10, <2>3, <2>6, <3>2 DEF StreamStep
    <3> QED
      BY <3>1, <3>2
  <2>8. ASSUME NEW s \in Streams, Ending(s[1]) = "open"
        PROVE  FrameChain(output', s, Len(delivered'[s]), produced[s])
    <3>1. CASE s = own
      BY <2>4, <2>5, <3>1
    <3>2. CASE s # own
      BY <1>11, <2>6, <2>8, <3>2
    <3> QED
      BY <3>1, <3>2
  <2>9. FlowInv'
    BY <1>1, <1>10, <2>3, <2>8 DEF FlowInv
  <2> QED
    BY <1>5, <1>7, <1>9, <2>7, <2>9 DEF TunnelsInv, StreamsStep
<1>15. CASE NothingGoes(m)
  <2>1. delivered' = delivered /\ ended' = ended /\ table' = table
        /\ (m.what = "answer" \/ table[t] = None)
    BY <1>a, <1>b, <1>15 DEF NothingGoes
  <2>2. \A u \in Tunnels : Ending(u)' = Ending(u)
    BY <1>1, <2>1 DEF Ending
  <2>3. ASSUME NEW s \in Streams, Ending(s[1]) = "open" PROVE ~Of(m, s)
    <3>1. CASE m.what = "answer"
      BY <1>a, <1>b, <1>10, <3>1 DEF Of
    <3>2. CASE table[t] = None
      <4>1. Ending(t) # "open"
        BY <1>1, <3>2 DEF Ending
      <4> QED
        BY <1>a, <1>b, <2>3, <4>1 DEF Of
    <3> QED
      BY <2>1, <3>1, <3>2
  <2>4. FlowInv'
    BY <1>1, <1>10, <1>11, <2>1, <2>2, <2>3 DEF FlowInv
  <2>5. \A s \in Streams : StreamStep(s)
    BY <1>1, <1>10, <2>1, <2>2 DEF StreamStep
  <2> QED
    BY <1>5, <1>7, <1>9, <2>4, <2>5 DEF TunnelsInv, StreamsStep
<1> QED
  BY <1>1, <1>13, <1>14, <1>15

-------------------------------------------------------------------------------
(* The refinement                                                                 *)

(* At the start no tunnel is known and nothing was carried.                       *)
LEMMA TunnelsBegin == HostTunnelsInit => TunnelsInv /\ Carried!StreamInit
<1> SUFFICES ASSUME HostTunnelsInit PROVE TunnelsInv /\ Carried!StreamInit
  OBVIOUS
<1>1. TunnelShapes
  <2>1. output \in Seq(Messages) /\ \A s \in Streams : delivered[s] \in Seq(Nat)
    BY DEF HostTunnelsInit
  <2> QED
    BY <2>1, HostTunnelsAssumption DEF HostTunnelsInit, TunnelShapes
<1>2. /\ streams = {} /\ calls = {} /\ output = <<>> /\ Len(output) = 0 /\ writing = None /\ link = "up"
      /\ \A t \in Tunnels : /\ offered[t] = "idle" /\ table[t] = None /\ ended[t] = None
                            /\ command[t] = None
      /\ \A s \in Streams : produced[s] = 0 /\ delivered[s] = <<>> /\ s[1] \in Tunnels
  BY DEF HostTunnelsInit, Streams
<1>3. WriteInv /\ \A t \in Tunnels : NoTaskLeft(t)
  BY <1>2 DEF WriteInv, NoTaskLeft, Open
<1>4. RoleInv
  BY <1>2, <1>3, NoneApart DEF RoleInv, Open
<1>5. HostEndInv
  BY <1>2, NoneApart DEF HostEndInv, ClosesLast, Open
<1>6. \A t \in Tunnels : Ending(t) = "open"
  BY <1>2, NoneApart DEF Ending
<1>7. FlowInv
  BY <1>2 DEF FlowInv, FrameChain
<1>8. Carried!StreamInit
  <2>1. produced = [s \in Streams |-> 0] /\ delivered = [s \in Streams |-> <<>>]
    BY DEF HostTunnelsInit
  <2>2. [s \in Streams |-> Ending(s[1])] = [s \in Streams |-> "open"]
    BY <1>2, <1>6
  <2> QED
    BY <2>1, <2>2 DEF Carried!StreamInit
<1> QED
  BY <1>1, <1>3, <1>4, <1>5, <1>7, <1>8 DEF TunnelsInv

(* Every step keeps the invariant, and does to a stream only what a stream allows.*)
LEMMA TunnelsStep == TunnelsInv /\ [HostTunnelsNext]_hostTunnelsVars => TunnelsInv' /\ StreamsStep
<1> SUFFICES ASSUME TunnelsInv, [HostTunnelsNext]_hostTunnelsVars PROVE TunnelsInv' /\ StreamsStep
  OBVIOUS
<1>1. ASSUME UNCHANGED <<seen, writing, table, command>> PROVE TunnelsInv' /\ StreamsStep
  <2>1. WriteInv'
    BY <1>1 DEF TunnelsInv, WriteInv
  <2> QED
    BY <1>1, <2>1, Unseen
<1>2. CASE UNCHANGED hostTunnelsVars
  BY <1>1, <1>2 DEF hostTunnelsVars, loopState, history, seen
<1>3. CASE LoopStep
  <2>1. ASSUME NEW t \in Tunnels, BeginWrite(t) PROVE TunnelsInv' /\ StreamsStep
    <3>1. UNCHANGED <<seen, command>> /\ writing' = t /\ table[t] \in {"pty", "bridge"}
      BY <2>1 DEF BeginWrite, seen, history
    <3>2. WriteInv'
      BY <3>1 DEF WriteInv, seen
    <3> QED
      BY <3>1, <3>2, Unseen
  <2>2. CASE FinishWrite
    <3>1. UNCHANGED <<seen, command>> /\ writing' = None
      BY <2>2 DEF FinishWrite, seen, history
    <3>2. WriteInv'
      BY <3>1 DEF WriteInv
    <3> QED
      BY <3>1, <3>2, Unseen
  <2> QED
    BY <1>3, <2>1, <2>2, Offers, CallsBegin, OffloadsStart, PeersClose, WritesFail, HostSends DEF LoopStep
<1>4. ASSUME NEW t \in Tunnels, TaskStep(t) PROVE TunnelsInv' /\ StreamsStep
  <2>1. CASE CleanUp(t)
    <3>1. UNCHANGED <<seen, writing, table>> /\ CommandTo(t, "closed", "cleaned")
      BY <2>1 DEF CleanUp, seen, loopState, history
    <3>2. WriteInv'
      BY <3>1 DEF TunnelsInv, WriteInv
    <3> QED
      BY <3>1, <3>2, Unseen
  <2>2. \A s \in streams : s \in Streams
    BY DEF TunnelsInv, TunnelShapes
  <2> QED
    BY <1>4, <2>1, <2>2, CallsEnd, CommandsEnd, OutputEnds DEF TaskStep
<1>5. ASSUME NEW t \in Tunnels, LocalReads(t) \/ LocalEnds(t) PROVE TunnelsInv' /\ StreamsStep
  BY <1>1, <1>5 DEF LocalReads, LocalEnds, loopState, history, seen
<1>6. ASSUME NEW s \in Streams, Forward(s) PROVE TunnelsInv' /\ StreamsStep
  <2>1. CASE link = "up"
    BY <1>6, <2>1, Forwards
  <2>2. CASE link # "up"
    <3>1. /\ UNCHANGED <<link, offered, table, writing, output, calls, command, produced, delivered, ended>>
          /\ streams' = streams \ {s}
      BY <1>6, <2>2 DEF Forward, loopState
    <3>2. WriteInv' /\ command' \in [Tunnels -> {None, "running", "exited", "closed", "cleaned"}]
      BY <3>1 DEF TunnelsInv, WriteInv, TunnelShapes
    <3>3. streams' \subseteq streams /\ calls' \subseteq calls /\ \A t \in Tunnels : command'[t] = command[t]
      BY <3>1
    <3> QED
      BY <3>1, <3>2, <3>3, TasksEnd
  <2> QED
    BY <2>1, <2>2
<1> QED
  BY <1>2, <1>3, <1>4, <1>5, <1>6, AllTunnelsEnd, OutputEnds DEF HostTunnelsNext

(* What a step does to the streams is a step of TunnelStream.                  *)
LEMMA StreamsFollow == StreamsStep => [Carried!StreamNext]_(Carried!streamVars)
<1> SUFFICES ASSUME StreamsStep PROVE Carried!StreamNext
  OBVIOUS
<1> DEFINE end == [s \in Streams |-> Ending(s[1])]
<1>1. ASSUME NEW s \in Streams
      PROVE  \/ Carried!Send(s) \/ Carried!Receive(s) \/ Carried!FinishStream(s)
             \/ Carried!Cut(s) \/ Carried!Rest(s)
  <2>1. StreamStep(s) /\ end[s] = Ending(s[1]) /\ end'[s] = Ending(s[1])'
    BY DEF StreamsStep
  <2> QED
    BY <2>1 DEF StreamStep, Carried!Send, Carried!Receive, Carried!FinishStream, Carried!Cut,
                Carried!Rest, Carried!Keeps
<1> QED
  BY <1>1 DEF Carried!StreamNext

(* HostTunnels implements TunnelStream: whatever the relay and the local sides    *)
(* do, each stream of each tunnel reaches the relay in order and without a gap,   *)
(* and an exit code or a close of the local side is sent only after all of it.    *)
THEOREM HostTunnelsKeepStreams == HostTunnelsSpec => StreamsKept
<1>1. HostTunnelsInit => TunnelsInv /\ Carried!StreamInit
  BY TunnelsBegin
<1>2. TunnelsInv /\ [HostTunnelsNext]_hostTunnelsVars
         => TunnelsInv' /\ [Carried!StreamNext]_(Carried!streamVars)
  BY TunnelsStep, StreamsFollow
<1> QED
  BY <1>1, <1>2, PTL DEF HostTunnelsSpec, StreamsKept, Carried!StreamSpec

-------------------------------------------------------------------------------
(* The rest of the types: the bound of the channel, what the loop writes to, the  *)
(* calls under way and the workspaces of commands.                                *)
SideTypes == unread \subseteq alive /\ alive \subseteq Tunnels
RpcTypes == calls \subseteq Tunnels \X (0 .. MaxFrames) /\ frames \in [Tunnels -> 0 .. MaxFrames]
Busy(label) == label \in {"running", "exited", "closed"}
CommandTypes == ephemeral = {t \in Tunnels : Busy(command[t])}

(* Whoever queues waits for room, and nothing but the loop makes any.             *)
LEMMA ChannelBounded ==
    ASSUME TunnelsInv, Len(output) <= OutputCapacity, [HostTunnelsNext]_hostTunnelsVars
    PROVE  Len(output') <= OutputCapacity
<1>1. output \in Seq(Messages) /\ Len(output) \in Nat /\ OutputCapacity \in Nat
  BY LenProperties, HostTunnelsAssumption DEF TunnelsInv, TunnelShapes
<1>2. ASSUME NEW t, NEW what, NEW n, QueueChunk(t, what, n) PROVE Len(output') <= OutputCapacity
  <2>1. PICK m : m = [to |-> t, what |-> what, chunk |-> n]
    OBVIOUS
  <2>2. output' = output \/ (Len(output) < OutputCapacity /\ output' = Append(output, m))
    BY <1>2, <2>1 DEF QueueChunk
  <2>3. Len(Append(output, m)) = Len(output) + 1
    BY <1>1
  <2> QED
    BY <1>1, <2>2, <2>3
<1>3. ASSUME output # <<>>, output' = Tail(output) PROVE Len(output') <= OutputCapacity
  <2>1. Len(Tail(output)) = Len(output) - 1
    BY <1>1, <1>3
  <2> QED
    BY <1>1, <1>3, <2>1
<1>4. CASE LoopStep
  <2>1. UNCHANGED output \/ (output # <<>> /\ output' = Tail(output))
    BY <1>4 DEF LoopStep, Offer, RequestRpc, RequestOffload, BeginWrite, PeerCloses, FinishWrite, FailWrite,
                SendOutput, Frame
  <2> QED
    BY <1>1, <1>3, <2>1
<1>5. CASE LinkEnds
  <2>1. output' = <<>> /\ Len(<<>>) = 0
    BY <1>5 DEF LinkEnds
  <2> QED
    BY <1>1, <2>1
<1>6. ASSUME NEW t, TaskStep(t) \/ LocalReads(t) \/ LocalEnds(t) PROVE Len(output') <= OutputCapacity
  <2>1. UNCHANGED output \/ \E u, what : QueueChunk(u, what, 0)
    BY <1>6 DEF TaskStep, LocalReads, LocalEnds, RpcAnswers, CommandExits, CommandCloses, CleanUp, EndOfOutput, Queue
  <2> QED
    BY <1>1, <1>2, <2>1
<1>7. ASSUME NEW s, Forward(s) \/ EndOfOutput(s) PROVE Len(output') <= OutputCapacity
  <2>1. UNCHANGED output \/ \E u, what, n : QueueChunk(u, what, n)
    BY <1>7 DEF Forward, EndOfOutput, Queue
  <2> QED
    BY <1>1, <1>2, <2>1
<1>8. CASE UNCHANGED hostTunnelsVars
  BY <1>1, <1>8 DEF hostTunnelsVars
<1> QED
  BY <1>4, <1>5, <1>6, <1>7, <1>8 DEF HostTunnelsNext

LEMMA SidesStep ==
    ASSUME TunnelsInv, SideTypes, [HostTunnelsNext]_hostTunnelsVars
    PROVE  SideTypes'
<1>1. UNCHANGED <<unread, alive>> => SideTypes'
  BY DEF SideTypes
<1>2. ASSUME NEW t \in Tunnels, NEW kind, Offer(t, kind) PROVE SideTypes'
  BY <1>2 DEF Offer, SideTypes
<1>3. ASSUME NEW t \in Tunnels, RequestOffload(t) PROVE SideTypes'
  BY <1>3 DEF RequestOffload, SideTypes
<1>4. ASSUME NEW t \in Tunnels, PeerCloses(t) PROVE SideTypes'
  BY <1>4 DEF PeerCloses, SideTypes
<1>5. CASE FinishWrite
  BY <1>5 DEF FinishWrite, SideTypes
<1>6. CASE LoopStep
  <2>1. CASE \/ \E t \in Tunnels : RequestRpc(t) \/ BeginWrite(t)
             \/ FailWrite \/ SendOutput
    BY <1>1, <2>1 DEF RequestRpc, BeginWrite, FailWrite, SendOutput
  <2> QED
    BY <1>2, <1>3, <1>4, <1>5, <1>6, <2>1 DEF LoopStep
<1>7. CASE LinkEnds
  BY <1>7 DEF LinkEnds, SideTypes
<1>8. ASSUME NEW t \in Tunnels, TaskStep(t) PROVE SideTypes'
  <2>1. UNCHANGED <<unread, alive>>
    BY <1>8 DEF TaskStep, RpcAnswers, CommandExits, CommandCloses, CleanUp, EndOfOutput
  <2> QED
    BY <1>1, <2>1
<1>9. ASSUME NEW t \in Tunnels, LocalReads(t) \/ LocalEnds(t) PROVE SideTypes'
  BY <1>9 DEF LocalReads, LocalEnds, SideTypes
<1>10. ASSUME NEW s \in Streams, Forward(s) \/ EndOfOutput(s) PROVE SideTypes'
  BY <1>1, <1>10 DEF Forward, EndOfOutput
<1>11. CASE UNCHANGED hostTunnelsVars
  BY <1>1, <1>11 DEF hostTunnelsVars
<1> QED
  BY <1>6, <1>7, <1>8, <1>9, <1>10, <1>11 DEF HostTunnelsNext

LEMMA RpcTypesStep ==
    ASSUME TunnelsInv, RpcTypes, [HostTunnelsNext]_hostTunnelsVars
    PROVE  RpcTypes'
<1>1. ASSUME UNCHANGED frames, calls' \subseteq calls PROVE RpcTypes'
  BY <1>1 DEF RpcTypes
<1>2. ASSUME NEW t \in Tunnels, Frame(t) PROVE frames' \in [Tunnels -> 0 .. MaxFrames] /\ frames[t] \in 0 .. MaxFrames
  <2>1. frames[t] \in 0 .. MaxFrames /\ frames[t] + 1 \in 0 .. MaxFrames
    BY <1>2, HostTunnelsAssumption DEF Frame, RpcTypes
  <2> QED
    BY <1>2, <2>1 DEF Frame, RpcTypes
<1>3. ASSUME NEW t \in Tunnels, RequestRpc(t) PROVE RpcTypes'
  BY <1>2, <1>3 DEF RequestRpc, RpcTypes
<1>4. ASSUME NEW t \in Tunnels, RequestOffload(t) \/ BeginWrite(t) PROVE RpcTypes'
  BY <1>2, <1>4 DEF RequestOffload, BeginWrite, RpcTypes
<1>5. CASE LoopStep
  <2>1. CASE \/ \E t \in Tunnels : PeerCloses(t) \/ \E kind : Offer(t, kind)
             \/ FinishWrite \/ FailWrite \/ SendOutput
    BY <1>1, <2>1 DEF PeerCloses, Offer, FinishWrite, FailWrite, SendOutput
  <2> QED
    BY <1>3, <1>4, <1>5, <2>1 DEF LoopStep
<1>6. CASE LinkEnds
  BY <1>1, <1>6 DEF LinkEnds
<1>7. ASSUME NEW t \in Tunnels, TaskStep(t) \/ LocalReads(t) \/ LocalEnds(t) PROVE RpcTypes'
  <2>1. UNCHANGED frames /\ calls' \subseteq calls
    BY <1>7 DEF TaskStep, RpcAnswers, CommandExits, CommandCloses, CleanUp, EndOfOutput, LocalReads, LocalEnds
  <2> QED
    BY <1>1, <2>1
<1>8. ASSUME NEW s \in Streams, Forward(s) \/ EndOfOutput(s) PROVE RpcTypes'
  BY <1>1, <1>8 DEF Forward, EndOfOutput
<1>9. CASE UNCHANGED hostTunnelsVars
  BY <1>1, <1>9 DEF hostTunnelsVars
<1> QED
  BY <1>5, <1>6, <1>7, <1>8, <1>9 DEF HostTunnelsNext

(* A command's workspace exists from the command's start to its clean-up.         *)
LEMMA CommandTypesStep ==
    ASSUME TunnelsInv, CommandTypes, [HostTunnelsNext]_hostTunnelsVars
    PROVE  CommandTypes'
<1>1. UNCHANGED <<command, ephemeral>> => CommandTypes'
  BY DEF CommandTypes
<1>2. DOMAIN command = Tunnels
  BY DEF TunnelsInv, TunnelShapes
<1>3. ASSUME NEW t \in Tunnels, NEW to, command' = [command EXCEPT ![t] = to],
             ephemeral' = IF Busy(to) THEN ephemeral \cup {t} ELSE ephemeral \ {t}
      PROVE  CommandTypes'
  BY <1>2, <1>3 DEF CommandTypes
<1>4. ASSUME NEW t \in Tunnels, RequestOffload(t) PROVE CommandTypes'
  <2>1. \/ UNCHANGED <<command, ephemeral>>
        \/ command' = [command EXCEPT ![t] = "running"] /\ ephemeral' = ephemeral \cup {t}
    BY <1>4 DEF RequestOffload
  <2>2. Busy("running")
    BY DEF Busy
  <2> QED
    BY <1>1, <1>3, <2>1, <2>2
<1>5. ASSUME NEW t \in Tunnels, CommandExits(t) \/ CommandCloses(t) PROVE CommandTypes'
  <2>1. PICK to \in {"exited", "closed"} : command' = [command EXCEPT ![t] = to] /\ Busy(command[t]) /\ UNCHANGED ephemeral
    BY <1>5 DEF CommandExits, CommandCloses, CommandTo, Busy
  <2>2. Busy(to) /\ ephemeral = ephemeral \cup {t}
    BY <2>1 DEF Busy, CommandTypes
  <2> QED
    BY <1>3, <2>1, <2>2
<1>6. ASSUME NEW t \in Tunnels, CleanUp(t) PROVE CommandTypes'
  <2>1. command' = [command EXCEPT ![t] = "cleaned"] /\ ephemeral' = ephemeral \ {t} /\ ~Busy("cleaned")
    BY <1>6 DEF CleanUp, CommandTo, Busy
  <2> QED
    BY <1>3, <2>1
<1>7. CASE LoopStep
  <2>1. CASE \/ \E t \in Tunnels : RequestRpc(t) \/ BeginWrite(t) \/ PeerCloses(t) \/ \E kind : Offer(t, kind)
             \/ FinishWrite \/ FailWrite \/ SendOutput
    BY <1>1, <2>1 DEF RequestRpc, BeginWrite, PeerCloses, Offer, FinishWrite, FailWrite, SendOutput
  <2> QED
    BY <1>4, <1>7, <2>1 DEF LoopStep
<1>8. CASE LinkEnds
  BY <1>1, <1>8 DEF LinkEnds
<1>9. ASSUME NEW t \in Tunnels, TaskStep(t) \/ LocalReads(t) \/ LocalEnds(t) PROVE CommandTypes'
  <2>1. CASE (\E c \in calls : RpcAnswers(c)) \/ (\E s \in streams : EndOfOutput(s)) \/ LocalReads(t) \/ LocalEnds(t)
    BY <1>1, <2>1 DEF RpcAnswers, EndOfOutput, LocalReads, LocalEnds
  <2> QED
    BY <1>5, <1>6, <1>9, <2>1 DEF TaskStep
<1>10. ASSUME NEW s \in Streams, Forward(s) \/ EndOfOutput(s) PROVE CommandTypes'
  BY <1>1, <1>10 DEF Forward, EndOfOutput
<1>11. CASE UNCHANGED hostTunnelsVars
  BY <1>1, <1>11 DEF hostTunnelsVars
<1> QED
  BY <1>7, <1>8, <1>9, <1>10, <1>11 DEF HostTunnelsNext

(* The tables of a connection, its bounded channel, the tasks behind its tunnels  *)
(* and their local sides keep the shape serve_dispatch gives them: the channel    *)
(* never holds more than its capacity, the loop writes to a tunnel that a table   *)
(* holds, and a command's workspace exists from its start to its clean-up.        *)
THEOREM HostTunnelsTypeCorrect == HostTunnelsSpec => []HostTunnelsTypeOK
<1> DEFINE Inv == TunnelsInv /\ Len(output) <= OutputCapacity /\ SideTypes /\ RpcTypes /\ CommandTypes
<1>1. HostTunnelsInit => Inv
  <2> SUFFICES ASSUME HostTunnelsInit PROVE Inv
    OBVIOUS
  <2>1. Len(output) <= OutputCapacity
    <3>1. output = <<>> /\ Len(<<>>) = 0
      BY DEF HostTunnelsInit
    <3> QED
      BY <3>1, HostTunnelsAssumption
  <2>2. SideTypes /\ RpcTypes
    BY HostTunnelsAssumption DEF HostTunnelsInit, SideTypes, RpcTypes
  <2>3. CommandTypes
    BY NoneApart DEF HostTunnelsInit, CommandTypes, Busy
  <2> QED
    BY <2>1, <2>2, <2>3, TunnelsBegin
<1>2. Inv /\ [HostTunnelsNext]_hostTunnelsVars => Inv'
  BY TunnelsStep, ChannelBounded, SidesStep, RpcTypesStep, CommandTypesStep
<1>3. Inv => HostTunnelsTypeOK
  BY DEF TunnelsInv, TunnelShapes, WriteInv, SideTypes, RpcTypes, CommandTypes, Busy, HostTunnelsTypeOK
<1> QED
  BY <1>1, <1>2, <1>3, PTL DEF HostTunnelsSpec
===============================================================================
