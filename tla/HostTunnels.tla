------------------------------ MODULE HostTunnels ------------------------------
(* The tunnels of one connection of hostd to the relay: serve_dispatch and its *)
(* handlers in serve.rs, the pty clients of pty.rs.                            *)
(*                                                                             *)
(* One loop owns the connection: it sends what the tunnels' tasks have queued  *)
(* in one bounded channel, and only when that is empty handles a frame of the  *)
(* relay (select! is biased).  Each tunnel has its local side: a pty client, a *)
(* loopback socket (web, zellij-web and ssh tunnels), the RPCs under way, or a *)
(* command that is run in a workspace of its own.  A chunk is its number.      *)
EXTENDS HostState

CONSTANTS MaxTunnels, MaxFrames, MaxChunks, OutputCapacity

Tunnels == 1 .. MaxTunnels
Streams == Tunnels \X {"out", "err"}

ASSUME HostTunnelsAssumption ==
    /\ MaxTunnels \in Nat /\ MaxFrames \in Nat /\ MaxChunks \in Nat
    /\ OutputCapacity \in Nat \ {0}
    /\ None \notin Tunnels
    /\ None \notin {"rpc", "pty", "bridge", "pending", "offload"}
    /\ None \notin {"running", "exited", "closed", "cleaned", "exit", "close", "error", "peer"}

VARIABLES
    link,           \* the connection: up or down
    offered,        \* what a tunnel was offered as
    table,          \* the collection of TunnelState that holds it
    output,         \* the channel from the tasks to the loop
    writing,        \* the tunnel whose local side the loop is writing to
    unread,         \* tunnels whose local side has not read what was written
    alive,          \* tunnels whose local process or socket lives
    streams,        \* streams a task still reads
    calls,          \* RPCs under way: tunnel, number
    command,        \* the task of an offloaded command
    ephemeral,      \* tunnels whose command's workspace exists
    produced, delivered, ended,     \* what was read locally, what went to the relay
    frames

loopState == <<link, offered, table, writing>>
history == <<produced, delivered, ended>>
hostTunnelsVars == <<loopState, output, unread, alive, streams, calls, command, ephemeral,
                     history, frames>>

HostTunnelsInit ==
    /\ link = "up" /\ writing = None
    /\ offered = [t \in Tunnels |-> "idle"]
    /\ table = [t \in Tunnels |-> None]
    /\ output = <<>>
    /\ unread = {} /\ alive = {} /\ streams = {} /\ calls = {} /\ ephemeral = {}
    /\ command = [t \in Tunnels |-> None]
    /\ produced = [s \in Streams |-> 0]
    /\ delivered = [s \in Streams |-> <<>>]
    /\ ended = [t \in Tunnels |-> None]
    /\ frames = [t \in Tunnels |-> 0]

Selecting == link = "up" /\ writing = None
Receiving == Selecting /\ output = <<>>
Enter(t, collection) == table' = [table EXCEPT ![t] = collection]
Leave(t) == Enter(t, None)
Out(t) == <<t, "out">>
Open(t) == \E s \in streams : s[1] = t

\* A task that waits for room whether or not anyone still makes some.
QueueWhenRoom(t, what, n) ==
    /\ Len(output) < OutputCapacity
    /\ output' = Append(output, [to |-> t, what |-> what, chunk |-> n])

\* What a task queues: it waits for room, and once the connection is gone it is
\* told so at once.
QueueChunk(t, what, n) ==
    IF link = "up"
    THEN /\ Len(output) < OutputCapacity
         /\ output' = Append(output, [to |-> t, what |-> what, chunk |-> n])
    ELSE UNCHANGED output
Queue(t, what) == QueueChunk(t, what, 0)

-------------------------------------------------------------------------------
(* The loop                                                                    *)

\* Attaching a pty client or dialling a local port may fail; nobody is told.
Offer(t, kind) ==
    /\ Receiving
    /\ Arrives(t, offered)
    /\ \/ /\ offered' = [offered EXCEPT ![t] = kind]
          /\ Enter(t, IF kind = "offload" THEN "pending" ELSE kind)
          /\ IF kind \in {"pty", "bridge"}
             THEN alive' = alive \cup {t} /\ streams' = streams \cup {Out(t)}
             ELSE UNCHANGED <<alive, streams>>
       \/ /\ kind \in {"pty", "bridge"}
          /\ offered' = [offered EXCEPT ![t] = "refused"]
          /\ UNCHANGED <<table, alive, streams>>
    /\ UNCHANGED <<link, writing, output, unread, calls, command, ephemeral, history, frames>>

Frame(t) ==
    /\ Receiving
    /\ frames[t] < MaxFrames
    /\ frames' = [frames EXCEPT ![t] = @ + 1]

\* The call runs off the loop and answers through the channel.
RequestRpc(t) ==
    /\ Frame(t)
    /\ table[t] = "rpc"
    /\ calls' = calls \cup {<<t, frames[t]>>}
    /\ UNCHANGED <<loopState, output, unread, alive, streams, command, ephemeral, history>>

\* The one frame of an offload tunnel.  It is refused (malformed, no such
\* workspace or commit, a command that does not start) or run.
RequestOffload(t) ==
    /\ Frame(t)
    /\ table[t] = "pending"
    /\ \/ /\ Leave(t)
          /\ ended' = [ended EXCEPT ![t] = "error"]
          /\ UNCHANGED <<alive, streams, command, ephemeral>>
       \/ /\ Enter(t, "offload")
          /\ alive' = alive \cup {t}
          /\ streams' = streams \cup {Out(t), <<t, "err">>}
          /\ command' = [command EXCEPT ![t] = "running"]
          /\ ephemeral' = ephemeral \cup {t}
          /\ UNCHANGED ended
    /\ UNCHANGED <<link, offered, writing, output, unread, calls, produced, delivered>>

\* The loop stays in write_all until the local side has taken the bytes.
BeginWrite(t) ==
    /\ Frame(t)
    /\ table[t] \in {"pty", "bridge"}
    /\ writing' = t
    /\ UNCHANGED <<link, offered, table, output, unread, alive, streams, calls, command,
                   ephemeral, history>>

\* Bytes written to a socket whose peer has just gone may still be taken.
FinishWrite ==
    /\ writing # None /\ writing \notin unread
    /\ writing' = None
    /\ unread' = IF writing \in alive THEN unread \cup {writing} ELSE unread
    /\ UNCHANGED <<link, offered, table, output, alive, streams, calls, command, ephemeral,
                   history, frames>>

\* A write that fails drops the write half.
FailWrite ==
    /\ writing # None /\ writing \notin alive
    /\ Leave(writing)
    /\ writing' = None
    /\ UNCHANGED <<link, offered, output, unread, alive, streams, calls, command, ephemeral,
                   history, frames>>

\* An empty frame.  A pty client is killed; the bridge's socket is shut down for
\* writing; a command that already runs goes on.
PeerCloses(t) ==
    /\ Receiving
    /\ table[t] \notin {None, "offload"}
    /\ Leave(t)
    /\ ended' = [ended EXCEPT ![t] = "peer"]
    /\ alive' = IF table[t] = "pty" THEN alive \ {t} ELSE alive
    /\ unread' = unread \cap alive'
    /\ UNCHANGED <<link, offered, writing, output, streams, calls, command, ephemeral,
                   produced, delivered, frames>>

\* A closed tunnel's output is sent all the same.
SendAnyOutput ==
    /\ Selecting /\ output # <<>>
    /\ LET m == Head(output)
       IN /\ IF m.what \in {"exit", "close"}
             THEN /\ ended' = [ended EXCEPT ![m.to] = IF @ = None THEN m.what ELSE @]
                  /\ IF m.what = "close" THEN Leave(m.to) ELSE UNCHANGED table
                  /\ UNCHANGED delivered
             ELSE /\ delivered' = IF m.what = "answer" THEN delivered
                                  ELSE [delivered EXCEPT ![<<m.to, m.what>>] = Append(@, m.chunk)]
                  /\ UNCHANGED <<ended, table>>
    /\ output' = Tail(output)
    /\ UNCHANGED <<link, offered, writing, unread, alive, streams, calls, command, ephemeral,
                   produced, frames>>

\* Output of a tunnel that no collection holds any more is dropped.  A close of
\* the local side is the last thing sent on its tunnel.
SendOutput ==
    /\ Selecting /\ output # <<>>
    /\ LET m == Head(output)
           held == table[m.to] \in {"pty", "bridge", "offload", "rpc"}
       IN IF held /\ m.what \in {"exit", "close"}
          THEN /\ ended' = [ended EXCEPT ![m.to] = IF @ = None THEN m.what ELSE @]
               /\ IF m.what = "close" THEN Leave(m.to) ELSE UNCHANGED table
               /\ UNCHANGED delivered
          ELSE /\ delivered' = IF held /\ m.what # "answer"
                               THEN [delivered EXCEPT ![<<m.to, m.what>>] = Append(@, m.chunk)]
                               ELSE delivered
               /\ UNCHANGED <<ended, table>>
    /\ output' = Tail(output)
    /\ UNCHANGED <<link, offered, writing, unread, alive, streams, calls, command, ephemeral,
                   produced, frames>>

\* The tables and the channel go with the connection, the tasks stay.
LinkEnds ==
    /\ Selecting
    /\ link' = "down"
    /\ table' = [t \in Tunnels |-> None]
    /\ output' = <<>>
    /\ alive' = {t \in alive : table[t] # "pty"}
    /\ unread' = unread \cap alive'
    /\ UNCHANGED <<offered, writing, streams, calls, command, ephemeral, history, frames>>

-------------------------------------------------------------------------------
(* The local sides and their tasks                                             *)

LocalReads(t) ==
    /\ t \in unread /\ t \in alive
    /\ unread' = unread \ {t}
    /\ UNCHANGED <<loopState, output, alive, streams, calls, command, ephemeral, history, frames>>

LocalEnds(t) ==
    /\ t \in alive
    /\ alive' = alive \ {t}
    /\ unread' = unread \ {t}
    /\ UNCHANGED <<loopState, output, streams, calls, command, ephemeral, history, frames>>

\* A chunk is read and queued; a task whose connection is gone ends.
Forward(s) ==
    /\ s \in streams
    /\ IF link = "up"
       THEN /\ produced[s] < MaxChunks
            /\ QueueChunk(s[1], s[2], produced[s] + 1)
            /\ produced' = [produced EXCEPT ![s] = @ + 1]
            /\ UNCHANGED streams
       ELSE streams' = streams \ {s} /\ UNCHANGED <<output, produced>>
    /\ UNCHANGED <<loopState, unread, alive, calls, command, ephemeral, delivered, ended, frames>>

\* Nothing more to read.  A socket may be shut down, fail or fall idle while its
\* process lives; its tunnel is closed.  A pty client's end closes nothing.
EndOfOutput(s) ==
    /\ s \in streams
    /\ offered[s[1]] = "pty" => s[1] \notin alive
    /\ streams' = streams \ {s}
    /\ IF offered[s[1]] = "bridge" THEN Queue(s[1], "close") ELSE UNCHANGED output
    /\ UNCHANGED <<loopState, unread, alive, calls, command, ephemeral, history, frames>>

RpcAnswers(c) ==
    /\ c \in calls
    /\ calls' = calls \ {c}
    /\ Queue(c[1], "answer")
    /\ UNCHANGED <<loopState, unread, alive, streams, command, ephemeral, history, frames>>

CommandTo(t, from, to) == command[t] = from /\ command' = [command EXCEPT ![t] = to]

\* Both readers have ended by then.
CommandExits(t) ==
    /\ CommandTo(t, "running", "exited")
    /\ t \notin alive /\ ~Open(t)
    /\ Queue(t, "exit")
    /\ UNCHANGED <<loopState, unread, alive, streams, calls, ephemeral, history, frames>>

CommandCloses(t) ==
    /\ CommandTo(t, "exited", "closed")
    /\ Queue(t, "close")
    /\ UNCHANGED <<loopState, unread, alive, streams, calls, ephemeral, history, frames>>

\* Only a command whose output could be delivered is cleaned up after.
CleanUpWhileLinked(t) ==
    /\ link = "up"
    /\ CommandTo(t, "closed", "cleaned")
    /\ ephemeral' = ephemeral \ {t}
    /\ UNCHANGED <<loopState, output, unread, alive, streams, calls, history, frames>>

CleanUp(t) ==
    /\ CommandTo(t, "closed", "cleaned")
    /\ ephemeral' = ephemeral \ {t}
    /\ UNCHANGED <<loopState, output, unread, alive, streams, calls, history, frames>>

LoopStep ==
    \/ \E t \in Tunnels :
          \/ \E kind \in {"rpc", "pty", "bridge", "offload"} : Offer(t, kind)
          \/ RequestRpc(t) \/ RequestOffload(t) \/ BeginWrite(t) \/ PeerCloses(t)
    \/ FinishWrite \/ FailWrite \/ SendOutput

TaskStep(t) ==
    \/ \E c \in calls : c[1] = t /\ RpcAnswers(c)
    \/ CommandExits(t) \/ CommandCloses(t) \/ CleanUp(t)
    \/ \E s \in streams : s[1] = t /\ s[1] \notin alive /\ EndOfOutput(s)

HostTunnelsNext ==
    \/ LoopStep \/ LinkEnds
    \/ \E t \in Tunnels : TaskStep(t) \/ LocalReads(t) \/ LocalEnds(t)
    \/ \E s \in Streams : Forward(s) \/ EndOfOutput(s)

HostTunnelsSpec == HostTunnelsInit /\ [][HostTunnelsNext]_hostTunnelsVars
\* The loop takes what is queued, a task goes on, and what is alive reads; a
\* frame need not come, and a process need not end.
HostTunnelsFairness ==
    /\ WF_hostTunnelsVars(SendOutput) /\ WF_hostTunnelsVars(FinishWrite \/ FailWrite)
    /\ \A t \in Tunnels : WF_hostTunnelsVars(LocalReads(t)) /\ SF_hostTunnelsVars(TaskStep(t))
HostTunnelsFairSpec == HostTunnelsSpec /\ HostTunnelsFairness
-------------------------------------------------------------------------------
Messages == [to : Tunnels, what : {"answer", "exit", "close", "out", "err"}, chunk : 0 .. MaxChunks]

\* The collections, the channel, the tasks and the local sides.
HostTunnelsTypeOK ==
    /\ link \in {"up", "down"}
    /\ offered \in [Tunnels -> {"idle", "refused", "rpc", "pty", "bridge", "offload"}]
    /\ table \in [Tunnels -> {None, "rpc", "pty", "bridge", "pending", "offload"}]
    /\ output \in Seq(Messages) /\ Len(output) <= OutputCapacity
    /\ writing # None => writing \in Tunnels /\ table[writing] \in {"pty", "bridge"}
    /\ unread \subseteq alive /\ alive \subseteq Tunnels
    /\ streams \subseteq Streams
    /\ calls \subseteq Tunnels \X (0 .. MaxFrames)
    /\ command \in [Tunnels -> {None, "running", "exited", "closed", "cleaned"}]
    /\ ephemeral = {t \in Tunnels : command[t] \in {"running", "exited", "closed"}}
    /\ produced \in [Streams -> 0 .. MaxChunks]
    /\ ended \in [Tunnels -> {None, "exit", "close", "error", "peer"}]
    /\ frames \in [Tunnels -> 0 .. MaxFrames]

\* Every stream of a tunnel is a TunnelStream: what its task reads reaches the
\* relay in order and whole, an exit code or a close comes after all of it, and
\* nothing comes after that or after the tunnel has gone.
Ending(t) ==
    IF ended[t] \in {"exit", "close", "error"} THEN "finished"
    ELSE IF offered[t] # "idle" /\ table[t] = None THEN "cut" ELSE "open"

Carried == INSTANCE TunnelStream WITH
    Streams <- Streams, sent <- produced, received <- delivered,
    end <- [s \in Streams |-> Ending(s[1])]
StreamsKept == Carried!StreamSpec

\* An RPC is answered, or its connection is gone, whatever the local sides of
\* the other tunnels do.
CallsAnswered == \A c \in Tunnels \X (0 .. MaxFrames) : []<>(c \notin calls)

\* The workspace of a command that has ended is removed, also when the requester
\* or the connection has gone.
EphemeralRemoved == \A t \in Tunnels : []<>(t \in ephemeral => t \in alive)

===============================================================================
