------------------------------ MODULE PhoneTunnels ------------------------------
(* What the phone runs over its connection to the relay: the I/O task of       *)
(* choosh-android-transport, the engine's calls of choosh-android-bridge, and  *)
(* the connections of a web gateway.                                           *)
(*                                                                             *)
(* A call of the app holds the table of engines for as long as it runs; what   *)
(* uses the connection also holds the engine's connection.  A gateway opens    *)
(* its tunnels past the table.  The relay answers, sends and closes as it      *)
(* likes; a chunk is its number.                                               *)
EXTENDS HostState, FiniteSets

CONSTANTS MaxPhoneCalls, MaxConnections, MaxInbound, InboundCapacity, MaxGatewayConnections

PhoneCalls == 1 .. MaxPhoneCalls
Connections == 1 .. MaxConnections

ASSUME PhoneTunnelsAssumption ==
    /\ MaxPhoneCalls \in Nat /\ MaxConnections \in Nat /\ MaxInbound \in Nat
    /\ InboundCapacity \in Nat \ {0} /\ MaxGatewayConnections \in Nat
    /\ None \notin Nat

VARIABLES
    engineConn,     \* the engine's connection
    dialled,        \* connections so far
    engines, connection,        \* who holds the table of engines, the connection
    at, kind, conn, \* of a call: where it stands, what it is, which connection it uses
    finishedSides,  \* directions of a gateway's connection that have ended
    gateway,        \* the gateway runs
    io,             \* the task of a connection
    commands,       \* its queue
    pending,        \* calls it owes an answer to
    inbound,        \* tunnels it passes chunks on for
    chunks,         \* what it has passed on
    atRelay,        \* the tunnel of a call, as the relay sees it
    arrived, taken, streamEnd       \* chunks that reached the phone, that the call took

engineVars == <<engineConn, dialled, engines, connection>>
callVars == <<at, kind, conn, finishedSides, gateway>>
taskVars == <<io, commands, pending>>
tunnelVars == <<inbound, chunks, atRelay>>
takenVars == <<arrived, taken, streamEnd>>
phoneVars == <<engineVars, callVars, taskVars, tunnelVars, takenVars>>

PhoneInit ==
    /\ engineConn = None /\ dialled = 0 /\ engines = None /\ connection = None
    /\ at = [c \in PhoneCalls |-> "idle"]
    /\ kind = [c \in PhoneCalls |-> None] /\ conn = [c \in PhoneCalls |-> None]
    /\ finishedSides = [c \in PhoneCalls |-> {}] /\ gateway = TRUE
    /\ io = [g \in Connections |-> "none"] /\ commands = [g \in Connections |-> <<>>]
    /\ pending = {} /\ inbound = {}
    /\ chunks = [c \in PhoneCalls |-> <<>>]
    /\ atRelay = [c \in PhoneCalls |-> "none"]
    /\ arrived = [c \in PhoneCalls |-> 0] /\ taken = [c \in PhoneCalls |-> <<>>]
    /\ streamEnd = [c \in PhoneCalls |-> "open"]

EngineKinds == {"connect", "control", "rpc", "pty"}
TableFree == engines = None
ConnectionFree == connection = None
Is(c, label) == at[c] = label
CallTo(c, label) == at' = [at EXCEPT ![c] = label]
Up(c) == io[conn[c]] = "up"
Connected == IF engineConn = None THEN FALSE ELSE io[engineConn] = "up"
Command(c, what) == [what |-> what, call |-> c]
\* A command sent to a task that has ended goes nowhere.
SendCommand(c, what) ==
    commands' = IF Up(c) THEN [commands EXCEPT ![conn[c]] = Append(@, Command(c, what))] ELSE commands
Released(holder, c) == IF holder = c THEN None ELSE holder
\* The call gives back what it holds; some failed calls drop the connection too.
ReleaseAll(c, drops) ==
    /\ engines' = Released(engines, c) /\ connection' = Released(connection, c)
    /\ engineConn' = IF drops THEN None ELSE engineConn
    /\ UNCHANGED dialled
DropsConnection(c) == kind[c] \in {"control", "rpc"}
CutStream(c) == streamEnd' = [streamEnd EXCEPT ![c] = IF @ = "open" /\ atRelay[c] # "none" THEN "cut" ELSE @]

-------------------------------------------------------------------------------
(* Engine                                                                      *)

BeginCall(c, k) ==
    /\ Arrives(c, at) /\ TableFree
    /\ engines' = c
    /\ kind' = [kind EXCEPT ![c] = k]
    /\ CallTo(c, IF k = "connect" THEN "dialling" ELSE "locking")
    /\ UNCHANGED <<engineConn, dialled, connection, conn, finishedSides, gateway, taskVars, tunnelVars, takenVars>>

StartIoTask(g) == io' = [io EXCEPT ![g] = "up"]

\* The new connection is up before the old one is let go.
Connect(c) ==
    /\ Is(c, "dialling") /\ ConnectionFree
    /\ engines' = None /\ CallTo(c, "done")
    /\ \/ /\ dialled < MaxConnections
          /\ dialled' = dialled + 1 /\ engineConn' = dialled + 1
          /\ StartIoTask(dialled + 1)
       \/ engineConn' = None /\ UNCHANGED <<dialled, io>>
    /\ UNCHANGED <<connection, kind, conn, finishedSides, gateway, commands, pending, tunnelVars, takenVars>>

NotConnected(c) ==
    /\ Is(c, "locking") /\ ConnectionFree
    /\ ~Connected
    /\ CallTo(c, "done")
    /\ ReleaseAll(c, DropsConnection(c))
    /\ UNCHANGED <<kind, conn, finishedSides, gateway, taskVars, tunnelVars, takenVars>>

Ask(c) ==
    /\ Is(c, "locking") /\ ConnectionFree
    /\ Connected
    /\ connection' = c
    /\ conn' = [conn EXCEPT ![c] = engineConn]
    /\ commands' = [commands EXCEPT ![engineConn] = Append(@, Command(c, "ask"))]
    /\ CallTo(c, "asking")
    /\ UNCHANGED <<engineConn, dialled, engines, kind, finishedSides, gateway, io, pending, tunnelVars, takenVars>>

\* The task ended and took the sender of the answer with it.
AskFails(c) ==
    /\ Is(c, "asking") /\ ~Up(c)
    /\ CallTo(c, "done")
    /\ ReleaseAll(c, DropsConnection(c))
    /\ UNCHANGED <<kind, conn, finishedSides, gateway, taskVars, tunnelVars, takenVars>>

Take(c) ==
    /\ chunks[c] # <<>>
    /\ chunks' = [chunks EXCEPT ![c] = Tail(@)]
    /\ taken' = [taken EXCEPT ![c] = Append(@, Head(chunks[c]))]
    /\ UNCHANGED <<inbound, atRelay, arrived>>
AtEnd(c) == chunks[c] = <<>> /\ c \notin inbound
EndStream(c) ==
    streamEnd' = [streamEnd EXCEPT ![c] = IF Len(taken[c]) = arrived[c] THEN "finished" ELSE "cut"]

\* One answer, and the tunnel is closed; an answer of the wrong form is an error.
RpcAnswered(c) ==
    /\ Is(c, "asked")
    /\ Take(c)
    /\ SendCommand(c, "close")
    /\ CallTo(c, "done")
    /\ \E wrong \in BOOLEAN : ReleaseAll(c, wrong)
    /\ UNCHANGED <<kind, conn, finishedSides, gateway, io, pending, streamEnd>>

RpcFails(c) ==
    /\ Is(c, "asked") /\ AtEnd(c)
    /\ CallTo(c, "done")
    /\ ReleaseAll(c, TRUE)
    /\ EndStream(c)
    /\ UNCHANGED <<kind, conn, finishedSides, gateway, taskVars, tunnelVars, arrived, taken>>

CloseEngine ==
    /\ TableFree /\ ConnectionFree
    /\ engineConn # None /\ engineConn' = None
    /\ UNCHANGED <<dialled, engines, connection, callVars, taskVars, tunnelVars, takenVars>>

-------------------------------------------------------------------------------
(* Terminal and gateway: readers of a tunnel                                   *)

ReadChunk(c) ==
    /\ Is(c, "reading")
    /\ Take(c)
    /\ UNCHANGED <<engineVars, callVars, taskVars, streamEnd>>

\* The terminal drops its handle, at the end of the output or before: no close
\* is sent.
DropPty(c) ==
    /\ Is(c, "reading") /\ kind[c] = "pty"
    /\ CallTo(c, "done")
    /\ IF AtEnd(c) THEN EndStream(c) ELSE CutStream(c)
    /\ UNCHANGED <<engineVars, kind, conn, finishedSides, gateway, taskVars, tunnelVars, arrived, taken>>

GatewayConnections == {c \in PhoneCalls : kind[c] = "web" /\ at[c] \notin {"done", "dropped"}}

\* Over the cap a connection is turned away at once; so it is later when its
\* head is too long, not in time or without the cookie.
Accept(c) ==
    /\ Arrives(c, at) /\ gateway
    /\ kind' = [kind EXCEPT ![c] = "web"]
    /\ CallTo(c, IF Cardinality(GatewayConnections) < MaxGatewayConnections THEN "head" ELSE "done")
    /\ UNCHANGED <<engineVars, conn, finishedSides, gateway, taskVars, tunnelVars, takenVars>>

ReadHead(c) ==
    /\ Is(c, "head")
    /\ \E label \in {"locking", "done"} : CallTo(c, label)
    /\ UNCHANGED <<engineVars, kind, conn, finishedSides, gateway, taskVars, tunnelVars, takenVars>>

\* Nothing is read from either side until the write is acknowledged.
Upload(c) ==
    /\ Is(c, "reading") /\ kind[c] = "web" /\ "client" \notin finishedSides[c]
    /\ Up(c)
    /\ SendCommand(c, "bytes")
    /\ CallTo(c, "writing")
    /\ UNCHANGED <<engineVars, kind, conn, finishedSides, gateway, io, pending, tunnelVars, takenVars>>

FinishSide(c, side) ==
    /\ Is(c, "reading") /\ kind[c] = "web" /\ side \notin finishedSides[c]
    /\ side = "upstream" => AtEnd(c)
    /\ finishedSides' = [finishedSides EXCEPT ![c] = @ \cup {side}]
    /\ IF side = "upstream" THEN EndStream(c) ELSE UNCHANGED streamEnd
    /\ UNCHANGED <<engineVars, at, kind, conn, gateway, taskVars, tunnelVars, arrived, taken>>

\* Both sides have ended, or one has failed, or both are idle for too long.
PumpStops(c) ==
    \/ Is(c, "reading") /\ kind[c] = "web"
    \/ Is(c, "writing") /\ ~Up(c)

\* The other end is gone already, so nothing needs to be closed.
EndPumpUnlessUpstreamDone(c) ==
    /\ PumpStops(c)
    /\ IF "upstream" \in finishedSides[c] THEN UNCHANGED commands ELSE SendCommand(c, "close")
    /\ CallTo(c, "done")
    /\ CutStream(c)
    /\ UNCHANGED <<engineVars, kind, conn, finishedSides, gateway, io, pending, tunnelVars, arrived, taken>>

EndPump(c) ==
    /\ PumpStops(c)
    /\ SendCommand(c, "close")
    /\ CallTo(c, "done")
    /\ CutStream(c)
    /\ UNCHANGED <<engineVars, kind, conn, finishedSides, gateway, io, pending, tunnelVars, arrived, taken>>

StopGateway ==
    /\ gateway /\ gateway' = FALSE
    /\ UNCHANGED <<engineVars, at, kind, conn, finishedSides, taskVars, tunnelVars, takenVars>>

\* A connection of a stopped gateway is dropped where it stands, unless its pump
\* sees the stop first.
DropConnection(c) ==
    /\ ~gateway /\ c \in GatewayConnections
    /\ CallTo(c, "dropped")
    /\ ReleaseAll(c, FALSE)
    /\ CutStream(c)
    /\ UNCHANGED <<kind, conn, finishedSides, gateway, taskVars, tunnelVars, arrived, taken>>

-------------------------------------------------------------------------------
(* The I/O task                                                                *)

HandleCommand(g) ==
    /\ io[g] = "up" /\ commands[g] # <<>>
    /\ commands' = [commands EXCEPT ![g] = Tail(@)]
    /\ LET c == Head(commands[g]).call
           what == Head(commands[g]).what
       IN /\ pending' = IF what = "ask" THEN pending \cup {c} ELSE pending
          /\ inbound' = IF what = "close" THEN inbound \ {c} ELSE inbound
          /\ atRelay' = IF what = "close" THEN [atRelay EXCEPT ![c] = "closed"] ELSE atRelay
          /\ IF what = "bytes" /\ Is(c, "writing") THEN CallTo(c, "reading") ELSE UNCHANGED at
    /\ UNCHANGED <<engineVars, kind, conn, finishedSides, gateway, io, chunks, takenVars>>

AnswerControl(c) ==
    /\ c \in pending /\ kind[c] = "control"
    /\ pending' = pending \ {c}
    /\ CallTo(c, "done")
    /\ \E refused \in BOOLEAN : ReleaseAll(c, refused)
    /\ UNCHANGED <<kind, conn, finishedSides, gateway, io, commands, tunnelVars, takenVars>>

Streaming(c) == kind[c] \in {"pty", "web"}

\* The tunnel is entered before its opener hears of it, and even if there is no
\* opener left.  A terminal and a gateway then let the connection go.
TunnelOpens(c) ==
    /\ c \in pending /\ kind[c] # "control"
    /\ pending' = pending \ {c}
    /\ inbound' = inbound \cup {c} /\ atRelay' = [atRelay EXCEPT ![c] = "open"]
    /\ IF ~Is(c, "asking") THEN UNCHANGED <<engineVars, at, commands>>
       ELSE /\ CallTo(c, CASE kind[c] = "rpc" -> "asked" [] kind[c] = "pty" -> "reading" [] OTHER -> "writing")
            /\ IF kind[c] = "pty" THEN UNCHANGED commands ELSE SendCommand(c, "bytes")
            /\ IF Streaming(c) THEN ReleaseAll(c, FALSE) ELSE UNCHANGED engineVars
    /\ UNCHANGED <<kind, conn, finishedSides, gateway, io, chunks, takenVars>>

TunnelRefused(c) ==
    /\ c \in pending /\ kind[c] # "control"
    /\ pending' = pending \ {c}
    /\ IF ~Is(c, "asking") THEN UNCHANGED <<engineVars, at>>
       ELSE CallTo(c, "done") /\ ReleaseAll(c, DropsConnection(c))
    /\ UNCHANGED <<kind, conn, finishedSides, gateway, io, commands, tunnelVars, takenVars>>

Arrival(c) ==
    /\ atRelay[c] = "open" /\ arrived[c] < MaxInbound
    /\ arrived' = [arrived EXCEPT ![c] = @ + 1]
RoomFor(c) == Len(chunks[c]) < InboundCapacity
Fits(c) == c \in inbound /\ RoomFor(c) /\ at[c] \notin {"done", "dropped"}

\* A chunk that does not fit, or that nobody takes, costs the tunnel its entry;
\* the relay is not told.
HandleTunnelFrame(c) ==
    /\ Arrival(c)
    /\ chunks' = [chunks EXCEPT ![c] = IF Fits(c) THEN Append(@, arrived[c] + 1) ELSE @]
    /\ inbound' = IF Fits(c) THEN inbound ELSE inbound \ {c}
    /\ UNCHANGED <<engineVars, callVars, taskVars, atRelay, taken, streamEnd>>

HandleClose(c) ==
    /\ atRelay[c] = "open"
    /\ atRelay' = [atRelay EXCEPT ![c] = "closed"]
    /\ inbound' = inbound \ {c}
    /\ UNCHANGED <<engineVars, callVars, taskVars, chunks, takenVars>>

\* The connection is lost, or nobody has use for it any more.  The relay closes
\* the tunnels of a connection that is gone.
IoTaskEnds(g) ==
    /\ io[g] = "up"
    /\ io' = [io EXCEPT ![g] = "down"]
    /\ commands' = [commands EXCEPT ![g] = <<>>]
    /\ LET its == {c \in PhoneCalls : conn[c] = g}
       IN /\ pending' = pending \ its /\ inbound' = inbound \ its
          /\ atRelay' = [c \in PhoneCalls |-> IF c \in its /\ atRelay[c] = "open" THEN "closed" ELSE atRelay[c]]
    /\ UNCHANGED <<engineVars, callVars, chunks, takenVars>>

EngineCall(c) ==
    \/ \E k \in EngineKinds : BeginCall(c, k)
    \/ Connect(c) \/ NotConnected(c) \/ Ask(c) \/ AskFails(c) \/ RpcAnswered(c) \/ RpcFails(c)
Reader(c) ==
    \/ ReadChunk(c) \/ DropPty(c) \/ Accept(c) \/ ReadHead(c) \/ Upload(c)
    \/ \E side \in {"client", "upstream"} : FinishSide(c, side)
    \/ EndPump(c) \/ DropConnection(c)
IoTask(c) ==
    AnswerControl(c) \/ TunnelOpens(c) \/ TunnelRefused(c) \/ HandleTunnelFrame(c) \/ HandleClose(c)

PhoneNext ==
    \/ \E c \in PhoneCalls : EngineCall(c) \/ Reader(c) \/ IoTask(c)
    \/ \E g \in Connections : HandleCommand(g) \/ IoTaskEnds(g)
    \/ CloseEngine \/ StopGateway

PhoneSpec == PhoneInit /\ [][PhoneNext]_phoneVars
-------------------------------------------------------------------------------
\* Every queue and table of the phone names calls of it, and one call holds the
\* connection.
PhoneTypeOK ==
    /\ engineConn \in Connections \cup {None} /\ dialled \in 0 .. MaxConnections
    /\ engines \in PhoneCalls \cup {None} /\ connection \in PhoneCalls \cup {None}
    /\ at \in [PhoneCalls -> {"idle", "dialling", "head", "locking", "asking", "asked", "reading",
                              "writing", "done", "dropped"}]
    /\ kind \in [PhoneCalls -> EngineKinds \cup {None, "web"}]
    /\ conn \in [PhoneCalls -> Connections \cup {None}]
    /\ finishedSides \in [PhoneCalls -> SUBSET {"client", "upstream"}] /\ gateway \in BOOLEAN
    /\ io \in [Connections -> {"none", "up", "down"}]
    /\ \A g \in Connections : \A n \in DOMAIN commands[g] :
          commands[g][n] \in [what : {"ask", "bytes", "close"}, call : PhoneCalls]
    /\ pending \subseteq PhoneCalls /\ inbound \subseteq PhoneCalls
    /\ \A c \in PhoneCalls : Len(chunks[c]) <= InboundCapacity
    /\ atRelay \in [PhoneCalls -> {"none", "open", "closed"}]
    /\ arrived \in [PhoneCalls -> 0 .. MaxInbound]
    /\ streamEnd \in [PhoneCalls -> {"open", "finished", "cut"}]

\* What a tunnel brings to the phone is a TunnelStream for the call that reads
\* it, though the task drops what the call is too slow for.
Taken == INSTANCE TunnelStream WITH
    Streams <- PhoneCalls, sent <- arrived, received <- taken, end <- streamEnd
PhoneStreamsKept == Taken!StreamSpec

\* An RPC or a gateway's connection that came to its own end leaves no tunnel
\* behind at the relay: it is closed, or its close is on the way.
FinishedCallsClose ==
    \A c \in PhoneCalls :
        at[c] = "done" /\ kind[c] \in {"rpc", "web"} /\ atRelay[c] = "open" =>
            \E n \in DOMAIN commands[conn[c]] : commands[conn[c]][n] = Command(c, "close")
===============================================================================
