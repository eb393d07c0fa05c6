-------------------------------- MODULE SshBridge --------------------------------
(* One session of the loopback SSH server of choosh-hostd: ssh_server.rs, with *)
(* the pty of pty.rs and the editor's server found by mise_ops.rs.             *)
(*                                                                             *)
(* The session runs one callback at a time and sends what is queued for its    *)
(* client in between.  Each channel's process has a task that forwards its     *)
(* output and then waits for it, holding the lock that killing it takes too.   *)
EXTENDS HostState

CONSTANTS MaxSshChannels, MaxSshChunks, SshCapacity

SshChannels == 1 .. MaxSshChannels
SshStreams == SshChannels \X {"out", "err"}

ASSUME SshBridgeAssumption ==
    /\ MaxSshChannels \in Nat /\ MaxSshChunks \in Nat /\ SshCapacity \in Nat \ {0}
    /\ None \notin Nat /\ None \notin {"provision", "attach", "kill"} \X SshChannels
    /\ None \notin {"pty", "piped", "reading", "locking", "waiting", "reaped", "reporting", "done"}

VARIABLES
    session,        \* up or gone
    callback,       \* what the session is in the middle of: None, or what and where
    channelAt,      \* idle, open, running (in SessionHandler.channels), closed
    childKind,      \* pty or piped; None before there was a process
    children,       \* processes that live
    forwarder,      \* the task of a channel: None, reading, locking, waiting, reaped, reporting, done
    outbox,         \* messages of the tasks for the client
    presence,       \* editor events sent: None, attached, detached
    attributed,     \* channels whose editor was counted to a workspace
    forwarded, received, exitSent   \* chunks read from a process, sent to the client; exit codes sent

sessionVars == <<session, callback, channelAt>>
childVars == <<childKind, children, forwarder>>
presenceVars == <<presence, attributed>>
outputVars == <<forwarded, received, exitSent>>
sshVars == <<sessionVars, childVars, outbox, presenceVars, outputVars>>

SshInit ==
    /\ session = "up" /\ callback = None /\ channelAt = [c \in SshChannels |-> "idle"]
    /\ childKind = [c \in SshChannels |-> None] /\ children = {}
    /\ forwarder = [c \in SshChannels |-> None] /\ outbox = <<>>
    /\ presence = [c \in SshChannels |-> None] /\ attributed = {}
    /\ forwarded = [s \in SshStreams |-> 0] /\ received = [s \in SshStreams |-> <<>>] /\ exitSent = {}

Free == session = "up" /\ callback = None
ChannelTo(c, to) == channelAt' = [channelAt EXCEPT ![c] = to]
ForwarderTo(c, from, to) == forwarder[c] = from /\ forwarder' = [forwarder EXCEPT ![c] = to]
InCallback(what, c) == callback = <<what, c>>
Locked(c) == forwarder[c] = "waiting"

-------------------------------------------------------------------------------
(* Callbacks of the session                                                    *)

\* Whoever got as far as the loopback port is let in.
OpenChannel(c) ==
    /\ Free /\ Arrives(c, channelAt)
    /\ ChannelTo(c, "open")
    /\ UNCHANGED <<session, callback, childVars, outbox, presenceVars, outputVars>>

SpawnOn(c, as) ==
    /\ childKind' = [childKind EXCEPT ![c] = as]
    /\ children' = children \cup {c}

\* A shell, or a command it runs; on a failure the channel stays as it is.
StartShell(c) ==
    /\ Free /\ channelAt[c] = "open"
    /\ ChannelTo(c, "running")
    /\ SpawnOn(c, "pty")
    /\ ForwarderTo(c, None, "reading")
    /\ UNCHANGED <<session, callback, outbox, presenceVars, outputVars>>

StartEditor(c) ==
    /\ Free /\ channelAt[c] = "open" /\ forwarder[c] = None
    /\ callback' = <<"provision", c>>
    /\ UNCHANGED <<session, channelAt, childVars, outbox, presenceVars, outputVars>>

\* The client gets an exit code of 1 and the channel is closed, or, when only
\* the process did not start, a refusal.
ProvisionFails(c) ==
    /\ InCallback("provision", c) /\ callback' = None
    /\ channelAt' \in {channelAt, [channelAt EXCEPT ![c] = "closed"]}
    /\ UNCHANGED <<session, childVars, outbox, presenceVars, outputVars>>

\* An editor is counted to a workspace if the registry holds exactly one.
Attribute(c) == attributed' \in {attributed, attributed \cup {c}}

SpawnEditor(c) ==
    /\ InCallback("provision", c) /\ callback' = <<"attach", c>>
    /\ SpawnOn(c, "piped")
    /\ Attribute(c)
    /\ UNCHANGED <<session, channelAt, forwarder, outbox, presence, outputVars>>

\* The session waits until there is room for the event, however long.
AttachEditor(c) ==
    /\ InCallback("attach", c) /\ callback' = None
    /\ presence' = IF c \in attributed THEN [presence EXCEPT ![c] = "attached"] ELSE presence
    /\ ChannelTo(c, "running")
    /\ ForwarderTo(c, None, "reading")
    /\ UNCHANGED <<session, childKind, children, outbox, attributed, outputVars>>

\* The client closes the channel: its process is to be killed.
CloseChannel(c) ==
    /\ Free /\ channelAt[c] \in {"open", "running"}
    /\ ChannelTo(c, "closed")
    /\ callback' = IF channelAt[c] = "running" THEN <<"kill", c>> ELSE None
    /\ UNCHANGED <<session, childVars, outbox, presenceVars, outputVars>>

KillChild(c) ==
    /\ InCallback("kill", c) /\ ~Locked(c)
    /\ callback' = None
    /\ children' = children \ {c}
    /\ UNCHANGED <<session, channelAt, childKind, forwarder, outbox, presenceVars, outputVars>>

\* Messages on a channel that was closed go nowhere.
SendToClient ==
    /\ Free /\ outbox # <<>>
    /\ outbox' = Tail(outbox)
    /\ LET m == Head(outbox)
           c == m.stream[1]
       IN IF channelAt[c] = "closed" THEN UNCHANGED <<channelAt, received, exitSent>>
          ELSE IF m.chunk = None
          THEN exitSent' = exitSent \cup {c} /\ ChannelTo(c, "closed") /\ UNCHANGED received
          ELSE /\ received' = [received EXCEPT ![m.stream] = Append(@, m.chunk)]
               /\ UNCHANGED <<channelAt, exitSent>>
    /\ UNCHANGED <<session, callback, childVars, presenceVars, forwarded>>

\* The client is gone without closing anything: nobody is killed.
SessionEnds ==
    /\ Free
    /\ session' = "gone" /\ outbox' = <<>>
    /\ channelAt' = [c \in SshChannels |-> "closed"]
    /\ UNCHANGED <<callback, childVars, presenceVars, outputVars>>

-------------------------------------------------------------------------------
(* The processes and the tasks that forward their output                       *)

Hand(s, chunk) ==
    /\ Len(outbox) < SshCapacity
    /\ outbox' = Append(outbox, [stream |-> s, chunk |-> chunk])

\* A pty has no error output of its own.  When the session is gone the task stops
\* reading.
ForwardSsh(s) ==
    LET c == s[1] IN
    /\ forwarder[c] = "reading"
    /\ childKind[c] = "pty" => s[2] = "out"
    /\ IF session = "gone" THEN ForwarderTo(c, "reading", "locking") /\ UNCHANGED <<outbox, forwarded>>
       ELSE /\ forwarded[s] < MaxSshChunks
            /\ Hand(s, forwarded[s] + 1)
            /\ forwarded' = [forwarded EXCEPT ![s] = @ + 1]
            /\ UNCHANGED forwarder
    /\ UNCHANGED <<sessionVars, childKind, children, presenceVars, received, exitSent>>

\* The standard output is closed.  What the error output still holds is not read.
OutputCloses(c) ==
    /\ ForwarderTo(c, "reading", "locking")
    /\ UNCHANGED <<sessionVars, childKind, children, outbox, presenceVars, outputVars>>

\* Unless its channel is being killed just now.
WaitForChild(c) ==
    /\ ForwarderTo(c, "locking", "waiting")
    /\ UNCHANGED <<sessionVars, childKind, children, outbox, presenceVars, outputVars>>

ProcessExits(c) ==
    /\ c \in children
    /\ children' = children \ {c}
    /\ UNCHANGED <<sessionVars, childKind, forwarder, outbox, presenceVars, outputVars>>

\* The lock is free again when the process has ended.
Reap(c) ==
    /\ c \notin children
    /\ ForwarderTo(c, "waiting", "reaped")
    /\ UNCHANGED <<sessionVars, childKind, children, outbox, presenceVars, outputVars>>

\* End of output, exit code and close, best effort.
ReportExit(c) ==
    /\ ForwarderTo(c, "reaped", "reporting")
    /\ IF session = "up" THEN Hand(<<c, "out">>, None) ELSE UNCHANGED outbox
    /\ UNCHANGED <<sessionVars, childKind, children, presenceVars, outputVars>>

\* An editor whose client is gone is not reported.
DetachWhileConnected(c) ==
    /\ session = "up" /\ ForwarderTo(c, "reporting", "done")
    /\ presence' = IF c \in attributed THEN [presence EXCEPT ![c] = "detached"] ELSE presence
    /\ UNCHANGED <<sessionVars, childKind, children, outbox, attributed, outputVars>>

Detach(c) ==
    /\ ForwarderTo(c, "reporting", "done")
    /\ presence' = IF c \in attributed THEN [presence EXCEPT ![c] = "detached"] ELSE presence
    /\ UNCHANGED <<sessionVars, childKind, children, outbox, attributed, outputVars>>

ForwarderStep(c) == WaitForChild(c) \/ Reap(c) \/ ReportExit(c) \/ Detach(c)
FinishCallback(c) == AttachEditor(c) \/ KillChild(c) \/ ProvisionFails(c) \/ SpawnEditor(c)
StopsReading(c) == c \notin children /\ OutputCloses(c)

SshNext ==
    \/ SendToClient \/ SessionEnds
    \/ \E s \in SshStreams : ForwardSsh(s)
    \/ \E c \in SshChannels :
          \/ OpenChannel(c) \/ StartShell(c) \/ StartEditor(c) \/ ProvisionFails(c) \/ SpawnEditor(c)
          \/ AttachEditor(c) \/ CloseChannel(c) \/ KillChild(c)
          \/ OutputCloses(c) \/ ProcessExits(c) \/ ForwarderStep(c)

SshSpec == SshInit /\ [][SshNext]_sshVars
\* Tasks and session go on, events find room at last, and a process that has
\* closed its output ends: a session that wants to kill it waits for that.
SshFairness ==
    /\ WF_sshVars(SendToClient) /\ WF_sshVars(\E c \in SshChannels : FinishCallback(c))
    /\ \A c \in SshChannels :
          /\ SF_sshVars(ForwarderStep(c)) /\ WF_sshVars(StopsReading(c))
          /\ WF_sshVars(Locked(c) /\ ProcessExits(c))
-------------------------------------------------------------------------------
\* The session's callback, its channels and their tasks.
SshTypeOK ==
    /\ session \in {"up", "gone"}
    /\ callback = None \/ callback \in {"provision", "attach", "kill"} \X SshChannels
    /\ channelAt \in [SshChannels -> {"idle", "open", "running", "closed"}]
    /\ childKind \in [SshChannels -> {None, "pty", "piped"}]
    /\ children \subseteq {c \in SshChannels : childKind[c] # None}
    /\ forwarder \in [SshChannels -> {None, "reading", "locking", "waiting", "reaped", "reporting", "done"}]
    /\ Len(outbox) <= SshCapacity
    /\ \A c \in SshChannels : presence[c] # None => c \in attributed
    /\ exitSent \subseteq {c \in SshChannels : forwarder[c] \in {"reporting", "done"}}

\* What the client of a channel sees of its process is a TunnelStream: an exit
\* code comes after all the output that was read.
SshCarried == INSTANCE TunnelStream WITH
    Streams <- SshStreams, sent <- forwarded, received <- received,
    end <- [s \in SshStreams |->
        IF s[1] \in exitSent THEN "finished" ELSE IF channelAt[s[1]] = "closed" THEN "cut" ELSE "open"]
SshStreamsKept == SshCarried!StreamSpec

\* An editor whose process has ended is reported as detached, even if its client
\* went away without a word.
DetachIsReported ==
    \A c \in SshChannels : []<>(presence[c] = "attached" => c \in children)
===============================================================================
