-------------------------------- MODULE HostLink --------------------------------
(* How choosh-hostd comes to be connected to the relay and stays so (serve.rs, *)
(* credential.rs, relay_client.rs, backoff.rs), with what else its start-up    *)
(* sets up: the socket that `emit` reports agent events to (local_ipc.rs), the *)
(* agent hooks (hooks.rs), the power assertion and the host's tools.           *)
(*                                                                             *)
(* What is done on the connection is the subject of HostTunnels, what becomes  *)
(* of an event that was taken from the queue that of EventDelivery.            *)
EXTENDS HostState

CONSTANTS MaxStarts, MaxAttempts, MaxEmits, EventCapacity, MaxUserEdits, Tools

Emits == 1 .. MaxEmits
Trying == {"dial", "hello", "auth"}
Running == {"enroll", "enrolled", "setup", "install", "merge", "serving", "backoff"} \cup Trying

ASSUME HostLinkAssumption ==
    /\ MaxStarts \in Nat /\ MaxAttempts \in Nat \ {0} /\ MaxEmits \in Nat /\ MaxUserEdits \in Nat
    /\ EventCapacity \in Nat \ {0}
    /\ None \notin Nat \cup {"live", "whole"}

VARIABLES
    linkStage,      \* how far serve has come; "off" if it does not run
    starts,
    credential,     \* the credential file: whole or None
    enrollToken,    \* the one it was given: None, fresh or consumed
    known,          \* the relay knows the device of that credential
    retries,        \* failed connections, as far as the backoff tells them apart
    power,          \* the power assertion is held
    ipcSocket,      \* the socket file: None, live, or left by a process that is gone
    emitAt,         \* what became of an emit and its event
    eventQueue,     \* events on their way to serve_dispatch
    settings, merging,      \* the agent's settings file; what was read of it
    toolDirs        \* tools found current: their directory goes first in PATH

enrollment == <<credential, enrollToken, known>>
ipcVars == <<ipcSocket, emitAt, eventQueue>>
hookVars == <<settings, merging>>
hostLinkVars == <<linkStage, starts, enrollment, retries, power, ipcVars, hookVars, toolDirs>>

HostLinkInit ==
    /\ linkStage = "off" /\ starts = 0 /\ retries = 0 /\ power = FALSE
    /\ credential = None /\ enrollToken \in {None, "fresh"} /\ known = FALSE
    /\ ipcSocket = None /\ emitAt = [c \in Emits |-> "idle"] /\ eventQueue = <<>>
    /\ settings \in {None, [edits |-> 0, hooked |-> FALSE]} /\ merging = None
    /\ toolDirs = {}

Reaches(from, to) == linkStage = from /\ linkStage' = to

\* The process is gone; what was queued in it is lost, its socket file stays.
Ends ==
    /\ linkStage' = "off"
    /\ retries' = 0 /\ power' = FALSE /\ merging' = None /\ toolDirs' = {}
    /\ ipcSocket' = IF ipcSocket = "live" THEN "stale" ELSE ipcSocket
    /\ emitAt' = [c \in Emits |-> IF emitAt[c] \in {"written", "queued"} THEN "lost" ELSE emitAt[c]]
    /\ eventQueue' = <<>>
    /\ UNCHANGED <<starts, settings>>

-------------------------------------------------------------------------------
(* Start-up                                                                    *)

StartHostd ==
    /\ starts < MaxStarts /\ starts' = starts + 1
    /\ Reaches("off", IF credential = None THEN "enroll" ELSE "setup")
    /\ UNCHANGED <<enrollment, retries, power, ipcVars, hookVars, toolDirs>>

\* The relay takes the token and puts a device on record.
RelayEnrolls ==
    /\ Reaches("enroll", "enrolled")
    /\ enrollToken = "fresh" /\ enrollToken' = "consumed"
    /\ UNCHANGED <<starts, credential, known, retries, power, ipcVars, hookVars, toolDirs>>

SaveCredential ==
    /\ Reaches("enrolled", "setup")
    /\ credential' = AtomicWrite(credential, "whole", TRUE) /\ known' = TRUE
    /\ UNCHANGED <<starts, enrollToken, retries, power, ipcVars, hookVars, toolDirs>>

\* No token, no connection, a token that was used, an answer that is lost, a
\* file that cannot be written or, later, a registry that cannot be read.
StartFails ==
    /\ linkStage \in {"enroll", "enrolled", "setup"}
    /\ Ends
    /\ UNCHANGED enrollment

\* A socket file left by an earlier process is removed first.  Without a socket
\* hostd does its other work.
BindSocket ==
    /\ Reaches("setup", "install")
    /\ ipcSocket' \in {"live", None}
    /\ UNCHANGED <<starts, enrollment, retries, power, emitAt, eventQueue, hookVars, toolDirs>>

ReadSettings ==
    /\ Reaches("install", "merge")
    /\ merging' = IF settings = None THEN [edits |-> 0, hooked |-> FALSE] ELSE settings
    /\ UNCHANGED <<starts, enrollment, retries, power, ipcVars, settings, toolDirs>>

AcquirePower == power' \in BOOLEAN

\* What it read, with the hooks added, replaces the file; nobody is told if the
\* file cannot be read, merged or written.  Then the connection is taken up, with
\* the power assertion where the platform grants one.
InstallHooks ==
    /\ \/ /\ Reaches("merge", "dial")
          /\ \E written \in BOOLEAN :
                settings' = AtomicWrite(settings, [merging EXCEPT !.hooked = TRUE], written)
       \/ Reaches("install", "dial") /\ UNCHANGED settings
    /\ merging' = None
    /\ AcquirePower
    /\ UNCHANGED <<starts, enrollment, retries, ipcVars, toolDirs>>

UserEditsSettings ==
    /\ settings # None => settings.edits < MaxUserEdits
    /\ settings' = IF settings = None THEN [edits |-> 0, hooked |-> FALSE]
                   ELSE [settings EXCEPT !.edits = @ + 1]
    /\ UNCHANGED <<linkStage, starts, enrollment, retries, power, ipcVars, merging, toolDirs>>

Prefers(tool) == toolDirs' = toolDirs \cup {tool}

\* From then on every command finds the tool there first; a check that fails
\* leaves what an earlier one found.
CheckTool(tool) ==
    /\ linkStage \in Trying \cup {"serving", "backoff"}
    /\ Prefers(tool)
    /\ UNCHANGED <<linkStage, starts, enrollment, retries, power, ipcVars, hookVars>>

-------------------------------------------------------------------------------
(* The connection                                                              *)

LinkRest == UNCHANGED <<starts, enrollment, power, ipcVars, hookVars, toolDirs>>

Dial == Reaches("dial", "hello") /\ UNCHANGED retries /\ LinkRest
ReceiveHello == Reaches("hello", "auth") /\ UNCHANGED retries /\ LinkRest
Authenticate == Reaches("auth", "serving") /\ known /\ UNCHANGED retries /\ LinkRest

\* The attempt ended, at whatever point and for whatever reason: refused, cut
\* off, or rejected by a relay that does not know the device.
ConnectionEnds ==
    /\ linkStage \in Trying \cup {"serving"}
    /\ linkStage' = "backoff"
    /\ retries' = IF retries < MaxAttempts THEN retries + 1 ELSE retries
    /\ LinkRest

\* It gives up once the delay has reached its ceiling.
RetryUntilCeiling == Reaches("backoff", "dial") /\ retries < MaxAttempts /\ UNCHANGED retries /\ LinkRest

Retry == Reaches("backoff", "dial") /\ UNCHANGED retries /\ LinkRest

\* Listened for while a connection is tried or held: a signal that comes while
\* the loop sleeps is lost.
Shutdown ==
    /\ linkStage \in Trying \cup {"serving"}
    /\ Ends
    /\ UNCHANGED enrollment

Killed ==
    /\ linkStage \in Running
    /\ Ends
    /\ UNCHANGED enrollment

\* The relay restarts without its records, or the device is revoked.
RelayForgets ==
    /\ known /\ known' = FALSE
    /\ UNCHANGED <<linkStage, starts, credential, enrollToken, retries, power, ipcVars, hookVars, toolDirs>>

-------------------------------------------------------------------------------
(* emit                                                                        *)

EmitTo(c, from, to) ==
    /\ IF from = "idle" THEN Arrives(c, emitAt) ELSE emitAt[c] = from
    /\ emitAt' = [emitAt EXCEPT ![c] = to]
    /\ UNCHANGED <<linkStage, starts, enrollment, retries, power, ipcSocket, hookVars, toolDirs>>

\* Not a session of Choosh's, or not an event: nothing is sent.
EmitIgnored(c) == EmitTo(c, "idle", "ignored") /\ UNCHANGED eventQueue
EmitFails(c) == ipcSocket # "live" /\ EmitTo(c, "idle", "failed") /\ UNCHANGED eventQueue

\* The emitting process is done once the bytes are written.
EmitWrites(c) == ipcSocket = "live" /\ EmitTo(c, "idle", "written") /\ UNCHANGED eventQueue

\* Each emit is handled in a task of its own, which waits for room in the queue.
QueueEvent(c) ==
    /\ EmitTo(c, "written", "queued")
    /\ Len(eventQueue) < EventCapacity
    /\ eventQueue' = Append(eventQueue, c)

\* Events are taken only while a connection is served, before anything else.
TakeEvent ==
    /\ linkStage = "serving" /\ eventQueue # <<>>
    /\ EmitTo(Head(eventQueue), "queued", "taken")
    /\ eventQueue' = Tail(eventQueue)

HostLinkNext ==
    \/ StartHostd \/ RelayEnrolls \/ SaveCredential \/ StartFails \/ BindSocket
    \/ ReadSettings \/ InstallHooks \/ UserEditsSettings \/ \E tool \in Tools : CheckTool(tool)
    \/ Dial \/ ReceiveHello \/ Authenticate \/ ConnectionEnds \/ Retry \/ Shutdown \/ Killed
    \/ RelayForgets \/ TakeEvent
    \/ \E c \in Emits : EmitIgnored(c) \/ EmitFails(c) \/ EmitWrites(c) \/ QueueEvent(c)

HostLinkSpec == HostLinkInit /\ [][HostLinkNext]_hostLinkVars
\* The start-up goes on, the sleep ends, and the relay that is tried again and
\* again answers at last; that it answers at all is needed, nothing times out.
HostLinkFairness ==
    /\ WF_hostLinkVars(BindSocket) /\ WF_hostLinkVars(ReadSettings \/ InstallHooks)
    /\ WF_hostLinkVars(Retry) /\ SF_hostLinkVars(Dial) /\ SF_hostLinkVars(ReceiveHello)
    /\ SF_hostLinkVars(Authenticate)
-------------------------------------------------------------------------------
\* What is on disk, what the process holds, and who waits for what.
HostLinkTypeOK ==
    /\ linkStage \in Running \cup {"off"}
    /\ starts \in 0 .. MaxStarts /\ retries \in 0 .. MaxAttempts
    /\ credential \in {None, "whole"} /\ enrollToken \in {None, "fresh", "consumed"}
    /\ linkStage \in Trying \cup {"serving", "backoff"} => credential # None
    /\ power => linkStage \in Trying \cup {"serving", "backoff"}
    /\ ipcSocket \in {None, "live", "stale"} /\ (ipcSocket = "live" => linkStage \in Running)
    /\ \A i \in DOMAIN eventQueue : emitAt[eventQueue[i]] = "queued"
    /\ Len(eventQueue) <= EventCapacity
    /\ emitAt \in [Emits -> {"idle", "ignored", "failed", "written", "queued", "taken", "lost"}]
    /\ toolDirs \subseteq Tools

\* A hostd that was enrolled gets back to serving, however many connections
\* failed before, unless it was stopped or the relay does not know it any more.
LinkReturns ==
    []<>(linkStage \in {"off", "serving"} \/ ~known)
===============================================================================
