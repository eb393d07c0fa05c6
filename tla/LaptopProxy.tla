------------------------------ MODULE LaptopProxy ------------------------------
(* The programs of choosh-hostd that are clients of the relay: "proxy connect" *)
(* and "dev-exec", which carry the output of a tunnel to their own, and "proxy *)
(* sync", which keeps the fleet's hosts in the user's ssh files (proxy.rs,     *)
(* dev_exec.rs).                                                               *)
EXTENDS HostState, FiniteSets

CONSTANTS MaxLaptopChunks, MaxSyncs, MaxOwnLines, Hosts,
          Tidy      \* files are readable, hold no stray marker, and rest during a sync

Syncs == 1 .. MaxSyncs

ASSUME LaptopProxyAssumption ==
    /\ MaxLaptopChunks \in Nat /\ MaxSyncs \in Nat /\ MaxOwnLines \in Nat
    /\ Hosts \subseteq Nat /\ IsFiniteSet(Hosts) /\ Tidy \in BOOLEAN
    /\ None \notin {"closed", "eof", "lost", "failed", "exit"}

VARIABLES
    program,        \* connect, exec or sync
    phase,          \* dialing, endpoints, opening, requesting, streaming, ended
    ending,        \* None, closed by the far end, eof of the input, lost, failed, exit code of the command
    downstream, upstream,           \* frames on their way to and from the program
    emitted, printed,               \* chunks of output sent by the far end and written
    typed, inputTaken, inputEnd,         \* chunks of input read, and what the far end took
    laptopEnrolled, fleet,
    syncs,          \* what each sync is at, the fleet it was told and the lines it read
    knownHosts, sshConfig,          \* the lines of the two files
    ownLines                        \* lines the user wrote in each of them

carryVars == <<program, phase, ending, downstream, upstream, emitted, printed, typed, inputTaken, inputEnd>>
syncVars == <<laptopEnrolled, fleet, syncs, knownHosts, sshConfig, ownLines>>
laptopVars == <<carryVars, syncVars>>

LaptopStreams == {"out", "err", "in"}
Outputs == IF program = "exec" THEN {"out", "err"} ELSE {"out"}
HostFrames == [is : {"chunk", "exit", "error", "empty"}, of : {"out", "err"}, own : BOOLEAN,
               n : 0 .. MaxLaptopChunks]
Idle == [at |-> "idle", fleet |-> {}, lines |-> <<>>]
Line(kind, n) == [kind |-> kind, n |-> n]
Markers == {Line("begin", 0), Line("end", 0)}

LaptopInit ==
    /\ program \in {"connect", "exec", "sync"} /\ phase = "dialing" /\ ending = None
    /\ downstream = <<>> /\ upstream = <<>>
    /\ emitted = [s \in {"out", "err"} |-> 0] /\ printed = [s \in {"out", "err"} |-> <<>>]
    /\ typed = 0 /\ inputTaken = <<>> /\ inputEnd = "open"
    /\ laptopEnrolled = FALSE /\ fleet = Hosts
    /\ syncs = [p \in Syncs |-> Idle]
    /\ knownHosts = <<>> /\ ownLines = [known |-> 0, config |-> 0]
    /\ sshConfig \in {<<>>} \cup (IF Tidy THEN {} ELSE {<<m>> : m \in Markers})

-------------------------------------------------------------------------------
(* connect and dev-exec                                                        *)

EndWith(how) == phase' = "ended" /\ ending' = how

\* dev-exec knows the host's id and does not ask for the endpoints.
Advances ==
    /\ phase' = CASE phase = "dialing" -> IF program = "exec" THEN "opening" ELSE "endpoints"
                  [] phase = "endpoints" -> "opening"
                  [] phase = "opening" -> IF program = "exec" THEN "requesting" ELSE "streaming"
                  [] phase = "requesting" -> "streaming"
    /\ UNCHANGED ending

\* The relay may refuse, name no such host, or answer something else.  Nothing is
\* read from the input or written to the output before the tunnel
\* is open.
SetUpTunnel ==
    /\ program # "sync"
    /\ phase \in {"dialing", "endpoints", "opening", "requesting"}
    /\ EndWith("failed") \/ Advances
    /\ UNCHANGED <<program, downstream, upstream, emitted, printed, typed, inputTaken, inputEnd, syncVars>>

\* A frame for the tunnel of the program, or a stray one of another tunnel.
FarEndSends(s, own) ==
    /\ phase = "streaming" /\ s \in Outputs
    /\ \A i \in DOMAIN downstream : downstream[i].is = "chunk"
    /\ emitted[s] < MaxLaptopChunks
    /\ own \/ downstream = <<>>
    /\ downstream' = Append(downstream, [is |-> "chunk", of |-> s, own |-> own, n |-> emitted[s] + 1])
    /\ emitted' = IF own THEN [emitted EXCEPT ![s] = @ + 1] ELSE emitted
    /\ UNCHANGED <<program, phase, ending, upstream, printed, typed, inputTaken, inputEnd, syncVars>>

\* An empty frame closes the tunnel; the exit code, or an error in its stead,
\* comes before that one.
FarEndEnds(is) ==
    /\ phase = "streaming" /\ is \in {"empty", "exit", "error"}
    /\ program = "connect" => is = "empty"
    /\ \A i \in DOMAIN downstream : downstream[i].is = "chunk"
    /\ is = "error" => emitted = [s \in {"out", "err"} |-> 0] /\ downstream = <<>>
    /\ downstream' = Append(downstream, [is |-> is, of |-> "out", own |-> TRUE, n |-> 0])
    /\ UNCHANGED <<program, phase, ending, upstream, emitted, printed, typed, inputTaken, inputEnd, syncVars>>

\* With the relay's connection everything under way is lost.
RelayEnds ==
    /\ phase = "streaming"
    /\ EndWith(IF program = "exec" THEN "failed" ELSE "lost")
    /\ downstream' = <<>> /\ upstream' = <<>>
    /\ inputEnd' = "cut"
    /\ UNCHANGED <<program, emitted, printed, typed, inputTaken, syncVars>>

\* pipe_stdio_over_tunnel and run_with_io, one frame.
TakeFrame ==
    /\ phase = "streaming" /\ downstream # <<>>
    /\ downstream' = Tail(downstream)
    /\ LET f == Head(downstream) IN
       CASE f.is = "chunk" /\ f.own ->
              /\ printed' = [printed EXCEPT ![f.of] = Append(@, f.n)]
              /\ UNCHANGED <<phase, ending>>
         [] ~f.own -> UNCHANGED <<phase, ending, printed>>
         [] f.is = "exit" -> EndWith("exit") /\ UNCHANGED printed
         [] f.is = "error" -> EndWith("failed") /\ UNCHANGED printed
         [] OTHER -> EndWith(IF program = "exec" THEN "failed" ELSE "closed") /\ UNCHANGED printed
    /\ UNCHANGED <<program, upstream, emitted, typed, inputTaken, inputEnd, syncVars>>

\* Whoever reads the output is gone.
WriteFails ==
    /\ phase = "streaming" /\ downstream # <<>> /\ Head(downstream).is = "chunk" /\ Head(downstream).own
    /\ EndWith("failed")
    /\ UNCHANGED <<program, downstream, upstream, emitted, printed, typed, inputTaken, inputEnd, syncVars>>

\* dev-exec sends its request and no input.
ReadInput ==
    /\ phase = "streaming" /\ program = "connect" /\ typed < MaxLaptopChunks
    /\ typed' = typed + 1
    /\ upstream' = Append(upstream, typed')
    /\ UNCHANGED <<program, phase, ending, downstream, emitted, printed, inputTaken, inputEnd, syncVars>>

\* At the end of the input the tunnel is closed at once; what the far end would
\* still print is not waited for.
InputEnds ==
    /\ phase = "streaming" /\ program = "connect"
    /\ EndWith("eof")
    /\ upstream' = Append(upstream, 0)
    /\ UNCHANGED <<program, downstream, emitted, printed, typed, inputTaken, inputEnd, syncVars>>

FarEndTakes ==
    /\ upstream # <<>> /\ inputEnd = "open"
    /\ upstream' = Tail(upstream)
    /\ IF Head(upstream) = 0 THEN inputEnd' = "finished" /\ UNCHANGED inputTaken
       ELSE inputTaken' = Append(inputTaken, Head(upstream)) /\ UNCHANGED inputEnd
    /\ UNCHANGED <<program, phase, ending, downstream, emitted, printed, typed, syncVars>>

-------------------------------------------------------------------------------
(* sync, started by enroll, by a timer every 15 minutes, or by hand            *)

\* The token is spent and the credential saved before the first sync.
EnrollLaptop ==
    /\ program = "sync" /\ ~laptopEnrolled
    /\ laptopEnrolled' = TRUE
    /\ UNCHANGED <<carryVars, fleet, syncs, knownHosts, sshConfig, ownLines>>

FleetChanges(hosts) ==
    /\ laptopEnrolled /\ fleet' = hosts
    /\ UNCHANGED <<carryVars, laptopEnrolled, syncs, knownHosts, sshConfig, ownLines>>

StartSync(p) ==
    /\ laptopEnrolled /\ syncs[p] = Idle
    /\ syncs' = [syncs EXCEPT ![p] = [@ EXCEPT !.at = "known", !.fleet = fleet]]
    /\ UNCHANGED <<carryVars, laptopEnrolled, fleet, knownHosts, sshConfig, ownLines>>

ReadLines(p, from, to, lines) ==
    /\ syncs[p].at = from
    /\ \E read \in {lines} \cup (IF Tidy THEN {} ELSE {<<>>}) :
          syncs' = [syncs EXCEPT ![p] = [@ EXCEPT !.at = to, !.lines = read]]
    /\ UNCHANGED <<carryVars, laptopEnrolled, fleet, knownHosts, sshConfig, ownLines>>

\* The numbers of a set, ascending.
InOrder(S) ==
    CHOOSE f \in [1 .. Cardinality(S) -> S] : \A i, j \in 1 .. Cardinality(S) : i < j => f[i] < f[j]
HostLines(hosts) == [i \in 1 .. Cardinality(hosts) |-> Line("host", InOrder(hosts)[i])]
Unmanaged(lines) == {i \in DOMAIN lines : lines[i].kind # "host"}

KnownHostsAppended(lines, hosts) == lines \o HostLines(hosts)
\* update_known_hosts: every managed line goes, those of the fleet come last.
KnownHostsLines(lines, hosts) ==
    [k \in 1 .. Cardinality(Unmanaged(lines)) |-> lines[InOrder(Unmanaged(lines))[k]]] \o HostLines(hosts)

Region(hosts) == <<Line("begin", 0)>> \o HostLines(hosts) \o <<Line("end", 0)>>
FirstAt(lines, line) ==
    CHOOSE i \in DOMAIN lines : lines[i] = line /\ \A j \in 1 .. i - 1 : lines[j] # line
Bracketed(lines) ==
    /\ \A m \in Markers : \E i \in DOMAIN lines : lines[i] = m
    /\ FirstAt(lines, Line("begin", 0)) < FirstAt(lines, Line("end", 0))

\* update_ssh_config: the region is replaced, or added at the end after a blank line.
ConfigLines(lines, hosts) ==
    IF Bracketed(lines)
    THEN SubSeq(lines, 1, FirstAt(lines, Line("begin", 0)) - 1) \o Region(hosts)
         \o SubSeq(lines, FirstAt(lines, Line("end", 0)) + 1, Len(lines))
    ELSE lines \o (IF lines = <<>> THEN <<>> ELSE <<Line("blank", 0)>>) \o Region(hosts)

\* A file that cannot be written ends the sync before the other one.
WriteKnownHosts(p) ==
    /\ syncs[p].at = "known-read"
    /\ \E ok \in BOOLEAN :
          /\ knownHosts' = AtomicWrite(knownHosts, KnownHostsLines(syncs[p].lines, syncs[p].fleet), ok)
          /\ syncs' = [syncs EXCEPT ![p] = IF ok THEN [@ EXCEPT !.at = "config", !.lines = <<>>] ELSE Idle]
    /\ UNCHANGED <<carryVars, laptopEnrolled, fleet, sshConfig, ownLines>>

WriteSshConfig(p) ==
    /\ syncs[p].at = "config-read" /\ syncs' = [syncs EXCEPT ![p] = Idle]
    /\ \E ok \in BOOLEAN :
          sshConfig' = AtomicWrite(sshConfig, ConfigLines(syncs[p].lines, syncs[p].fleet), ok)
    /\ UNCHANGED <<carryVars, laptopEnrolled, fleet, knownHosts, ownLines>>

UserWrites(file) ==
    /\ program = "sync" /\ ownLines[file] < MaxOwnLines
    /\ Tidy => \A p \in Syncs : syncs[p] = Idle
    /\ ownLines' = [ownLines EXCEPT ![file] = @ + 1]
    /\ LET line == Line("own", ownLines'[file])
       IN IF file = "known" THEN knownHosts' = Append(knownHosts, line) /\ UNCHANGED sshConfig
          ELSE sshConfig' = Append(sshConfig, line) /\ UNCHANGED knownHosts
    /\ UNCHANGED <<carryVars, laptopEnrolled, fleet, syncs>>

-------------------------------------------------------------------------------
CarryNext ==
    \/ SetUpTunnel \/ RelayEnds \/ TakeFrame \/ WriteFails \/ ReadInput \/ InputEnds \/ FarEndTakes
    \/ \E s \in {"out", "err"}, own \in BOOLEAN : FarEndSends(s, own)
    \/ \E is \in {"empty", "exit", "error"} : FarEndEnds(is)
SyncNext ==
    \/ EnrollLaptop
    \/ \E hosts \in SUBSET Hosts : FleetChanges(hosts)
    \/ \E file \in {"known", "config"} : UserWrites(file)
    \/ \E p \in Syncs :
          \/ StartSync(p) \/ WriteKnownHosts(p) \/ WriteSshConfig(p)
          \/ ReadLines(p, "known", "known-read", knownHosts)
          \/ ReadLines(p, "config", "config-read", sshConfig)
\* The programs share nothing but the files that syncs write.
LaptopNext == CarryNext \/ SyncNext
LaptopSpec == LaptopInit /\ [][LaptopNext]_laptopVars
-------------------------------------------------------------------------------
\* The program's phase, what it has carried, and its syncs.
LaptopTypeOK ==
    /\ phase \in {"dialing", "endpoints", "opening", "requesting", "streaming", "ended"}
    /\ (ending = None) = (phase # "ended")
    /\ phase \in {"dialing", "endpoints", "opening", "requesting"} =>
          typed = 0 /\ \A s \in {"out", "err"} : printed[s] = <<>>
    /\ inputEnd \in {"open", "finished", "cut"}
    /\ \A i \in DOMAIN downstream : downstream[i] \in HostFrames
    /\ \A p \in Syncs : syncs[p].at \in {"idle", "known", "known-read", "config", "config-read"}

\* What connect and dev-exec write is a TunnelStream of what the far end sends,
\* finished only if it closed the tunnel, or the command's exit code came; the
\* input on its way up is one too.
LaptopCarried == INSTANCE TunnelStream WITH
    Streams <- LaptopStreams,
    sent <- [s \in LaptopStreams |-> IF s = "in" THEN typed ELSE emitted[s]],
    received <- [s \in LaptopStreams |-> IF s = "in" THEN inputTaken ELSE printed[s]],
    end <- [s \in LaptopStreams |->
        IF s = "in" THEN inputEnd ELSE IF ending \in {"closed", "exit"} THEN "finished"
        ELSE IF ending = None THEN "open" ELSE "cut"]
LaptopStreamsKept == LaptopCarried!StreamSpec

\* Whatever the syncs do, and two of them at once: the lines the user wrote stay
\* in each file in their order, and no host is there twice.
OwnLinesKept ==
    \A file \in {"known", "config"} :
        LET lines == IF file = "known" THEN knownHosts ELSE sshConfig
            own == {i \in DOMAIN lines : lines[i].kind = "own"}
        IN
        /\ {lines[i].n : i \in own} = 1 .. ownLines[file]
        /\ \A i, j \in own : i < j => lines[i].n < lines[j].n
        /\ \A i, j \in DOMAIN lines : lines[i] = lines[j] /\ lines[i].kind = "host" => i = j
===============================================================================
