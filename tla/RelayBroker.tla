------------------------------ MODULE RelayBroker ------------------------------
(***************************************************************************)
(* The broker of choosh-relayd (ws.rs, state.rs): authenticated            *)
(* connections, presence, kill switches and tunnels.                       *)
(*                                                                         *)
(* Every WebSocket connection is served by a task of its own.  A task      *)
(* awaits the registry's locks one at a time, so a handler is a sequence   *)
(* of steps between which any other task may run: pc[c] says where the     *)
(* task of connection c is, and one action is one lock acquisition.        *)
(*                                                                         *)
(* The registry's maps are keyed by device, never by connection.           *)
(***************************************************************************)
EXTENDS Naturals, Sequences, FiniteSets

CONSTANTS
    Phones,            \* device ids that hold a phone session
    Devhosts,          \* device ids enrolled as devhost
    Proxies,           \* device ids enrolled as laptop-proxy
    Conns,             \* connections, each accepted once
    TunnelIds,         \* tunnel ids the generator can draw
    OutboundCapacity,  \* OUTBOUND_CHANNEL_CAPACITY
    MaxData,           \* bound: data frames one client sends on one tunnel
    Revocable,         \* bound: the devices the phones revoke
    None               \* "no entry" in a map, "no argument" of a handler

Devices == Phones \cup Devhosts \cup Proxies

ASSUME ClassesDisjoint ==
    /\ Phones \cap Devhosts = {}
    /\ Phones \cap Proxies = {}
    /\ Devhosts \cap Proxies = {}

ASSUME NoneIsFresh ==
    /\ None \notin Devices
    /\ None \notin Conns
    /\ None \notin TunnelIds
    /\ None \notin [requester : Devices, target : Devices]

ASSUME RevocableDevices == Revocable \subseteq Devices

ASSUME BoundsAreNat == OutboundCapacity \in Nat /\ MaxData \in Nat

Purposes == {"ssh", "offload", "pty"}

Tunnel == [requester : Devices, target : Devices]

\* What one connection's task writes to its client.  "ok" is OpenTunnelOk,
\* "reply" any other answer to a request; "data" and "close" are tunnel frames.
NoFrame == [kind |-> "reply", tunnel |-> None, n |-> 0]
Frame == [kind : {"offered", "ok", "data", "close"}, tunnel : TunnelIds, n : 0..MaxData]
           \cup {NoFrame}

VARIABLES
    \* Registry (state.rs)
    revoked,       \* the devices whose EnrolledDevice.revoked is set
    sessions,      \* the phones with an entry in phone_sessions
    online,        \* the keys of online_devices
    connections,   \* [device -> the connection whose sender is registered]
    killSwitches,  \* [device -> the connection whose kill switch is registered]
    tunnels,       \* [tunnel id -> its entry, or None]
    idle,          \* tunnels quiet for TUNNEL_IDLE_TIMEOUT_SECONDS
    \* the connections' tasks
    pc,            \* where the task is
    dev,           \* the device it authenticated
    arg,           \* the handler's local variables
    pending,       \* close notices close_tunnels_for_device still has to send
    killed,        \* kill_rx has resolved (a send, or its sender was dropped)
    outq,          \* the outbound channel
    frame,         \* the frame being written to the socket
    \* reap_idle_tunnels
    reapPending,   \* the tunnels of this sweep whose parties are not told yet
    reapTarget,    \* the tunnel whose requester is told, its target not yet
    \* the clients, and history
    client,        \* [connection -> [tunnel -> what its client knows of it]]
    sent,          \* [connection -> [tunnel -> data frames its client sent]]
    got,           \* [connection -> [tunnel -> last data frame handed to it]]
    drawn          \* the tunnel ids drawn so far

admitted == <<revoked, sessions>>
routes   == <<online, connections, killSwitches>>
table    == <<tunnels, idle>>
registry == <<admitted, routes, table>>
reaper   == <<reapPending, reapTarget>>
clients  == <<client, sent, got, drawn>>
vars     == <<registry, pc, dev, arg, pending, killed, outq, frame, reaper, clients>>

NoArg == [tunnel |-> None, clone |-> None, peer |-> None, n |-> 0]

-----------------------------------------------------------------------------
\* The other end of tunnel entry e for a frame that came from device d.
OtherParty(e, d) == IF d = e.requester THEN e.target ELSE e.requester

IsParty(e, d) == d \in {e.requester, e.target}

\* Which tunnels a requester may open: by its class and the purpose, and only
\* to a devhost that is not revoked.
MayOpen(requester, target, purpose) ==
    /\ \/ requester \in Phones
       \/ requester \in Proxies /\ purpose = "ssh"
       \/ requester \in Devhosts /\ purpose = "offload"
    /\ target \in Devhosts \ revoked

\* (Fault: an off-by-one at the capacity.)
AcceptsOneTooMany(d) ==
    /\ connections[d] # None
    /\ Len(outq[connections[d]]) <= OutboundCapacity

\* try_send on the channel registered for d: it succeeds when there is one and
\* it has room.
Accepts(d) ==
    /\ connections[d] # None
    /\ Len(outq[connections[d]]) < OutboundCapacity

TrySend(d, f) ==
    outq' = IF Accepts(d) THEN [outq EXCEPT ![connections[d]] = Append(@, f)]
                          ELSE outq

CloseFrame(t) == [kind |-> "close", tunnel |-> t, n |-> 0]

\* forward_close is best effort: a full queue or a missing peer drops the notice.
ForwardClose(d, t) == TrySend(d, CloseFrame(t))

\* The task of c goes to label l with its handler's locals set to a.
Goto(c, l, a) ==
    /\ pc' = [pc EXCEPT ![c] = l]
    /\ arg' = [arg EXCEPT ![c] = a]

\* The task answers its client on the socket directly, not through the queue.
Reply(c, f) ==
    /\ Goto(c, "writing", NoArg)
    /\ frame' = [frame EXCEPT ![c] = f]

\* (Fault: the old switch is kept alive by another owner.)
FireSwitchKeptAlive(d) == killed' = killed

\* The kill switch registered for d is taken: whether it is fired or dropped, the
\* receiver of its connection resolves.
FireSwitch(d) == killed' = [c \in Conns |-> killed[c] \/ c = killSwitches[d]]

-----------------------------------------------------------------------------
Init ==
    /\ revoked = {}
    /\ sessions = Phones
    /\ online = {}
    /\ connections = [d \in Devices |-> None]
    /\ killSwitches = [d \in Devices |-> None]
    /\ tunnels = [t \in TunnelIds |-> None]
    /\ idle = {}
    /\ pc = [c \in Conns |-> "new"]
    /\ dev = [c \in Conns |-> None]
    /\ arg = [c \in Conns |-> NoArg]
    /\ pending = [c \in Conns |-> {}]
    /\ killed = [c \in Conns |-> FALSE]
    /\ outq = [c \in Conns |-> <<>>]
    /\ frame = [c \in Conns |-> NoFrame]
    /\ reapPending = {}
    /\ reapTarget = None
    /\ client = [c \in Conns |-> [t \in TunnelIds |-> "unknown"]]
    /\ sent = [c \in Conns |-> [t \in TunnelIds |-> 0]]
    /\ got = [c \in Conns |-> [t \in TunnelIds |-> 0]]
    /\ drawn = {}

-----------------------------------------------------------------------------
(* Coming up: authenticate, mark_online, and the two inserts of            *)
(* serve_authenticated, each under its own lock.                           *)

\* authenticate_device / authenticate_phone succeed for d.
Authenticate(c, d) ==
    /\ pc[c] = "new"
    /\ IF d \in Phones THEN d \in sessions ELSE d \notin revoked
    /\ dev' = [dev EXCEPT ![c] = d]
    /\ pc' = [pc EXCEPT ![c] = "authenticated"]
    /\ UNCHANGED <<registry, arg, pending, killed, outq, frame, reaper, clients>>

MarkOnline(c) ==
    /\ pc[c] = "authenticated"
    /\ online' = online \cup {dev[c]}
    /\ pc' = [pc EXCEPT ![c] = "online"]
    /\ UNCHANGED <<admitted, connections, killSwitches, table, dev, arg, pending,
                   killed, outq, frame, reaper, clients>>

\* An earlier connection's sender is overwritten; that connection keeps its
\* receiver and what is queued in it.
RegisterConnection(c) ==
    /\ pc[c] = "online"
    /\ connections' = [connections EXCEPT ![dev[c]] = c]
    /\ pc' = [pc EXCEPT ![c] = "routed"]
    /\ UNCHANGED <<admitted, online, killSwitches, table, dev, arg, pending,
                   killed, outq, frame, reaper, clients>>

\* (Fault: the switch is registered only if the device has none.)
RegisterKillSwitchIfVacant(c) ==
    /\ pc[c] = "routed"
    /\ killSwitches' = [killSwitches EXCEPT ![dev[c]] = IF @ = None THEN c ELSE @]
    /\ pc' = [pc EXCEPT ![c] = "serving"]
    /\ UNCHANGED <<admitted, online, connections, table, dev, arg, pending, killed,
                   outq, frame, reaper, clients>>

\* The kill sender that was registered for the device, if any, is dropped.
RegisterKillSwitch(c) ==
    /\ pc[c] = "routed"
    /\ killSwitches' = [killSwitches EXCEPT ![dev[c]] = c]
    /\ FireSwitch(dev[c])
    /\ pc' = [pc EXCEPT ![c] = "serving"]
    /\ UNCHANGED <<admitted, online, connections, table, dev, arg, pending, outq,
                   frame, reaper, clients>>

-----------------------------------------------------------------------------
(* serve_authenticated_loop: the outbound arm.                             *)

\* The arm takes a frame and awaits socket.send; nothing else is polled until
\* that send returns.
TakeOutbound(c) ==
    /\ pc[c] = "serving"
    /\ outq[c] # <<>>
    /\ frame' = [frame EXCEPT ![c] = Head(outq[c])]
    /\ outq' = [outq EXCEPT ![c] = Tail(@)]
    /\ pc' = [pc EXCEPT ![c] = "writing"]
    /\ UNCHANGED <<registry, dev, arg, pending, killed, reaper, clients>>

\* The client reads the frame being written.
Deliver(c) ==
    /\ pc[c] = "writing"
    /\ LET f == frame[c] IN
         /\ client' = CASE f.kind \in {"ok", "offered"} ->
                               [client EXCEPT ![c][f.tunnel] = "open"]
                        [] f.kind = "close" /\ client[c][f.tunnel] = "open" ->
                               [client EXCEPT ![c][f.tunnel] = "closed"]
                        [] OTHER -> client
         /\ got' = IF f.kind = "data"
                   THEN [got EXCEPT ![c][f.tunnel] = f.n]
                   ELSE got
    /\ frame' = [frame EXCEPT ![c] = NoFrame]
    /\ pc' = [pc EXCEPT ![c] = "serving"]
    /\ UNCHANGED <<registry, dev, arg, pending, killed, outq, reaper, sent, drawn>>

-----------------------------------------------------------------------------
(* The open-tunnel request: check_open_tunnel_permitted and                *)
(* handle_open_tunnel.                                                     *)

\* The devices lock.  (Bound: no more requests in progress than ids left; no
\* device asks for a tunnel to itself.)
CheckPermitted(c, target, purpose) ==
    /\ pc[c] = "serving"
    /\ target # dev[c]
    /\ Cardinality({k \in Conns : pc[k] \in {"permitted", "inserting"}})
         < Cardinality(TunnelIds \ drawn)
    /\ IF MayOpen(dev[c], target, purpose)
       THEN /\ Goto(c, "permitted", [NoArg EXCEPT !.peer = target])
            /\ UNCHANGED frame
       ELSE Reply(c, NoFrame)
    /\ UNCHANGED <<registry, dev, pending, killed, outq, reaper, clients>>

\* The online_devices lock.
CheckTargetOnline(c) ==
    /\ pc[c] = "permitted"
    /\ IF arg[c].peer \in online
       THEN /\ Goto(c, "inserting", arg[c])
            /\ UNCHANGED frame
       ELSE Reply(c, NoFrame)
    /\ UNCHANGED <<registry, dev, pending, killed, outq, reaper, clients>>

\* The tunnels lock.  An id is 8 random bytes: one never drawn before.
InsertTunnel(c, t) ==
    /\ pc[c] = "inserting"
    /\ t \notin drawn
    /\ drawn' = drawn \cup {t}
    /\ client' = [client EXCEPT ![c][t] = "asked"]
    /\ tunnels' = [tunnels EXCEPT ![t] =
                     [requester |-> dev[c], target |-> arg[c].peer]]
    /\ Goto(c, "offering", [arg[c] EXCEPT !.tunnel = t])
    /\ UNCHANGED <<admitted, routes, idle, dev, pending, killed, outq, frame,
                   reaper, sent, got>>

\* (Fault: the request is never answered.)
AnswerOpenForgotten(c) == Goto(c, "serving", NoArg) /\ UNCHANGED frame

\* OpenTunnelOk goes out before the task polls anything else.
AnswerOpen(c) == Reply(c, [kind |-> "ok", tunnel |-> arg[c].tunnel, n |-> 0])

\* push_tunnel_offered (the connections lock), then OpenTunnelOk.
PushTunnelOffered(c) ==
    /\ pc[c] = "offering"
    /\ TrySend(arg[c].peer, [kind |-> "offered", tunnel |-> arg[c].tunnel, n |-> 0])
    /\ AnswerOpen(c)
    /\ UNCHANGED <<registry, dev, pending, killed, reaper, clients>>

-----------------------------------------------------------------------------
(* handle_tunnel_frame.  A client sends on the tunnels it holds open; the  *)
(* relay may have closed them since.                                       *)

\* The client's next data frame is read, and the tunnel's entry cloned.
RecvData(c, t) ==
    /\ pc[c] = "serving"
    /\ client[c][t] = "open"
    /\ sent[c][t] < MaxData
    /\ sent' = [sent EXCEPT ![c][t] = @ + 1]
    /\ IF tunnels[t] # None /\ IsParty(tunnels[t], dev[c])
       THEN Goto(c, "touching", [tunnel |-> t, clone |-> tunnels[t],
                                 peer |-> OtherParty(tunnels[t], dev[c]),
                                 n |-> sent[c][t] + 1])
       ELSE UNCHANGED <<pc, arg>>
    /\ UNCHANGED <<registry, dev, pending, killed, outq, frame, reaper, client, got, drawn>>

\* (Fault: the cloned entry is written back.)
TouchTunnelByInsert(c) ==
    /\ pc[c] = "touching"
    /\ tunnels' = [tunnels EXCEPT ![arg[c].tunnel] = arg[c].clone]
    /\ idle' = idle \ {arg[c].tunnel}
    /\ Goto(c, "forwarding", arg[c])
    /\ UNCHANGED <<admitted, routes, dev, pending, killed, outq, frame, reaper,
                   clients>>

\* last_activity_unix is refreshed if the entry is still there.
TouchTunnel(c) ==
    /\ pc[c] = "touching"
    /\ idle' = idle \ {arg[c].tunnel}
    /\ Goto(c, "forwarding", arg[c])
    /\ UNCHANGED <<admitted, routes, tunnels, dev, pending, killed, outq, frame,
                   reaper, clients>>

\* (Fault: a frame that does not fit is left out.)
AfterForwardIgnoringFull(c) == Goto(c, "serving", NoArg)

\* A peer that is gone or whose queue is full costs the tunnel.
AfterForward(c) ==
    IF Accepts(arg[c].peer) THEN Goto(c, "serving", NoArg)
                            ELSE Goto(c, "dropping", arg[c])

\* forward_data.
ForwardData(c) ==
    /\ pc[c] = "forwarding"
    /\ TrySend(arg[c].peer, [kind |-> "data", tunnel |-> arg[c].tunnel, n |-> arg[c].n])
    /\ AfterForward(c)
    /\ UNCHANGED <<registry, dev, pending, killed, frame, reaper, clients>>

DropTunnel(c) ==
    /\ pc[c] = "dropping"
    /\ tunnels' = [tunnels EXCEPT ![arg[c].tunnel] = None]
    /\ idle' = idle \ {arg[c].tunnel}
    /\ Goto(c, "closing_requester", arg[c])
    /\ UNCHANGED <<admitted, routes, dev, pending, killed, outq, frame, reaper,
                   clients>>

CloseRequester(c) ==
    /\ pc[c] = "closing_requester"
    /\ ForwardClose(arg[c].clone.requester, arg[c].tunnel)
    /\ Goto(c, "closing_other", [arg[c] EXCEPT !.peer = arg[c].clone.target])
    /\ UNCHANGED <<registry, dev, pending, killed, frame, reaper, clients>>

\* The client's close signal is read, and the tunnel's entry cloned.
RecvClose(c, t) ==
    /\ pc[c] = "serving"
    /\ client[c][t] = "open"
    /\ client' = [client EXCEPT ![c][t] = "closed"]
    /\ IF tunnels[t] # None /\ IsParty(tunnels[t], dev[c])
       THEN Goto(c, "removing", [tunnel |-> t, clone |-> tunnels[t],
                                 peer |-> OtherParty(tunnels[t], dev[c]), n |-> 0])
       ELSE UNCHANGED <<pc, arg>>
    /\ UNCHANGED <<registry, dev, pending, killed, outq, frame, reaper, sent, got, drawn>>

RemoveTunnel(c) ==
    /\ pc[c] = "removing"
    /\ tunnels' = [tunnels EXCEPT ![arg[c].tunnel] = None]
    /\ idle' = idle \ {arg[c].tunnel}
    /\ Goto(c, "closing_other", arg[c])
    /\ UNCHANGED <<admitted, routes, dev, pending, killed, outq, frame, reaper,
                   clients>>

CloseOther(c) ==
    /\ pc[c] = "closing_other"
    /\ ForwardClose(arg[c].peer, arg[c].tunnel)
    /\ Goto(c, "serving", NoArg)
    /\ UNCHANGED <<registry, dev, pending, killed, frame, reaper, clients>>

-----------------------------------------------------------------------------
(* revoke_device, revoke_phone_session and kill_connection.                *)

\* The devices lock.  A device with no entry is answered with unknown_device.
RevokeDevice(c, d) ==
    /\ pc[c] = "serving"
    /\ dev[c] \in Phones
    /\ d \in Revocable \ Phones
    /\ revoked' = revoked \cup {d}
    /\ Goto(c, "killing", [NoArg EXCEPT !.peer = d])
    /\ UNCHANGED <<sessions, routes, table, dev, pending, killed, outq, frame,
                   reaper, clients>>

\* The phone_sessions lock.  The connection is killed whether or not a session
\* was found.
RevokePhoneSession(c, d) ==
    /\ pc[c] = "serving"
    /\ dev[c] \in Phones
    /\ d \in Revocable
    /\ sessions' = sessions \ {d}
    /\ Goto(c, "killing", [NoArg EXCEPT !.peer = d])
    /\ UNCHANGED <<revoked, routes, table, dev, pending, killed, outq, frame,
                   reaper, clients>>

\* The kill_switches lock: the switch is taken out and fired.
KillConnection(c) ==
    /\ pc[c] = "killing"
    /\ FireSwitch(arg[c].peer)
    /\ killSwitches' = [killSwitches EXCEPT ![arg[c].peer] = None]
    /\ Reply(c, NoFrame)
    /\ UNCHANGED <<admitted, online, connections, table, dev, pending, outq,
                   reaper, clients>>

-----------------------------------------------------------------------------
(* Going down: the exits of serve_authenticated_loop, the deregistration   *)
(* after it, close_tunnels_for_device and mark_offline.                    *)

\* (Fault: the loop does not stop.)
ObserveKillIgnored(c) == pc[c] = "serving" /\ killed[c] /\ UNCHANGED vars

\* The kill_rx arm.
ObserveKill(c) ==
    /\ pc[c] = "serving"
    /\ killed[c]
    /\ Goto(c, "ended", NoArg)
    /\ UNCHANGED <<registry, dev, pending, killed, outq, frame, reaper, clients>>

\* The client hangs up, the socket fails, the idle timeout fires, or a frame is
\* malformed, oversized or over the rate limit.
EndConnection(c) ==
    /\ pc[c] = "serving"
    /\ Goto(c, "ended", NoArg)
    /\ UNCHANGED <<registry, dev, pending, killed, outq, frame, reaper, clients>>

\* socket.send fails.
FailWrite(c) ==
    /\ pc[c] = "writing"
    /\ frame' = [frame EXCEPT ![c] = NoFrame]
    /\ Goto(c, "ended", NoArg)
    /\ UNCHANGED <<registry, dev, pending, killed, outq, reaper, clients>>

\* The device's entry is removed, whichever connection it is.
RemoveConnection(c) ==
    /\ pc[c] = "ended"
    /\ connections' = [connections EXCEPT ![dev[c]] = None]
    /\ pc' = [pc EXCEPT ![c] = "unrouted"]
    /\ UNCHANGED <<admitted, online, killSwitches, table, dev, arg, pending,
                   killed, outq, frame, reaper, clients>>

\* Likewise.
RemoveKillSwitch(c) ==
    /\ pc[c] = "unrouted"
    /\ FireSwitch(dev[c])
    /\ killSwitches' = [killSwitches EXCEPT ![dev[c]] = None]
    /\ pc' = [pc EXCEPT ![c] = "unkillable"]
    /\ UNCHANGED <<admitted, online, connections, table, dev, arg, pending, outq,
                   frame, reaper, clients>>

TunnelsOf(d) == {t \in TunnelIds : tunnels[t] # None /\ IsParty(tunnels[t], d)}

\* close_tunnels_for_device: all entries go under one lock ...
CloseTunnels(c) ==
    /\ pc[c] = "unkillable"
    /\ pending' = [pending EXCEPT ![c] =
                     {[to |-> OtherParty(tunnels[t], dev[c]), tunnel |-> t] :
                        t \in TunnelsOf(dev[c])}]
    /\ tunnels' = [t \in TunnelIds |-> IF t \in TunnelsOf(dev[c]) THEN None ELSE tunnels[t]]
    /\ idle' = idle \ TunnelsOf(dev[c])
    /\ pc' = [pc EXCEPT ![c] = "notifying"]
    /\ UNCHANGED <<admitted, routes, dev, arg, killed, outq, frame, reaper, clients>>

\* ... and the survivors are told one by one, in the map's order.
NotifySurvivor(c, notice) ==
    /\ pc[c] = "notifying"
    /\ notice \in pending[c]
    /\ ForwardClose(notice.to, notice.tunnel)
    /\ pending' = [pending EXCEPT ![c] = @ \ {notice}]
    /\ UNCHANGED <<registry, pc, dev, arg, killed, frame, reaper, clients>>

\* (Fault: a killed connection skips mark_offline.)
OfflineUnlessKilled(c) == IF killed[c] THEN online ELSE online \ {dev[c]}

\* mark_offline.
Offline(c) == online \ {dev[c]}

\* serve_authenticated returns, dropping the receivers, and the device goes
\* offline.  The task's locals and its client's connection end here.
MarkOffline(c) ==
    /\ pc[c] = "notifying"
    /\ pending[c] = {}
    /\ online' = Offline(c)
    /\ outq' = [outq EXCEPT ![c] = <<>>]
    /\ killed' = [killed EXCEPT ![c] = FALSE]
    /\ dev' = [dev EXCEPT ![c] = None]
    /\ pc' = [pc EXCEPT ![c] = "done"]
    /\ client' = [client EXCEPT ![c] = [t \in TunnelIds |-> "unknown"]]
    /\ sent' = [sent EXCEPT ![c] = [t \in TunnelIds |-> 0]]
    /\ got' = [got EXCEPT ![c] = [t \in TunnelIds |-> 0]]
    /\ UNCHANGED <<admitted, connections, killSwitches, table, arg, pending, frame,
                   reaper, drawn>>

-----------------------------------------------------------------------------
(* reap_idle_tunnels.                                                      *)

\* A tunnel has seen no data for TUNNEL_IDLE_TIMEOUT_SECONDS.
Age(t) ==
    /\ tunnels[t] # None
    /\ t \notin idle
    /\ idle' = idle \cup {t}
    /\ UNCHANGED <<admitted, routes, tunnels, pc, dev, arg, pending, killed, outq,
                   frame, reaper, clients>>

\* (Fault: a tunnel without a target is thought closed already.)
ExpiredOfOnline == {t \in idle : tunnels[t].target \in online}

\* expired_tunnel_ids.
Expired == idle

\* A tick: every expired entry goes under one lock.
Reap ==
    /\ reapPending = {} /\ reapTarget = None
    /\ Expired # {}
    /\ reapPending' = {[tunnel |-> t, entry |-> tunnels[t]] : t \in Expired}
    /\ tunnels' = [t \in TunnelIds |-> IF t \in Expired THEN None ELSE tunnels[t]]
    /\ idle' = idle \ Expired
    /\ UNCHANGED <<admitted, routes, reapTarget, pc, dev, arg, pending, killed,
                   outq, frame, clients>>

ReapTellRequester(r) ==
    /\ r \in reapPending
    /\ reapTarget = None
    /\ ForwardClose(r.entry.requester, r.tunnel)
    /\ reapPending' = reapPending \ {r}
    /\ reapTarget' = r
    /\ UNCHANGED <<registry, pc, dev, arg, pending, killed, frame, clients>>

ReapTellTarget ==
    /\ reapTarget # None
    /\ ForwardClose(reapTarget.entry.target, reapTarget.tunnel)
    /\ reapTarget' = None
    /\ UNCHANGED <<registry, pc, dev, arg, pending, killed, frame, reapPending, clients>>

-----------------------------------------------------------------------------
ComeUp(c) ==
    \/ MarkOnline(c) \/ RegisterConnection(c) \/ RegisterKillSwitch(c)

Handle(c) ==
    \/ CheckTargetOnline(c)
    \/ \E t \in TunnelIds : InsertTunnel(c, t)
    \/ PushTunnelOffered(c)
    \/ TouchTunnel(c) \/ ForwardData(c) \/ DropTunnel(c)
    \/ CloseRequester(c) \/ RemoveTunnel(c) \/ CloseOther(c)
    \/ KillConnection(c)

GoDown(c) ==
    \/ RemoveConnection(c) \/ RemoveKillSwitch(c) \/ CloseTunnels(c)
    \/ \E notice \in pending[c] : NotifySurvivor(c, notice)
    \/ MarkOffline(c)

\* What a client or the network decides.
Environment(c) ==
    \/ \E d \in Devices : Authenticate(c, d)
    \/ \E d \in Devices, p \in Purposes : CheckPermitted(c, d, p)
    \/ \E t \in TunnelIds : RecvData(c, t) \/ RecvClose(c, t)
    \/ \E d \in Devices : RevokeDevice(c, d) \/ RevokePhoneSession(c, d)
    \/ EndConnection(c)

Reaper ==
    \/ Reap \/ ReapTellTarget
    \/ \E r \in reapPending : ReapTellRequester(r)

Next ==
    \/ \E c \in Conns :
         \/ ComeUp(c) \/ Handle(c) \/ GoDown(c) \/ Environment(c)
         \/ TakeOutbound(c) \/ Deliver(c) \/ FailWrite(c) \/ ObserveKill(c)
    \/ Reaper
    \/ \E t \in TunnelIds : Age(t)

Spec == Init /\ [][Next]_vars

\* A task whose lock is granted runs on; tokio::select! polls its arms in random
\* order, so a kill that has fired is picked in the end; a client reads what is
\* written to it, or the socket fails.
TaskFairness(c) ==
    /\ WF_vars(ComeUp(c) \/ Handle(c) \/ GoDown(c))
    /\ SF_vars(ObserveKill(c))
    /\ SF_vars(TakeOutbound(c))
    /\ WF_vars(Deliver(c) \/ FailWrite(c))

FairSpec ==
    /\ Spec
    /\ \A c \in Conns : TaskFairness(c)
    /\ WF_vars(Reaper)
    /\ \A t \in TunnelIds : WF_vars(Age(t))

-----------------------------------------------------------------------------
(* Properties.                                                             *)

\* The labels of a task inside serve_authenticated_loop.
Loop == {"serving", "writing", "permitted", "inserting", "offering", "touching",
         "forwarding", "dropping", "closing_requester", "removing",
         "closing_other", "killing"}

Labels == Loop \cup {"new", "authenticated", "online", "routed", "ended",
                     "unrouted", "unkillable", "notifying", "done"}

Arg == [tunnel : TunnelIds \cup {None}, clone : Tunnel \cup {None},
        peer : Devices \cup {None}, n : 0..MaxData]

\* What a task's locals hold at each of its labels.
TaskOK(c) ==
    /\ pc[c] \notin {"new", "done"} => dev[c] \in Devices
    /\ pc[c] \in {"permitted", "inserting", "killing"} => arg[c].peer \in Devices
    /\ pc[c] \in {"offering", "touching", "forwarding", "dropping", "closing_requester",
                  "removing", "closing_other"} =>
         arg[c].peer \in Devices /\ arg[c].tunnel \in TunnelIds
    /\ pc[c] \in {"touching", "forwarding", "dropping", "closing_requester"} =>
         arg[c].clone \in Tunnel

\* The types of all variables.
TypeOK ==
    /\ revoked \subseteq Devices
    /\ sessions \subseteq Phones
    /\ online \subseteq Devices
    /\ connections \in [Devices -> Conns \cup {None}]
    /\ killSwitches \in [Devices -> Conns \cup {None}]
    /\ tunnels \in [TunnelIds -> Tunnel \cup {None}]
    /\ idle \subseteq {t \in TunnelIds : tunnels[t] # None}
    /\ pc \in [Conns -> Labels]
    /\ dev \in [Conns -> Devices \cup {None}]
    /\ arg \in [Conns -> Arg]
    /\ \A c \in Conns : TaskOK(c)
    /\ pending \in [Conns -> SUBSET [to : Devices, tunnel : TunnelIds]]
    /\ killed \in [Conns -> BOOLEAN]
    /\ outq \in [Conns -> Seq(Frame)]
    /\ \A c \in Conns : Len(outq[c]) <= OutboundCapacity
    /\ frame \in [Conns -> Frame]
    /\ reapPending \subseteq [tunnel : TunnelIds, entry : Tunnel]
    /\ reapTarget \in [tunnel : TunnelIds, entry : Tunnel] \cup {None}
    /\ client \in [Conns -> [TunnelIds -> {"unknown", "asked", "open", "closed"}]]
    /\ sent \in [Conns -> [TunnelIds -> 0..MaxData]]
    /\ got \in [Conns -> [TunnelIds -> 0..MaxData]]
    /\ drawn \subseteq TunnelIds

\* A connection that serves its device and has not been told to stop.
Live(c) == pc[c] \in Loop /\ ~killed[c]

\* "Each Identity holds exactly one persistent connection": a device that
\* reconnects before its old connection is torn down never has two connections
\* that both go on serving.
AtMostOneLive ==
    \A c, k \in Conns : Live(c) /\ Live(k) /\ dev[c] = dev[k] => c = k

\* kill_connection can always reach the connection it is meant for: a live
\* connection's kill switch is the one registered for its device.
LiveIsKillable ==
    \A c \in Conns : Live(c) => killSwitches[dev[c]] = c

\* The registry holds no entry nobody will remove: a device in online_devices has
\* a task that has yet to run mark_offline; a registered sender or kill switch
\* belongs to a task of that device whose receiver still exists.
NoGhostEntries ==
    \A d \in Devices :
        /\ d \in online =>
             \E c \in Conns : dev[c] = d /\ pc[c] \notin {"new", "authenticated", "done"}
        /\ connections[d] # None =>
             /\ dev[connections[d]] = d
             /\ pc[connections[d]] \in Loop \cup {"routed", "ended"}
        /\ killSwitches[d] # None =>
             /\ dev[killSwitches[d]] = d
             /\ pc[killSwitches[d]] \in Loop \cup {"ended", "unrouted"}

\* "A tunnel ID is unique and MUST NOT be reused after close", "a tunnel's closure
\* is final": no step, however stale the entry its handler has cloned, brings a
\* closed tunnel back.
ClosedStaysClosed ==
    [][\A t \in drawn : tunnels[t] = None => tunnels'[t] = None]_vars

\* A tunnel is a stream: a client that was told of a tunnel is handed the data of
\* its other end in order and without gaps.  The relay closes a tunnel when it
\* cannot pass a frame on; it never leaves one out.
GaplessDelivery ==
    [][\A c \in Conns, t \in TunnelIds :
         pc'[c] # "done" /\ got'[c][t] # got[c][t] /\ client[c][t] # "unknown" =>
             got'[c][t] = got[c][t] + 1]_vars

\* The requester is told the tunnel's id before it is handed the tunnel's data,
\* although the target may answer as soon as the offer is queued.
AnswerBeforeData ==
    \A c \in Conns, t \in TunnelIds : client[c][t] = "asked" => got[c][t] = 0

\* A kill always ends the connection, its tunnels and its presence.
KillEndsConnection ==
    \A c \in Conns : killed[c] ~> pc[c] = "done"

\* The device has a connection, or is on its way from or to having one.
Present(d) == \E c \in Conns : dev[c] = d

\* "A tunnel whose destination goes offline is closed (not left half-open)": when a
\* party leaves, the entry goes in the end, even one inserted after the party's
\* own tear-down had run.
DepartedTunnelsClose ==
    \A t \in TunnelIds, d \in Devices :
        (tunnels[t] # None /\ IsParty(tunnels[t], d) /\ ~Present(d))
            ~> (tunnels[t] = None \/ Present(d))

-----------------------------------------------------------------------------
(* What the documents say and the code does not do.                        *)

\* state.rs: online_devices has every online device, "there is no partial state",
\* and connections "every currently-authenticated connection".
LiveIsRegistered ==
    \A c \in Conns :
        Live(c) => dev[c] \in online /\ connections[dev[c]] # None

\* ws.rs and auth-and-enrollment.md: a revoke closes the target's live connection
\* immediately.  Once no revoke is in progress, no revoked device is served.
RevokedIsCut ==
    (\A c \in Conns : pc[c] # "killing") =>
        \A c \in Conns : dev[c] \in revoked => ~Live(c)

\* relay-protocol.md: when a tunnel is closed, the surviving endpoint sees an
\* ordinary close.
SurvivorLearns ==
    \A c \in Conns, t \in TunnelIds :
        (client[c][t] = "open" /\ tunnels[t] = None)
            ~> (client[c][t] # "open" \/ pc[c] = "done")
=============================================================================
