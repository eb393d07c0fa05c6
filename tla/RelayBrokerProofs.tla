--------------------------- MODULE RelayBrokerProofs ---------------------------
(***************************************************************************)
(* Theorems about RelayBroker, for every fleet, number of connections,     *)
(* tunnel ids and queue capacity.                                          *)
(***************************************************************************)
EXTENDS RelayBroker, TLAPS

(* TrySend keeps every outbound channel a bounded queue of frames.  *)
LEMMA TrySendType ==
    ASSUME TypeOK, NEW d \in Devices, NEW f \in Frame, TrySend(d, f)
    PROVE  /\ outq' \in [Conns -> Seq(Frame)]
           /\ \A c \in Conns : Len(outq'[c]) <= OutboundCapacity
<1>1. CASE ~Accepts(d)
  BY <1>1 DEF TypeOK, TrySend
<1>2. CASE Accepts(d)
  <2>1. connections[d] \in Conns
    BY <1>2 DEF TypeOK, Accepts
  <2> DEFINE k == connections[d]
  <2>2. outq' = [outq EXCEPT ![k] = Append(outq[k], f)]
    BY <1>2 DEF TrySend
  <2>3. outq[k] \in Seq(Frame) /\ Len(outq[k]) < OutboundCapacity
    BY <1>2, <2>1 DEF TypeOK, Accepts
  <2>4. /\ Append(outq[k], f) \in Seq(Frame)
        /\ Len(Append(outq[k], f)) <= OutboundCapacity
    BY <2>3, BoundsAreNat
  <2> QED
    BY <2>1, <2>2, <2>4 DEF TypeOK
<1> QED
  BY <1>1, <1>2

(* A task's move to label l with locals a keeps pc, arg and every task's locals typed. *)
LEMMA GotoType ==
    ASSUME TypeOK, NEW c \in Conns, NEW l \in Labels, NEW a \in Arg, Goto(c, l, a),
           dev' = dev, pc[c] \notin {"new", "done"},
           l \in {"permitted", "inserting", "killing"} => a.peer \in Devices,
           l \in {"offering", "touching", "forwarding", "dropping", "closing_requester",
                  "removing", "closing_other"} => a.peer \in Devices /\ a.tunnel \in TunnelIds,
           l \in {"touching", "forwarding", "dropping", "closing_requester"} => a.clone \in Tunnel
    PROVE  /\ pc' \in [Conns -> Labels]
           /\ arg' \in [Conns -> Arg]
           /\ \A k \in Conns : TaskOK(k)'
  BY DEF TypeOK, Goto, TaskOK

(* The relay starts, with an empty registry, in a well-typed state. *)
LEMMA InitType == Init => TypeOK
<1> SUFFICES ASSUME Init PROVE TypeOK
  OBVIOUS
<1> USE BoundsAreNat
<1>1. NoArg \in Arg /\ NoFrame \in Frame
  BY DEF NoArg, Arg, NoFrame, Frame
<1> QED
  BY <1>1 DEF Init, TypeOK, TaskOK, Labels, Loop, Devices

(* Every action of a task keeps the types. *)
LEMMA ComeUpType == ASSUME TypeOK, NEW c \in Conns, ComeUp(c) PROVE TypeOK'
<1>1. CASE MarkOnline(c)
  BY <1>1 DEF TypeOK, MarkOnline, TaskOK, Labels, table, reaper, clients, admitted
<1>2. CASE RegisterConnection(c)
  BY <1>2 DEF TypeOK, RegisterConnection, TaskOK, Labels, table, reaper, clients, admitted
<1>3. CASE RegisterKillSwitch(c)
  BY <1>3 DEF TypeOK, RegisterKillSwitch, FireSwitch, TaskOK, Labels, Loop, table, reaper,
              clients, admitted
<1> QED
  BY <1>1, <1>2, <1>3 DEF ComeUp

(* An answer to the client does too. *)
LEMMA ReplyType ==
    ASSUME TypeOK, NEW c \in Conns, NEW f \in Frame, Reply(c, f),
           dev' = dev, pc[c] \notin {"new", "done"}
    PROVE  /\ pc' \in [Conns -> Labels]
           /\ arg' \in [Conns -> Arg]
           /\ \A k \in Conns : TaskOK(k)'
           /\ frame' \in [Conns -> Frame]
<1>1. NoArg \in Arg /\ "writing" \in Labels
  BY BoundsAreNat DEF NoArg, Arg, Labels, Loop
<1>2. frame' \in [Conns -> Frame]
  BY DEF Reply, TypeOK
<1> QED
  BY <1>1, <1>2, GotoType DEF Reply

(* Every step of handle_control_frame and handle_tunnel_frame keeps the types. *)
LEMMA HandleType == ASSUME TypeOK, NEW c \in Conns, Handle(c) PROVE TypeOK'
<1> USE BoundsAreNat
<1> USE DEF registry, admitted, routes, table, reaper, clients
<1>0. /\ NoArg \in Arg /\ NoFrame \in Frame
      /\ \A t \in TunnelIds : CloseFrame(t) \in Frame
      /\ Loop \subseteq Labels /\ arg[c] \in Arg /\ TaskOK(c)
  BY DEF NoArg, Arg, NoFrame, Frame, CloseFrame, Labels, Loop, TypeOK
<1>1. CASE CheckTargetOnline(c)
  <2>1. CASE Goto(c, "inserting", arg[c]) /\ UNCHANGED frame
    <3>1. pc' \in [Conns -> Labels] /\ arg' \in [Conns -> Arg] /\ \A k \in Conns : TaskOK(k)'
      BY <1>0, <1>1, <2>1, GotoType DEF TaskOK, CheckTargetOnline, Loop
    <3> QED
      BY <1>1, <2>1, <3>1 DEF CheckTargetOnline, TypeOK
  <2>2. CASE Reply(c, NoFrame)
    BY <1>0, <1>1, <2>2, ReplyType DEF CheckTargetOnline, TypeOK
  <2> QED
    BY <1>1, <2>1, <2>2 DEF CheckTargetOnline
<1>2. ASSUME NEW t \in TunnelIds, InsertTunnel(c, t) PROVE TypeOK'
  <2> DEFINE a == [arg[c] EXCEPT !.tunnel = t]
  <2>1. a \in Arg /\ a.peer \in Devices /\ a.tunnel \in TunnelIds
    BY <1>0, <1>2 DEF Arg, TaskOK, InsertTunnel
  <2>2. pc' \in [Conns -> Labels] /\ arg' \in [Conns -> Arg] /\ \A k \in Conns : TaskOK(k)'
    <3> HIDE DEF a
    <3>1. Goto(c, "offering", a) /\ dev' = dev /\ pc[c] = "inserting"
      BY <1>2 DEF InsertTunnel, a
    <3> QED
      BY <1>0, <2>1, <3>1, GotoType DEF Loop
  <2>3. [requester |-> dev[c], target |-> arg[c].peer] \in Tunnel
    BY <1>0, <1>2 DEF Tunnel, TaskOK, InsertTunnel, TypeOK
  <2>4. tunnels' \in [TunnelIds -> Tunnel \cup {None}]
        /\ idle' \subseteq {u \in TunnelIds : tunnels'[u] # None}
    BY <1>2, <2>3, NoneIsFresh DEF InsertTunnel, TypeOK, Tunnel
  <2> QED
    BY <1>2, <2>2, <2>4 DEF InsertTunnel, TypeOK
<1>3. CASE PushTunnelOffered(c)
  <2> DEFINE offer == [kind |-> "offered", tunnel |-> arg[c].tunnel, n |-> 0]
             ok == [kind |-> "ok", tunnel |-> arg[c].tunnel, n |-> 0]
  <2>1. offer \in Frame /\ ok \in Frame /\ arg[c].peer \in Devices
    BY <1>0, <1>3 DEF PushTunnelOffered, TaskOK, Frame
  <2>2. TrySend(arg[c].peer, offer) /\ Reply(c, ok)
    BY <1>3 DEF PushTunnelOffered, AnswerOpen
  <2> HIDE DEF offer, ok
  <2> QED
    BY <1>3, <2>1, <2>2, ReplyType, TrySendType DEF PushTunnelOffered, TypeOK
<1>4. CASE TouchTunnel(c)
  <2>1. pc' \in [Conns -> Labels] /\ arg' \in [Conns -> Arg] /\ \A k \in Conns : TaskOK(k)'
    BY <1>0, <1>4, GotoType DEF TouchTunnel, TaskOK, Loop
  <2> QED
    BY <1>4, <2>1 DEF TouchTunnel, TypeOK
<1>5. CASE ForwardData(c)
  <2> DEFINE data == [kind |-> "data", tunnel |-> arg[c].tunnel, n |-> arg[c].n]
  <2>1. data \in Frame /\ arg[c].peer \in Devices
    BY <1>0, <1>5 DEF ForwardData, TaskOK, Frame, Arg
  <2>2. TrySend(arg[c].peer, data)
    BY <1>5 DEF ForwardData
  <2> HIDE DEF data
  <2>3. outq' \in [Conns -> Seq(Frame)] /\ \A k \in Conns : Len(outq'[k]) <= OutboundCapacity
    BY <2>1, <2>2, TrySendType
  <2>4. Goto(c, "serving", NoArg) \/ Goto(c, "dropping", arg[c])
    BY <1>5 DEF ForwardData, AfterForward
  <2>5. pc' \in [Conns -> Labels] /\ arg' \in [Conns -> Arg] /\ \A k \in Conns : TaskOK(k)'
    BY <1>0, <1>5, <2>4, GotoType DEF ForwardData, TaskOK, Loop
  <2> QED
    BY <1>5, <2>3, <2>5 DEF ForwardData, TypeOK
<1>6. CASE DropTunnel(c)
  <2>1. pc' \in [Conns -> Labels] /\ arg' \in [Conns -> Arg] /\ \A k \in Conns : TaskOK(k)'
    BY <1>0, <1>6, GotoType DEF DropTunnel, TaskOK, Loop
  <2> QED
    BY <1>6, <2>1 DEF DropTunnel, TypeOK
<1>7. CASE CloseRequester(c)
  <2> DEFINE a == [arg[c] EXCEPT !.peer = arg[c].clone.target]
  <2>1. arg[c].clone \in Tunnel /\ arg[c].tunnel \in TunnelIds
    BY <1>0, <1>7 DEF CloseRequester, TaskOK
  <2>2. a \in Arg /\ a.peer \in Devices /\ a.tunnel \in TunnelIds
    BY <1>0, <2>1 DEF Arg, Tunnel
  <2>3. Goto(c, "closing_other", a) /\ dev' = dev /\ pc[c] = "closing_requester"
    BY <1>7 DEF CloseRequester
  <2> HIDE DEF a
  <2>4. pc' \in [Conns -> Labels] /\ arg' \in [Conns -> Arg] /\ \A k \in Conns : TaskOK(k)'
    BY <1>0, <2>2, <2>3, GotoType DEF Loop
  <2>5. outq' \in [Conns -> Seq(Frame)] /\ \A k \in Conns : Len(outq'[k]) <= OutboundCapacity
    BY <1>0, <1>7, <2>1, TrySendType DEF CloseRequester, ForwardClose, Tunnel
  <2> QED
    BY <1>7, <2>4, <2>5 DEF CloseRequester, TypeOK
<1>8. CASE RemoveTunnel(c)
  <2>1. pc' \in [Conns -> Labels] /\ arg' \in [Conns -> Arg] /\ \A k \in Conns : TaskOK(k)'
    BY <1>0, <1>8, GotoType DEF RemoveTunnel, TaskOK, Loop
  <2> QED
    BY <1>8, <2>1 DEF RemoveTunnel, TypeOK
<1>9. CASE CloseOther(c)
  <2>1. pc' \in [Conns -> Labels] /\ arg' \in [Conns -> Arg] /\ \A k \in Conns : TaskOK(k)'
    BY <1>0, <1>9, GotoType DEF CloseOther, Loop
  <2>2. outq' \in [Conns -> Seq(Frame)] /\ \A k \in Conns : Len(outq'[k]) <= OutboundCapacity
    BY <1>0, <1>9, TrySendType DEF CloseOther, ForwardClose, TaskOK
  <2> QED
    BY <1>9, <2>1, <2>2 DEF CloseOther, TypeOK
<1>10. CASE KillConnection(c)
  <2>1. Reply(c, NoFrame) /\ arg[c].peer \in Devices
    BY <1>0, <1>10 DEF KillConnection, TaskOK
  <2>2. killed' \in [Conns -> BOOLEAN] /\ killSwitches' \in [Devices -> Conns \cup {None}]
    BY <1>10 DEF KillConnection, FireSwitch, TypeOK
  <2> QED
    BY <1>0, <1>10, <2>1, <2>2, ReplyType DEF KillConnection, TypeOK
<1> QED
  BY <1>1, <1>2, <1>3, <1>4, <1>5, <1>6, <1>7, <1>8, <1>9, <1>10 DEF Handle

(* Every step of a connection's deregistration keeps the types. *)
LEMMA GoDownType == ASSUME TypeOK, NEW c \in Conns, GoDown(c) PROVE TypeOK'
<1> USE BoundsAreNat DEF registry, admitted, routes, table, reaper, clients
<1>1. CASE RemoveConnection(c)
  BY <1>1 DEF RemoveConnection, TypeOK, TaskOK, Labels
<1>2. CASE RemoveKillSwitch(c)
  BY <1>2 DEF RemoveKillSwitch, FireSwitch, TypeOK, TaskOK, Labels
<1>3. CASE CloseTunnels(c)
  <2>1. dev[c] \in Devices
    BY <1>3 DEF CloseTunnels, TypeOK, TaskOK
  <2>2. \A t \in TunnelsOf(dev[c]) : OtherParty(tunnels[t], dev[c]) \in Devices
    BY DEF TunnelsOf, OtherParty, TypeOK, Tunnel
  <2>3. pending' \in [Conns -> SUBSET [to : Devices, tunnel : TunnelIds]]
    BY <1>3, <2>2 DEF CloseTunnels, TypeOK, TunnelsOf
  <2>4. tunnels' \in [TunnelIds -> Tunnel \cup {None}]
        /\ idle' \subseteq {u \in TunnelIds : tunnels'[u] # None}
    BY <1>3 DEF CloseTunnels, TypeOK
  <2>5. pc' \in [Conns -> Labels] /\ \A k \in Conns : TaskOK(k)'
    BY <1>3 DEF CloseTunnels, TypeOK, TaskOK, Labels
  <2> QED
    BY <1>3, <2>3, <2>4, <2>5 DEF CloseTunnels, TypeOK
<1>4. ASSUME NEW notice \in pending[c], NotifySurvivor(c, notice) PROVE TypeOK'
  <2>1. notice.to \in Devices /\ CloseFrame(notice.tunnel) \in Frame
    BY <1>4 DEF TypeOK, CloseFrame, Frame
  <2>2. outq' \in [Conns -> Seq(Frame)] /\ \A k \in Conns : Len(outq'[k]) <= OutboundCapacity
    BY <1>4, <2>1, TrySendType DEF NotifySurvivor, ForwardClose
  <2> QED
    BY <1>4, <2>2 DEF NotifySurvivor, TypeOK, TaskOK
<1>5. CASE MarkOffline(c)
  BY <1>5 DEF MarkOffline, Offline, TypeOK, TaskOK, Labels
<1> QED
  BY <1>1, <1>2, <1>3, <1>4, <1>5 DEF GoDown

(* Whatever a client does to its connection keeps the types. *)
LEMMA EnvironmentType == ASSUME TypeOK, NEW c \in Conns, Environment(c) PROVE TypeOK'
<1> USE BoundsAreNat DEF registry, admitted, routes, table, reaper, clients
<1>0. /\ NoArg \in Arg /\ NoFrame \in Frame
      /\ Loop \subseteq Labels /\ "ended" \in Labels
  BY DEF NoArg, Arg, NoFrame, Frame, Labels, Loop
<1>1. ASSUME NEW d \in Devices, Authenticate(c, d) PROVE TypeOK'
  BY <1>1 DEF Authenticate, TypeOK, TaskOK, Labels
<1>2. ASSUME NEW d \in Devices, NEW p \in Purposes, CheckPermitted(c, d, p) PROVE TypeOK'
  <2>1. CASE Reply(c, NoFrame)
    BY <1>0, <1>2, <2>1, ReplyType DEF CheckPermitted, TypeOK
  <2>2. CASE Goto(c, "permitted", [NoArg EXCEPT !.peer = d]) /\ UNCHANGED frame
    <3>1. [NoArg EXCEPT !.peer = d] \in Arg /\ [NoArg EXCEPT !.peer = d].peer = d
      BY DEF NoArg, Arg
    <3>2. pc' \in [Conns -> Labels] /\ arg' \in [Conns -> Arg] /\ \A k \in Conns : TaskOK(k)'
      BY <1>0, <1>2, <2>2, <3>1, GotoType DEF CheckPermitted, Loop
    <3> QED
      BY <1>2, <2>2, <3>2 DEF CheckPermitted, TypeOK
  <2> QED
    BY <1>2, <2>1, <2>2 DEF CheckPermitted
<1>3. ASSUME NEW t \in TunnelIds, RecvData(c, t) \/ RecvClose(c, t) PROVE TypeOK'
  <2> DEFINE local(n) == [tunnel |-> t, clone |-> tunnels[t],
                          peer |-> OtherParty(tunnels[t], dev[c]), n |-> n]
  <2>1. ASSUME NEW n \in 0..MaxData, tunnels[t] # None
        PROVE  local(n) \in Arg /\ local(n).peer \in Devices
               /\ local(n).tunnel \in TunnelIds /\ local(n).clone \in Tunnel
    BY <2>1 DEF TypeOK, Tunnel, OtherParty, Arg
  <2> HIDE DEF local
  <2>2. CASE RecvData(c, t)
    <3>1. sent[c][t] + 1 \in 0..MaxData /\ sent' \in [Conns -> [TunnelIds -> 0..MaxData]]
      BY <2>2 DEF RecvData, TypeOK
    <3>2. \/ tunnels[t] # None /\ Goto(c, "touching", local(sent[c][t] + 1))
          \/ UNCHANGED <<pc, arg>>
      BY <2>2 DEF RecvData, local
    <3>3. pc' \in [Conns -> Labels] /\ arg' \in [Conns -> Arg] /\ \A k \in Conns : TaskOK(k)'
      <4>1. CASE UNCHANGED <<pc, arg>>
        BY <2>2, <4>1 DEF RecvData, TypeOK, TaskOK
      <4>2. CASE tunnels[t] # None /\ Goto(c, "touching", local(sent[c][t] + 1))
        <5>1. dev' = dev /\ pc[c] = "serving" /\ "touching" \in Labels
          BY <1>0, <2>2 DEF RecvData, Loop
        <5> QED
          BY <2>1, <3>1, <4>2, <5>1, GotoType
      <4> QED
        BY <3>2, <4>1, <4>2
    <3> QED
      BY <2>2, <3>1, <3>3 DEF RecvData, TypeOK
  <2>3. CASE RecvClose(c, t)
    <3>1. client' \in [Conns -> [TunnelIds -> {"unknown", "asked", "open", "closed"}]]
      BY <2>3 DEF RecvClose, TypeOK
    <3>2. \/ tunnels[t] # None /\ Goto(c, "removing", local(0))
          \/ UNCHANGED <<pc, arg>>
      BY <2>3 DEF RecvClose, local
    <3>3. pc' \in [Conns -> Labels] /\ arg' \in [Conns -> Arg] /\ \A k \in Conns : TaskOK(k)'
      <4>1. CASE UNCHANGED <<pc, arg>>
        BY <2>3, <4>1 DEF RecvClose, TypeOK, TaskOK
      <4>2. CASE tunnels[t] # None /\ Goto(c, "removing", local(0))
        <5>1. dev' = dev /\ pc[c] = "serving" /\ "removing" \in Labels /\ 0 \in 0..MaxData
          BY <1>0, <2>3 DEF RecvClose, Loop
        <5> QED
          BY <2>1, <4>2, <5>1, GotoType
      <4> QED
        BY <3>2, <4>1, <4>2
    <3> QED
      BY <2>3, <3>1, <3>3 DEF RecvClose, TypeOK
  <2> QED
    BY <1>3, <2>2, <2>3
<1>4. ASSUME NEW d \in Devices, RevokeDevice(c, d) \/ RevokePhoneSession(c, d) PROVE TypeOK'
  <2>1. [NoArg EXCEPT !.peer = d] \in Arg /\ [NoArg EXCEPT !.peer = d].peer = d
    BY DEF NoArg, Arg
  <2>2. pc' \in [Conns -> Labels] /\ arg' \in [Conns -> Arg] /\ \A k \in Conns : TaskOK(k)'
    BY <1>0, <1>4, <2>1, GotoType DEF RevokeDevice, RevokePhoneSession, Loop
  <2> QED
    BY <1>4, <2>2 DEF RevokeDevice, RevokePhoneSession, TypeOK
<1>5. CASE EndConnection(c)
  <2>1. pc' \in [Conns -> Labels] /\ arg' \in [Conns -> Arg] /\ \A k \in Conns : TaskOK(k)'
    BY <1>0, <1>5, GotoType DEF EndConnection
  <2> QED
    BY <1>5, <2>1 DEF EndConnection, TypeOK
<1> QED
  BY <1>1, <1>2, <1>3, <1>4, <1>5 DEF Environment

(* Writing a frame to the socket, and the kill switch's arm, keep the types. *)
LEMMA SocketType ==
    ASSUME TypeOK, NEW c \in Conns,
           TakeOutbound(c) \/ Deliver(c) \/ FailWrite(c) \/ ObserveKill(c)
    PROVE  TypeOK'
<1> USE BoundsAreNat DEF registry, admitted, routes, table, reaper, clients
<1>0. NoArg \in Arg /\ NoFrame \in Frame /\ Loop \subseteq Labels /\ "ended" \in Labels
  BY DEF NoArg, Arg, NoFrame, Frame, Labels, Loop
<1>1. CASE TakeOutbound(c)
  <2>1. outq[c] \in Seq(Frame) /\ outq[c] # <<>> /\ Len(outq[c]) <= OutboundCapacity
    BY <1>1 DEF TakeOutbound, TypeOK
  <2>2. /\ Head(outq[c]) \in Frame /\ Tail(outq[c]) \in Seq(Frame)
        /\ Len(Tail(outq[c])) <= OutboundCapacity
    BY <2>1
  <2> QED
    BY <1>0, <1>1, <2>2 DEF TakeOutbound, TypeOK, TaskOK, Loop
<1>2. CASE Deliver(c)
  <2> DEFINE f == frame[c]
  <2>1. f \in Frame
    BY DEF TypeOK
  <2>2. f.kind \in {"ok", "offered", "data", "close"} => f.tunnel \in TunnelIds /\ f.n \in 0..MaxData
    BY <2>1 DEF Frame, NoFrame
  <2>3. client' \in [Conns -> [TunnelIds -> {"unknown", "asked", "open", "closed"}]]
    BY <1>2, <2>2 DEF Deliver, TypeOK
  <2>4. got' \in [Conns -> [TunnelIds -> 0..MaxData]]
    BY <1>2, <2>2 DEF Deliver, TypeOK
  <2> QED
    BY <1>0, <1>2, <2>3, <2>4 DEF Deliver, TypeOK, TaskOK, Loop
<1>3. CASE FailWrite(c)
  <2>1. pc' \in [Conns -> Labels] /\ arg' \in [Conns -> Arg] /\ \A k \in Conns : TaskOK(k)'
    BY <1>0, <1>3, GotoType DEF FailWrite
  <2> QED
    BY <1>0, <1>3, <2>1 DEF FailWrite, TypeOK
<1>4. CASE ObserveKill(c)
  <2>1. pc' \in [Conns -> Labels] /\ arg' \in [Conns -> Arg] /\ \A k \in Conns : TaskOK(k)'
    BY <1>0, <1>4, GotoType DEF ObserveKill
  <2> QED
    BY <1>4, <2>1 DEF ObserveKill, TypeOK
<1> QED
  BY <1>1, <1>2, <1>3, <1>4

(* A sweep of the idle reaper, in each of its steps, keeps the types. *)
LEMMA ReaperType == ASSUME TypeOK, Reaper \/ \E t \in TunnelIds : Age(t) PROVE TypeOK'
<1> USE BoundsAreNat DEF registry, admitted, routes, table, reaper, clients
<1>0. \A t \in TunnelIds : CloseFrame(t) \in Frame
  BY DEF CloseFrame, Frame
<1>1. CASE Reap
  <2>1. reapPending' \subseteq [tunnel : TunnelIds, entry : Tunnel]
    BY <1>1 DEF Reap, Expired, TypeOK
  <2> QED
    BY <1>1, <2>1 DEF Reap, Expired, TypeOK, TaskOK
<1>2. CASE ReapTellTarget
  <2>1. /\ reapTarget.entry.target \in Devices /\ reapTarget.tunnel \in TunnelIds
        /\ TrySend(reapTarget.entry.target, CloseFrame(reapTarget.tunnel))
    BY <1>2 DEF ReapTellTarget, ForwardClose, TypeOK, Tunnel
  <2>2. outq' \in [Conns -> Seq(Frame)] /\ \A k \in Conns : Len(outq'[k]) <= OutboundCapacity
    BY <1>0, <2>1, TrySendType
  <2> QED
    BY <1>2, <2>2 DEF ReapTellTarget, TypeOK, TaskOK
<1>3. ASSUME NEW r \in reapPending, ReapTellRequester(r) PROVE TypeOK'
  <2>1. /\ r \in [tunnel : TunnelIds, entry : Tunnel]
        /\ TrySend(r.entry.requester, CloseFrame(r.tunnel))
    BY <1>3 DEF ReapTellRequester, ForwardClose, TypeOK
  <2>2. r.entry.requester \in Devices /\ r.tunnel \in TunnelIds
    BY <2>1 DEF Tunnel
  <2>3. outq' \in [Conns -> Seq(Frame)] /\ \A k \in Conns : Len(outq'[k]) <= OutboundCapacity
    BY <1>0, <2>1, <2>2, TrySendType
  <2> QED
    BY <1>3, <2>1, <2>3 DEF ReapTellRequester, TypeOK, TaskOK
<1>4. ASSUME NEW t \in TunnelIds, Age(t) PROVE TypeOK'
  BY <1>4 DEF Age, TypeOK, TaskOK
<1> QED
  BY <1>1, <1>2, <1>3, <1>4 DEF Reaper

(* The types are inductive: every step of the relay keeps them. *)
LEMMA NextType == TypeOK /\ [Next]_vars => TypeOK'
<1> SUFFICES ASSUME TypeOK, [Next]_vars PROVE TypeOK'
  OBVIOUS
<1>1. CASE UNCHANGED vars
  BY <1>1 DEF vars, registry, admitted, routes, table, reaper, clients, TypeOK, TaskOK
<1>2. CASE Next
  BY <1>2, ComeUpType, HandleType, GoDownType, EnvironmentType, SocketType, ReaperType DEF Next
<1> QED
  BY <1>1, <1>2

(* Every variable keeps its type, every handler its locals, and every outbound channel
   its bound: at no point does relayd buffer more than OutboundCapacity frames for a
   client, whatever is sent to it. *)
THEOREM TypeCorrect == Spec => []TypeOK
BY InitType, NextType, PTL DEF Spec

-----------------------------------------------------------------------------
(* The kill switch registered for a device is the one of its live connection.  The
   invariant is inductive on its own: the only step that makes a connection live
   registers its switch, and every step that takes a switch out resolves the receiver
   of the connection it belonged to. *)
LEMMA NextKillable == TypeOK /\ LiveIsKillable /\ [Next]_vars => LiveIsKillable'
<1> SUFFICES ASSUME TypeOK, LiveIsKillable, [Next]_vars,
                    NEW c \in Conns, Live(c)'
             PROVE  killSwitches'[dev'[c]] = c
  BY DEF LiveIsKillable
<1> USE DEF registry, admitted, routes, table, reaper, clients
<1>1. ASSUME UNCHANGED <<dev, killed, killSwitches>>, Live(c)
      PROVE  killSwitches'[dev'[c]] = c
  BY <1>1 DEF LiveIsKillable
<1>2. ASSUME NEW k \in Conns, ComeUp(k) PROVE killSwitches'[dev'[c]] = c
  <2>1. CASE RegisterKillSwitch(k)
    <3>1. /\ dev' = dev /\ dev[k] \in Devices
          /\ killSwitches' = [killSwitches EXCEPT ![dev[k]] = k]
      BY <2>1 DEF RegisterKillSwitch, TypeOK, TaskOK
    <3>2. CASE c = k
      BY <3>1, <3>2 DEF TypeOK
    <3>3. CASE c # k
      <4>1. Live(c) /\ c # killSwitches[dev[k]]
        BY <2>1, <3>3 DEF RegisterKillSwitch, FireSwitch, Live, TypeOK
      <4>2. killSwitches[dev[c]] = c
        BY <4>1 DEF LiveIsKillable
      <4> QED
        BY <3>1, <4>1, <4>2 DEF TypeOK
    <3> QED
      BY <3>2, <3>3
  <2>2. CASE MarkOnline(k)
    BY <1>1, <2>2 DEF MarkOnline, Live, Loop, TypeOK
  <2>3. CASE RegisterConnection(k)
    BY <1>1, <2>3 DEF RegisterConnection, Live, Loop, TypeOK
  <2> QED
    BY <1>2, <2>1, <2>2, <2>3 DEF ComeUp
<1>3. ASSUME NEW k \in Conns, Handle(k) PROVE killSwitches'[dev'[c]] = c
  <2>1. pc[k] \in Loop /\ (c # k => pc'[c] = pc[c])
    BY <1>3 DEF Handle, CheckTargetOnline, InsertTunnel, PushTunnelOffered, AnswerOpen, TouchTunnel,
                ForwardData, AfterForward, DropTunnel, CloseRequester, RemoveTunnel, CloseOther,
                KillConnection, Goto, Reply, Loop, TypeOK
  <2>2. CASE KillConnection(k)
    BY <2>1, <2>2 DEF KillConnection, FireSwitch, LiveIsKillable, Live, TypeOK, TaskOK, Loop
  <2>3. CASE UNCHANGED <<dev, killed, killSwitches>>
    BY <1>1, <2>1, <2>3 DEF Live
  <2> QED
    BY <1>3, <2>2, <2>3 DEF Handle, CheckTargetOnline, InsertTunnel, PushTunnelOffered, TouchTunnel,
                ForwardData, DropTunnel, CloseRequester, RemoveTunnel, CloseOther
<1>4. ASSUME NEW k \in Conns, GoDown(k) PROVE killSwitches'[dev'[c]] = c
  <2>1. CASE RemoveKillSwitch(k)
    BY <2>1 DEF RemoveKillSwitch, FireSwitch, LiveIsKillable, Live, TypeOK, TaskOK, Loop
  <2>2. CASE MarkOffline(k)
    BY <2>2 DEF MarkOffline, LiveIsKillable, Live, TypeOK, Loop
  <2>3. CASE RemoveConnection(k) \/ CloseTunnels(k) \/ \E n \in pending[k] : NotifySurvivor(k, n)
    BY <1>1, <2>3 DEF RemoveConnection, CloseTunnels, NotifySurvivor, Live, TypeOK, Loop
  <2> QED
    BY <1>4, <2>1, <2>2, <2>3 DEF GoDown
<1>5. ASSUME NEW k \in Conns, Environment(k) PROVE killSwitches'[dev'[c]] = c
  <2>1. CASE \E d \in Devices : Authenticate(k, d)
    BY <2>1 DEF Authenticate, LiveIsKillable, Live, TypeOK, Loop
  <2>2. ASSUME NEW d \in Devices, NEW p \in Purposes, CheckPermitted(k, d, p)
        PROVE  killSwitches'[dev'[c]] = c
    BY <1>1, <2>2 DEF CheckPermitted, Goto, Reply, Live, TypeOK, Loop
  <2>3. ASSUME NEW t \in TunnelIds, RecvData(k, t) \/ RecvClose(k, t)
        PROVE  killSwitches'[dev'[c]] = c
    <3>1. pc[k] = "serving" /\ UNCHANGED <<dev, killed, killSwitches>>
      BY <2>3 DEF RecvData, RecvClose
    <3>2. c # k => pc'[c] = pc[c]
      BY <2>3 DEF RecvData, RecvClose, Goto, TypeOK
    <3> QED
      BY <1>1, <3>1, <3>2 DEF Live, Loop
  <2>4. ASSUME NEW d \in Devices, RevokeDevice(k, d) \/ RevokePhoneSession(k, d)
        PROVE  killSwitches'[dev'[c]] = c
    BY <1>1, <2>4 DEF RevokeDevice, RevokePhoneSession, Goto, Live, TypeOK, Loop
  <2>5. CASE EndConnection(k)
    BY <1>1, <2>5 DEF EndConnection, Goto, Live, TypeOK, Loop
  <2> QED
    BY <1>5, <2>1, <2>2, <2>3, <2>4, <2>5 DEF Environment
<1>6. ASSUME NEW k \in Conns, TakeOutbound(k) \/ Deliver(k) \/ FailWrite(k) \/ ObserveKill(k)
      PROVE  killSwitches'[dev'[c]] = c
  BY <1>1, <1>6 DEF TakeOutbound, Deliver, FailWrite, ObserveKill, Goto, Live, TypeOK, Loop
<1>7. CASE UNCHANGED vars \/ Reaper \/ \E t \in TunnelIds : Age(t)
  BY <1>1, <1>7 DEF vars, Reaper, Reap, ReapTellRequester, ReapTellTarget, Age, Live
<1> QED
  BY <1>2, <1>3, <1>4, <1>5, <1>6, <1>7 DEF Next

(* A revocation that finds a live connection of the device always stops it. *)
THEOREM LiveKillable == Spec => []LiveIsKillable
<1>1. Init => LiveIsKillable
  BY DEF Init, LiveIsKillable, Live, Loop
<1> QED
  BY <1>1, NextKillable, TypeCorrect, PTL DEF Spec

(* No device ever has two live connections, however its reconnects overlap. *)
THEOREM OneLive == Spec => []AtMostOneLive
<1>1. LiveIsKillable => AtMostOneLive
  BY DEF LiveIsKillable, AtMostOneLive
<1> QED
  BY <1>1, LiveKillable, PTL

-----------------------------------------------------------------------------
(* A step that registers nothing and in which a task at most leaves the loop, or goes
   from closing its tunnels to telling the survivors, leaves no entry without owner. *)
LEMMA QuietStep ==
    ASSUME TypeOK, NoGhostEntries, UNCHANGED <<routes, dev>>,
           \A c \in Conns :
             \/ pc'[c] = pc[c]
             \/ pc[c] \in Loop /\ pc'[c] \in Loop \cup {"ended"}
             \/ pc[c] = "unkillable" /\ pc'[c] = "notifying"
    PROVE  NoGhostEntries'
<1> USE DEF routes
<1>1. \A c \in Conns :
        /\ pc[c] \notin {"new", "authenticated", "done"} =>
             pc'[c] \notin {"new", "authenticated", "done"}
        /\ pc[c] \in Loop \cup {"routed", "ended"} => pc'[c] \in Loop \cup {"routed", "ended"}
        /\ pc[c] \in Loop \cup {"ended", "unrouted"} =>
             pc'[c] \in Loop \cup {"ended", "unrouted"}
  BY DEF Loop
<1>2. \A d \in Devices : connections[d] # None => connections[d] \in Conns
  BY DEF TypeOK
<1>3. \A d \in Devices : killSwitches[d] # None => killSwitches[d] \in Conns
  BY DEF TypeOK
<1> HIDE DEF Loop
<1> QED
  BY <1>1, <1>2, <1>3 DEF NoGhostEntries

(* Every step keeps the registry free of entries nobody will remove: what a task
   registers, only a task of the same device takes over or removes. *)
LEMMA NextNoGhost == TypeOK /\ NoGhostEntries /\ [Next]_vars => NoGhostEntries'
<1> SUFFICES ASSUME TypeOK, NoGhostEntries, [Next]_vars PROVE NoGhostEntries'
  OBVIOUS
<1> USE DEF registry, admitted, table, reaper, clients
<1>1. ASSUME NEW k \in Conns, ComeUp(k) PROVE NoGhostEntries'
  <2>1. dev[k] \in Devices /\ k # None /\ dev' = dev
    BY <1>1, NoneIsFresh DEF ComeUp, MarkOnline, RegisterConnection, RegisterKillSwitch, TypeOK, TaskOK
  <2>2. CASE MarkOnline(k)
    BY <2>1, <2>2 DEF MarkOnline, NoGhostEntries, TypeOK, Loop
  <2>3. CASE RegisterConnection(k)
    BY <2>1, <2>3 DEF RegisterConnection, NoGhostEntries, TypeOK, Loop
  <2>4. CASE RegisterKillSwitch(k)
    BY <2>1, <2>4 DEF RegisterKillSwitch, NoGhostEntries, TypeOK, Loop
  <2> QED
    BY <1>1, <2>2, <2>3, <2>4 DEF ComeUp
<1>2. ASSUME NEW k \in Conns, Handle(k) PROVE NoGhostEntries'
  <2>1. /\ pc[k] \in Loop /\ pc'[k] \in Loop /\ dev' = dev
        /\ \A c \in Conns \ {k} : pc'[c] = pc[c]
    BY <1>2 DEF Handle, CheckTargetOnline, InsertTunnel, PushTunnelOffered, AnswerOpen, TouchTunnel,
                ForwardData, AfterForward, DropTunnel, CloseRequester, RemoveTunnel, CloseOther,
                KillConnection, Goto, Reply, Loop, TypeOK
  <2>2. CASE KillConnection(k)
    <3>1. /\ online' = online /\ connections' = connections
          /\ \A d \in Devices : killSwitches'[d] # None => killSwitches'[d] = killSwitches[d]
      BY <2>2 DEF KillConnection, TypeOK
    <3>2. \A c \in Conns : pc'[c] = pc[c] \/ (pc[c] \in Loop /\ pc'[c] \in Loop)
      BY <2>1
    <3>3. \A d \in Devices :
             /\ connections[d] # None => connections[d] \in Conns
             /\ killSwitches[d] # None => killSwitches[d] \in Conns
      BY DEF TypeOK
    <3>4. {"new", "authenticated", "done"} \cap Loop = {}
      BY DEF Loop
    <3> QED
      BY <2>1, <3>1, <3>2, <3>3, <3>4 DEF NoGhostEntries
  <2>3. CASE UNCHANGED routes
    BY <2>1, <2>3, QuietStep
  <2> QED
    BY <1>2, <2>2, <2>3 DEF Handle, CheckTargetOnline, InsertTunnel, PushTunnelOffered, TouchTunnel,
                ForwardData, DropTunnel, CloseRequester, RemoveTunnel, CloseOther
<1>3. ASSUME NEW k \in Conns, GoDown(k) PROVE NoGhostEntries'
  <2>1. dev[k] \in Devices
    BY <1>3 DEF GoDown, RemoveConnection, RemoveKillSwitch, CloseTunnels, NotifySurvivor, MarkOffline,
                TypeOK, TaskOK
  <2>2. CASE RemoveConnection(k)
    BY <2>1, <2>2 DEF RemoveConnection, NoGhostEntries, TypeOK, Loop
  <2>3. CASE RemoveKillSwitch(k)
    BY <2>1, <2>3 DEF RemoveKillSwitch, NoGhostEntries, TypeOK, Loop
  <2>4. CASE MarkOffline(k)
    BY <2>1, <2>4 DEF MarkOffline, Offline, NoGhostEntries, TypeOK, Loop
  <2>5. CASE CloseTunnels(k) \/ \E n \in pending[k] : NotifySurvivor(k, n)
    BY <2>5, QuietStep DEF CloseTunnels, NotifySurvivor, TypeOK
  <2> QED
    BY <1>3, <2>2, <2>3, <2>4, <2>5 DEF GoDown
<1>4. ASSUME NEW k \in Conns, Environment(k) PROVE NoGhostEntries'
  <2>1. CASE \E d \in Devices : Authenticate(k, d)
    BY <2>1 DEF Authenticate, routes, NoGhostEntries, TypeOK, Loop
  <2>2. ASSUME /\ pc[k] = "serving" /\ UNCHANGED <<routes, dev>>
               /\ UNCHANGED pc \/ \E l \in Loop \cup {"ended"} : pc' = [pc EXCEPT ![k] = l]
        PROVE  NoGhostEntries'
    BY <2>2, QuietStep DEF TypeOK, Loop
  <2>3. ASSUME NEW d \in Devices, NEW p \in Purposes, CheckPermitted(k, d, p)
        PROVE  NoGhostEntries'
    BY <2>2, <2>3 DEF CheckPermitted, Goto, Reply, Loop
  <2>4. ASSUME NEW t \in TunnelIds, RecvData(k, t) \/ RecvClose(k, t) PROVE NoGhostEntries'
    <3>1. pc[k] = "serving" /\ UNCHANGED <<routes, dev>>
      BY <2>4 DEF RecvData, RecvClose
    <3>2. UNCHANGED pc \/ pc' = [pc EXCEPT ![k] = "touching"] \/ pc' = [pc EXCEPT ![k] = "removing"]
      BY <2>4 DEF RecvData, RecvClose, Goto
    <3> QED
      BY <2>2, <3>1, <3>2 DEF Loop
  <2>5. ASSUME NEW d \in Devices, RevokeDevice(k, d) \/ RevokePhoneSession(k, d)
        PROVE  NoGhostEntries'
    BY <2>2, <2>5 DEF RevokeDevice, RevokePhoneSession, Goto, Loop
  <2>6. CASE EndConnection(k)
    BY <2>2, <2>6 DEF EndConnection, Goto
  <2> QED
    BY <1>4, <2>1, <2>3, <2>4, <2>5, <2>6 DEF Environment
<1>5. ASSUME NEW k \in Conns, TakeOutbound(k) \/ Deliver(k) \/ FailWrite(k) \/ ObserveKill(k)
      PROVE NoGhostEntries'
  <2>1. /\ pc[k] \in Loop /\ pc'[k] \in Loop \cup {"ended"} /\ UNCHANGED <<routes, dev>>
        /\ \A c \in Conns \ {k} : pc'[c] = pc[c]
    BY <1>5 DEF TakeOutbound, Deliver, FailWrite, ObserveKill, Goto, TypeOK, Loop
  <2> QED
    BY <2>1, QuietStep
<1>6. CASE UNCHANGED vars \/ Reaper \/ \E t \in TunnelIds : Age(t)
  BY <1>6, QuietStep DEF vars, Reaper, Reap, ReapTellRequester, ReapTellTarget, Age
<1> QED
  BY <1>1, <1>2, <1>3, <1>4, <1>5, <1>6 DEF Next

(* No registry entry outlives the task that must remove it: when all tasks of a device
   have ended, nothing of it is left in online_devices, connections or kill_switches. *)
THEOREM NoGhosts == Spec => []NoGhostEntries
<1>1. Init => NoGhostEntries
  BY DEF Init, NoGhostEntries
<1> QED
  BY <1>1, NextNoGhost, TypeCorrect, PTL DEF Spec

-----------------------------------------------------------------------------
(* A closed tunnel is never entered again.  Only InsertTunnel writes an entry, and only
   for an id that was never drawn; the handlers that hold a stale clone write none. *)
LEMMA NextClosed ==
    ASSUME TypeOK, [Next]_vars, NEW t \in drawn, tunnels[t] = None
    PROVE  tunnels'[t] = None
<1> USE DEF registry, admitted, routes, table, reaper, clients
<1>1. CASE UNCHANGED tunnels
  BY <1>1
<1>2. ASSUME NEW c \in Conns, ComeUp(c) PROVE UNCHANGED tunnels
  BY <1>2 DEF ComeUp, MarkOnline, RegisterConnection, RegisterKillSwitch
<1>3. ASSUME NEW c \in Conns, Handle(c) PROVE tunnels'[t] = None
  <2>1. ASSUME NEW u \in TunnelIds, InsertTunnel(c, u) PROVE tunnels'[t] = None
    BY <2>1 DEF InsertTunnel, TypeOK
  <2>2. CASE DropTunnel(c) \/ RemoveTunnel(c)
    BY <2>2 DEF DropTunnel, RemoveTunnel, TypeOK
  <2> QED
    BY <1>1, <1>3, <2>1, <2>2 DEF Handle, CheckTargetOnline, PushTunnelOffered, TouchTunnel,
         ForwardData, CloseRequester, CloseOther, KillConnection
<1>4. ASSUME NEW c \in Conns, GoDown(c) PROVE tunnels'[t] = None
  <2>1. CASE CloseTunnels(c)
    BY <2>1 DEF CloseTunnels, TypeOK
  <2> QED
    BY <1>1, <1>4, <2>1 DEF GoDown, RemoveConnection, RemoveKillSwitch, NotifySurvivor, MarkOffline
<1>5. ASSUME NEW c \in Conns, Environment(c) PROVE UNCHANGED tunnels
  BY <1>5 DEF Environment, Authenticate, CheckPermitted, RecvData, RecvClose, RevokeDevice,
       RevokePhoneSession, EndConnection
<1>6. ASSUME NEW c \in Conns, TakeOutbound(c) \/ Deliver(c) \/ FailWrite(c) \/ ObserveKill(c)
      PROVE  UNCHANGED tunnels
  BY <1>6 DEF TakeOutbound, Deliver, FailWrite, ObserveKill
<1>7. CASE Reap
  BY <1>7 DEF Reap, TypeOK
<1>8. CASE ReapTellTarget \/ \E r \in reapPending : ReapTellRequester(r)
  BY <1>8 DEF ReapTellTarget, ReapTellRequester
<1>9. CASE UNCHANGED vars \/ \E u \in TunnelIds : Age(u)
  BY <1>9 DEF vars, Age
<1> QED
  BY <1>1, <1>2, <1>3, <1>4, <1>5, <1>6, <1>7, <1>8, <1>9 DEF Next, Reaper

(* A tunnel's closure is final, in every behaviour of the relay. *)
THEOREM ClosedForGood == Spec => ClosedStaysClosed
<1>1. TypeOK /\ [Next]_vars => [\A t \in drawn : tunnels[t] = None => tunnels'[t] = None]_vars
  BY NextClosed
<1> QED
  BY <1>1, TypeCorrect, PTL DEF Spec, ClosedStaysClosed

-----------------------------------------------------------------------------
(* The two parties of a tunnel, and what is under way to each of them.         *)

Announces(m, t) == m.kind \in {"ok", "offered"} /\ m.tunnel = t
Carries(m, t) == m.kind = "data" /\ m.tunnel = t

(* The client of c knows of t, or will when it reads what is under way to it. *)
Told(c, t) ==
    \/ client[c][t] # "unknown"
    \/ Announces(frame[c], t)
    \/ \E i \in 1 .. Len(outq[c]) : Announces(outq[c][i], t)

(* The task of c is passing a data frame on, or has failed to.                *)
Passing(c, t) == pc[c] \in {"touching", "forwarding"} /\ arg[c].tunnel = t
Dropping(c, t) == pc[c] = "dropping" /\ arg[c].tunnel = t

(* No data has moved on t.                                                     *)
Still(t) ==
    \A c \in Conns :
        /\ got[c][t] = 0 /\ sent[c][t] = 0 /\ ~Passing(c, t)
        /\ ~Carries(frame[c], t) /\ \A i \in 1 .. Len(outq[c]) : ~Carries(outq[c][i], t)

(* The queue q holds, in order, the data frames d + 1 to p of t.               *)
Chain(q, t, d, p) ==
    /\ d <= p
    /\ \A i \in 1 .. Len(q) : Carries(q[i], t) => d < q[i].n /\ q[i].n <= p
    /\ \A i, j \in 1 .. Len(q) : Carries(q[i], t) /\ Carries(q[j], t) /\ i < j => q[i].n < q[j].n
    /\ \A n \in Nat : d < n /\ n <= p => \E i \in 1 .. Len(q) : Carries(q[i], t) /\ q[i].n = n

(* The last data frame of t that has left the queue of c.                      *)
Seen(c, t) == IF Carries(frame[c], t) THEN frame[c].n ELSE got[c][t]

(* What k's client sends on t still goes to c.                                 *)
Sends(k, c, t) ==
    /\ k # c /\ Told(k, t) /\ connections[dev[c]] = c
    /\ tunnels[t] # None \/ Passing(k, t)
    /\ ~Dropping(k, t)

Early == {"new", "authenticated", "online"}
Down == {"ended", "unrouted", "unkillable", "notifying", "done"}

StageOK(c) ==
    /\ pc[c] # "writing" => frame[c] = NoFrame
    /\ pc[c] \in Early => outq[c] = <<>> /\ \A t \in TunnelIds : client[c][t] = "unknown"
    /\ pc[c] \in {"permitted", "inserting", "offering"} => arg[c].peer # dev[c]
    /\ \A t \in TunnelIds : Passing(c, t) =>
         arg[c].peer # dev[c] /\ client[c][t] = "open" /\ arg[c].n = sent[c][t]

StageInv == \A c \in Conns : StageOK(c)

AskedOK(c, t) ==
    client[c][t] = "asked" =>
        \/ pc[c] = "offering" /\ arg[c].tunnel = t
        \/ pc[c] = "writing" /\ Announces(frame[c], t) /\ got[c][t] = 0
        \/ pc[c] \in Down /\ got[c][t] = 0

AskedInv == \A c \in Conns, t \in TunnelIds : AskedOK(c, t)

DrawnInv ==
    \A t \in TunnelIds \ drawn : tunnels[t] = None /\ Still(t) /\ \A c \in Conns : ~Told(c, t)

OfferingOK(c, t) ==
    pc[c] = "offering" /\ arg[c].tunnel = t =>
        /\ t \in drawn /\ Still(t) /\ client[c][t] = "asked"
        /\ tunnels[t] \in {None, [requester |-> dev[c], target |-> arg[c].peer]}
        /\ \A k \in Conns : k # c => ~Told(k, t)
        /\ \A i \in 1 .. Len(outq[c]) : ~Announces(outq[c][i], t)

OfferingInv == \A c \in Conns, t \in TunnelIds : OfferingOK(c, t)

PairOK(t) ==
    /\ tunnels[t] # None => tunnels[t].requester # tunnels[t].target
    /\ \A c \in Conns : Told(c, t) /\ tunnels[t] # None => IsParty(tunnels[t], dev[c])
    /\ \A a, b \in Conns : a # b /\ Told(a, t) /\ Told(b, t) =>
         /\ dev[a] # dev[b]
         /\ \A c \in Conns : Told(c, t) => c \in {a, b}
         /\ Passing(a, t) => arg[a].peer = dev[b]

PairInv == \A t \in TunnelIds : PairOK(t)

Served(c, t) == Told(c, t) /\ pc[c] \in Loop \cup {"routed"}

(* p is the last data frame queued for c on t.                                 *)
InFlight(c, t, p) ==
    /\ Chain(outq[c], t, Seen(c, t), p)
    /\ \A k \in Conns : Sends(k, c, t) =>
         IF Passing(k, t) THEN p + 1 = sent[k][t] ELSE p = sent[k][t]

FlowOK(c, t) ==
    Served(c, t) =>
        /\ Carries(frame[c], t) => frame[c].n = got[c][t] + 1
        /\ \E p \in Nat : InFlight(c, t, p)

FlowInv == \A c \in Conns, t \in TunnelIds : FlowOK(c, t)

TunnelsInv == StageInv /\ AskedInv /\ DrawnInv /\ OfferingInv /\ PairInv /\ FlowInv

(* What is appended to a queue is its last entry.                              *)
LEMMA Pushed ==
    ASSUME NEW q \in Seq(Frame), NEW m \in Frame
    PROVE  /\ Append(q, m) \in Seq(Frame) /\ Len(Append(q, m)) = Len(q) + 1 /\ Len(q) \in Nat
           /\ \A i \in 1 .. Len(q) : Append(q, m)[i] = q[i]
           /\ Append(q, m)[Len(q) + 1] = m
           /\ \A i \in 1 .. Len(Append(q, m)) : i \in 1 .. Len(q) \/ Append(q, m)[i] = m
OBVIOUS

(* Taking the head moves every other entry up by one.                          *)
LEMMA Popped ==
    ASSUME NEW q \in Seq(Frame), q # <<>>
    PROVE  /\ Tail(q) \in Seq(Frame) /\ Len(Tail(q)) = Len(q) - 1 /\ Len(q) \in Nat \ {0}
           /\ \A i \in 1 .. Len(Tail(q)) : Tail(q)[i] = q[i + 1] /\ i + 1 \in 1 .. Len(q)
           /\ Head(q) = q[1] /\ Head(q) \in Frame
OBVIOUS

(* Every entry of a queue is a frame; a tunnel's frame has a number.           *)
LEMMA Queued ==
    ASSUME NEW q \in Seq(Frame), NEW i \in 1 .. Len(q)
    PROVE  q[i] \in Frame /\ q[i].n \in Nat
<1>1. q[i] \in Frame
  OBVIOUS
<1> QED
  BY <1>1, BoundsAreNat DEF Frame, NoFrame

(* Queueing anything but data of the tunnel leaves the tunnel's data as it was. *)
LEMMA PushOther ==
    ASSUME NEW q \in Seq(Frame), NEW m \in Frame, NEW t \in TunnelIds,
           NEW d \in Nat, NEW p \in Nat, Chain(q, t, d, p), ~Carries(m, t)
    PROVE  Chain(Append(q, m), t, d, p)
BY Pushed DEF Chain

(* Queueing the tunnel's next data frame lengthens what is queued of it by one. *)
LEMMA PushOwn ==
    ASSUME NEW q \in Seq(Frame), NEW m \in Frame, NEW t \in TunnelIds,
           NEW d \in Nat, NEW p \in Nat, Chain(q, t, d, p), Carries(m, t), m.n = p + 1
    PROVE  Chain(Append(q, m), t, d, p + 1)
<1> DEFINE r == Append(q, m)
<1>1. ASSUME NEW i \in 1 .. Len(r)
      PROVE  (i \in 1 .. Len(q) /\ r[i] = q[i]) \/ (i = Len(q) + 1 /\ r[i] = m)
  <2>1. i \in 1 .. Len(q) \/ i = Len(q) + 1
    BY Pushed
  <2> QED
    BY <2>1, Pushed
<1>2. ASSUME NEW i \in 1 .. Len(r), Carries(r[i], t) PROVE d < r[i].n /\ r[i].n <= p + 1
  <2>1. CASE i \in 1 .. Len(q) /\ r[i] = q[i]
    <3>1. q[i].n \in Nat /\ d < q[i].n /\ q[i].n <= p
      BY <1>2, <2>1, Queued DEF Chain
    <3> QED
      BY <2>1, <3>1
  <2>2. CASE r[i] = m
    BY <2>2 DEF Chain
  <2> QED
    BY <1>1, <2>1, <2>2
<1>3. ASSUME NEW i \in 1 .. Len(r), NEW j \in 1 .. Len(r), Carries(r[i], t), Carries(r[j], t), i < j
      PROVE  r[i].n < r[j].n
  <2>1. i \in 1 .. Len(q) /\ r[i] = q[i]
    BY <1>1, <1>3, Pushed
  <2>2. CASE j \in 1 .. Len(q) /\ r[j] = q[j]
    BY <1>3, <2>1, <2>2 DEF Chain
  <2>3. CASE r[j] = m
    <3>1. q[i].n \in Nat /\ q[i].n <= p
      BY <1>3, <2>1, Queued DEF Chain
    <3> QED
      BY <2>1, <2>3, <3>1
  <2> QED
    BY <1>1, <2>2, <2>3
<1>4. ASSUME NEW n \in Nat, d < n, n <= p + 1 PROVE \E i \in 1 .. Len(r) : Carries(r[i], t) /\ r[i].n = n
  <2>1. CASE n = p + 1
    BY <2>1, Pushed
  <2>2. CASE n <= p
    BY <1>4, <2>2, Pushed DEF Chain
  <2> QED
    BY <1>4, <2>1, <2>2
<1>5. d <= p + 1
  BY DEF Chain
<1>6. \A i \in 1 .. Len(r) : Carries(r[i], t) => d < r[i].n /\ r[i].n <= p + 1
  BY <1>2
<1>7. \A i, j \in 1 .. Len(r) : Carries(r[i], t) /\ Carries(r[j], t) /\ i < j => r[i].n < r[j].n
  BY <1>3
<1>8. \A n \in Nat : d < n /\ n <= p + 1 => \E i \in 1 .. Len(r) : Carries(r[i], t) /\ r[i].n = n
  BY <1>4
<1> HIDE DEF r
<1>9. Chain(r, t, d, p + 1)
  BY <1>5, <1>6, <1>7, <1>8 DEF Chain
<1> QED
  BY <1>9 DEF r

(* A head that is no data of the tunnel takes none of it.                      *)
LEMMA PopOther ==
    ASSUME NEW q \in Seq(Frame), q # <<>>, NEW t \in TunnelIds, NEW d \in Nat, NEW p \in Nat,
           Chain(q, t, d, p), ~Carries(Head(q), t)
    PROVE  Chain(Tail(q), t, d, p)
<1>1. ASSUME NEW n \in Nat, d < n, n <= p
      PROVE  \E i \in 1 .. Len(Tail(q)) : Carries(Tail(q)[i], t) /\ Tail(q)[i].n = n
  <2>1. PICK i \in 1 .. Len(q) : Carries(q[i], t) /\ q[i].n = n
    BY <1>1 DEF Chain
  <2>2. i # 1 /\ i - 1 \in 1 .. Len(Tail(q)) /\ (i - 1) + 1 = i
    BY <2>1, Popped
  <2>3. Tail(q)[i - 1] = q[i]
    BY <2>2, Popped
  <2> QED
    BY <2>1, <2>2, <2>3
<1>2. \A i \in 1 .. Len(Tail(q)) : Carries(Tail(q)[i], t) => d < Tail(q)[i].n /\ Tail(q)[i].n <= p
  BY Popped DEF Chain
<1>3. ASSUME NEW i \in 1 .. Len(Tail(q)), NEW j \in 1 .. Len(Tail(q)),
             Carries(Tail(q)[i], t), Carries(Tail(q)[j], t), i < j
      PROVE  Tail(q)[i].n < Tail(q)[j].n
  <2>1. /\ i + 1 \in 1 .. Len(q) /\ j + 1 \in 1 .. Len(q) /\ i + 1 < j + 1
        /\ Tail(q)[i] = q[i + 1] /\ Tail(q)[j] = q[j + 1]
    BY <1>3, Popped
  <2> QED
    BY <1>3, <2>1 DEF Chain
<1> QED
  BY <1>1, <1>2, <1>3 DEF Chain

(* A head that is data of the tunnel is its next frame.                        *)
LEMMA PopOwn ==
    ASSUME NEW q \in Seq(Frame), q # <<>>, NEW t \in TunnelIds, NEW d \in Nat, NEW p \in Nat,
           Chain(q, t, d, p), Carries(Head(q), t)
    PROVE  Head(q).n = d + 1 /\ d < p /\ Chain(Tail(q), t, d + 1, p)
<1>1. /\ 1 \in 1 .. Len(q) /\ q[1] = Head(q) /\ q[1].n \in Nat
      /\ d < q[1].n /\ q[1].n <= p
  <2>1. 1 \in 1 .. Len(q) /\ q[1] = Head(q)
    BY Popped
  <2> QED
    BY <2>1, Queued DEF Chain
<1>2. PICK k \in 1 .. Len(q) : Carries(q[k], t) /\ q[k].n = d + 1
  BY <1>1 DEF Chain
<1>3. q[1].n = d + 1
  <2>1. CASE k = 1
    BY <1>2, <2>1
  <2>2. CASE k # 1
    <3>1. 1 < k
      BY <2>2, Popped
    <3> QED
      BY <1>1, <1>2, <3>1 DEF Chain
  <2> QED
    BY <2>1, <2>2
<1>4. ASSUME NEW n \in Nat, d + 1 < n, n <= p
      PROVE  \E i \in 1 .. Len(Tail(q)) : Carries(Tail(q)[i], t) /\ Tail(q)[i].n = n
  <2>1. PICK i \in 1 .. Len(q) : Carries(q[i], t) /\ q[i].n = n
    BY <1>4 DEF Chain
  <2>2. i # 1 /\ i - 1 \in 1 .. Len(Tail(q)) /\ (i - 1) + 1 = i
    BY <1>3, <1>4, <2>1, Popped
  <2>3. Tail(q)[i - 1] = q[i]
    BY <2>2, Popped
  <2> QED
    BY <2>1, <2>2, <2>3
<1>5. ASSUME NEW i \in 1 .. Len(Tail(q)), Carries(Tail(q)[i], t)
      PROVE  d + 1 < Tail(q)[i].n /\ Tail(q)[i].n <= p
  <2>1. i + 1 \in 1 .. Len(q) /\ Tail(q)[i] = q[i + 1] /\ 1 < i + 1
    BY Popped
  <2> QED
    BY <1>1, <1>3, <1>5, <2>1 DEF Chain
<1>6. ASSUME NEW i \in 1 .. Len(Tail(q)), NEW j \in 1 .. Len(Tail(q)),
             Carries(Tail(q)[i], t), Carries(Tail(q)[j], t), i < j
      PROVE  Tail(q)[i].n < Tail(q)[j].n
  <2>1. /\ i + 1 \in 1 .. Len(q) /\ j + 1 \in 1 .. Len(q) /\ i + 1 < j + 1
        /\ Tail(q)[i] = q[i + 1] /\ Tail(q)[j] = q[j + 1]
    BY <1>6, Popped
  <2> QED
    BY <1>6, <2>1 DEF Chain
<1>7. d < p /\ d + 1 <= p
  BY <1>1, <1>3
<1>8. \A n \in Nat : d + 1 < n /\ n <= p => \E i \in 1 .. Len(Tail(q)) : Carries(Tail(q)[i], t) /\ Tail(q)[i].n = n
  BY <1>4
<1>9. \A i \in 1 .. Len(Tail(q)) : Carries(Tail(q)[i], t) => d + 1 < Tail(q)[i].n /\ Tail(q)[i].n <= p
  BY <1>5
<1>10. \A i, j \in 1 .. Len(Tail(q)) :
          Carries(Tail(q)[i], t) /\ Carries(Tail(q)[j], t) /\ i < j => Tail(q)[i].n < Tail(q)[j].n
  BY <1>6
<1>11. Chain(Tail(q), t, d + 1, p)
  BY <1>7, <1>8, <1>9, <1>10 DEF Chain
<1> QED
  BY <1>1, <1>3, <1>7, <1>11

(* A frame that try_send takes is the last of the queue of one connection: the one
   registered for the device, which its task has not yet given up. *)
LEMMA Sent ==
    ASSUME TypeOK, NoGhostEntries, NEW d \in Devices, NEW f \in Frame, TrySend(d, f)
    PROVE  \/ ~Accepts(d) /\ outq' = outq
           \/ /\ Accepts(d) /\ connections[d] \in Conns /\ dev[connections[d]] = d
              /\ pc[connections[d]] \in Loop \cup {"routed", "ended"}
              /\ outq'[connections[d]] = Append(outq[connections[d]], f)
              /\ \A c \in Conns : c # connections[d] => outq'[c] = outq[c]
<1>1. CASE Accepts(d)
  <2>1. connections[d] \in Conns /\ connections[d] # None
    BY <1>1 DEF TypeOK, Accepts
  <2>2. dev[connections[d]] = d /\ pc[connections[d]] \in Loop \cup {"routed", "ended"}
    BY <2>1 DEF NoGhostEntries
  <2>3. outq' = [outq EXCEPT ![connections[d]] = Append(outq[connections[d]], f)]
    BY <1>1 DEF TrySend
  <2> QED
    BY <1>1, <2>1, <2>2, <2>3 DEF TypeOK
<1>2. CASE ~Accepts(d)
  BY <1>2 DEF TrySend
<1> QED
  BY <1>1, <1>2

-----------------------------------------------------------------------------
(* The last frame seen has a number.  *)
LEMMA SeenIsNumber == ASSUME TypeOK, NEW c \in Conns, NEW t \in TunnelIds PROVE Seen(c, t) \in Nat
<1>1. frame[c] \in Frame /\ got[c][t] \in 0..MaxData
  BY DEF TypeOK
<1>2. frame[c].n \in Nat
  BY <1>1, BoundsAreNat DEF Frame, NoFrame
<1> QED
  BY <1>1, <1>2, BoundsAreNat DEF Seen

(* A calm step of the task of c: it starts and ends no passing on of data, and if it
   ends a refused one the tunnel's entry goes.  *)
TaskCalm(c) ==
    /\ pc'[c] # "writing" => frame'[c] = NoFrame
    /\ pc'[c] \in Early => pc[c] \in Early
    /\ pc'[c] \in {"permitted", "inserting"} => arg'[c].peer # dev[c]
    /\ pc[c] = "offering" <=> pc'[c] = "offering"
    /\ pc[c] \in {"touching", "forwarding"} <=> pc'[c] \in {"touching", "forwarding"}
    /\ pc'[c] \in {"offering", "touching", "forwarding"} => arg'[c] = arg[c]
    /\ pc[c] = "writing" => pc'[c] \in {"writing", "ended"}
    /\ pc[c] \in Down => pc'[c] \in Down
    /\ pc'[c] \in Loop \cup {"routed"} => pc[c] \in Loop \cup {"routed", "online"}
    /\ pc[c] = "dropping" => (pc'[c] = "dropping" /\ arg'[c] = arg[c]) \/ tunnels'[arg[c].tunnel] = None

(* A step that moves no data and tells nobody of a tunnel: frames are lost or notices of
   closure queued, entries removed, and connections registered that know of nothing. *)
Calm ==
    /\ UNCHANGED <<dev, sent, got, drawn>>
    /\ \A c \in Conns, t \in TunnelIds :
         \/ client'[c][t] = client[c][t]
         \/ client[c][t] = "open" /\ client'[c][t] = "closed" /\ pc'[c] \notin {"touching", "forwarding"}
    /\ \A c \in Conns : frame'[c] = frame[c] \/ (frame'[c] = NoFrame /\ pc'[c] = "ended")
    /\ \A c \in Conns :
         \/ outq'[c] = outq[c]
         \/ pc[c] \notin Early /\ \E m \in Frame : m.kind = "close" /\ outq'[c] = Append(outq[c], m)
    /\ \A t \in TunnelIds : tunnels'[t] \in {tunnels[t], None}
    /\ \A d \in Devices, c \in Conns : connections'[d] = c => connections[d] = c \/ pc[c] = "online"
    /\ \A c \in Conns : TaskCalm(c)

(* A calm step keeps what is under way.  *)
LEMMA CalmKeeps == ASSUME TypeOK, TypeOK', TunnelsInv, Calm PROVE TunnelsInv'
<1>1. ASSUME NEW c \in Conns, NEW t \in TunnelIds, NEW i \in 1 .. Len(outq'[c]),
             Carries(outq'[c][i], t) \/ Announces(outq'[c][i], t)
      PROVE  i \in 1 .. Len(outq[c]) /\ outq'[c][i] = outq[c][i]
  <2>1. outq[c] \in Seq(Frame)
    BY DEF TypeOK
  <2>2. CASE outq'[c] = outq[c]
    BY <2>2
  <2>3. ASSUME NEW m \in Frame, m.kind = "close", outq'[c] = Append(outq[c], m)
        PROVE  i \in 1 .. Len(outq[c]) /\ outq'[c][i] = outq[c][i]
    <3>1. outq'[c][i] # m
      BY <1>1, <2>3 DEF Carries, Announces
    <3> QED
      BY <2>1, <2>3, <3>1, Pushed
  <2> QED
    BY <2>2, <2>3 DEF Calm
<1>2. ASSUME NEW c \in Conns, NEW t \in TunnelIds PROVE Told(c, t)' => Told(c, t)
  <2>1. client'[c][t] # "unknown" => client[c][t] # "unknown"
    BY DEF Calm
  <2>2. Announces(frame'[c], t) => Announces(frame[c], t)
    BY DEF Calm, Announces, NoFrame
  <2> QED
    BY <1>1, <2>1, <2>2 DEF Told
<1>3. ASSUME NEW c \in Conns, NEW t \in TunnelIds
      PROVE  /\ Passing(c, t)' <=> Passing(c, t)
             /\ Passing(c, t) => arg'[c] = arg[c]
             /\ Carries(frame'[c], t) => frame'[c] = frame[c]
  BY DEF Calm, TaskCalm, Passing, Carries, NoFrame
<1>4. ASSUME NEW t \in TunnelIds PROVE Still(t) => Still(t)'
  <2>1. \A c \in Conns : got'[c][t] = got[c][t] /\ sent'[c][t] = sent[c][t]
    BY DEF Calm
  <2> QED
    BY <1>1, <1>3, <2>1 DEF Still
<1>5. StageInv'
  <2>1. ASSUME NEW c \in Conns PROVE StageOK(c)'
    <3>1. StageOK(c) /\ TaskCalm(c) /\ dev'[c] = dev[c]
      BY DEF TunnelsInv, StageInv, Calm
    <3>2. pc'[c] \in Early => outq'[c] = <<>> /\ \A t \in TunnelIds : client'[c][t] = "unknown"
      BY <3>1 DEF StageOK, TaskCalm, Calm
    <3>3. pc'[c] \in {"permitted", "inserting", "offering"} => arg'[c].peer # dev'[c]
      BY <3>1 DEF StageOK, TaskCalm
    <3>4. \A t \in TunnelIds : Passing(c, t)' =>
             arg'[c].peer # dev'[c] /\ client'[c][t] = "open" /\ arg'[c].n = sent'[c][t]
      BY <1>3, <3>1 DEF StageOK, Calm, Passing
    <3> QED
      BY <3>1, <3>2, <3>3, <3>4 DEF StageOK, TaskCalm
  <2> QED
    BY <2>1 DEF StageInv
<1>6. AskedInv'
  <2>1. ASSUME NEW c \in Conns, NEW t \in TunnelIds PROVE AskedOK(c, t)'
    <3>1. AskedOK(c, t) /\ TaskCalm(c)
      BY DEF TunnelsInv, AskedInv, Calm
    <3>2. got'[c][t] = got[c][t] /\ (client'[c][t] = "asked" => client[c][t] = "asked")
      BY DEF Calm
    <3>3. frame'[c] = frame[c] \/ pc'[c] = "ended"
      BY DEF Calm
    <3> QED
      BY <3>1, <3>2, <3>3 DEF AskedOK, TaskCalm, Down
  <2> QED
    BY <2>1 DEF AskedInv
<1>7. DrawnInv'
  BY <1>2, <1>4 DEF TunnelsInv, DrawnInv, Calm
<1>8. OfferingInv'
  <2>1. ASSUME NEW c \in Conns, NEW t \in TunnelIds PROVE OfferingOK(c, t)'
    <3>1. OfferingOK(c, t) /\ TaskCalm(c)
      BY DEF TunnelsInv, OfferingInv, Calm
    <3>2. drawn' = drawn /\ dev'[c] = dev[c] /\ (client[c][t] = "asked" => client'[c][t] = "asked")
          /\ tunnels'[t] \in {tunnels[t], None}
      BY DEF Calm
    <3> QED
      BY <1>1, <1>2, <1>4, <3>1, <3>2 DEF OfferingOK, TaskCalm
  <2> QED
    BY <2>1 DEF OfferingInv
<1>9. PairInv'
  <2>1. ASSUME NEW t \in TunnelIds PROVE PairOK(t)'
    <3>1. PairOK(t) /\ tunnels'[t] \in {tunnels[t], None} /\ dev' = dev
      BY DEF TunnelsInv, PairInv, Calm
    <3> QED
      BY <1>2, <1>3, <3>1 DEF PairOK, IsParty
  <2> QED
    BY <2>1 DEF PairInv
<1>10. FlowInv'
  <2>1. ASSUME NEW c \in Conns, NEW t \in TunnelIds, Served(c, t)' PROVE FlowOK(c, t)'
    <3>1. Told(c, t) /\ pc'[c] \in Loop \cup {"routed"} /\ TaskCalm(c)
      BY <1>2, <2>1 DEF Served, Calm
    <3>2. pc[c] # "online"
      <4>1. ASSUME pc[c] = "online" PROVE FALSE
        <5>1. outq[c] = <<>> /\ client[c][t] = "unknown" /\ frame[c] = NoFrame
          BY <4>1 DEF TunnelsInv, StageInv, StageOK, Early
        <5> QED
          BY <3>1, <5>1 DEF Told, Announces, NoFrame
      <4> QED
        BY <4>1
    <3>3. Served(c, t) /\ FlowOK(c, t)
      BY <3>1, <3>2 DEF Served, TaskCalm, TunnelsInv, FlowInv
    <3>4. frame'[c] = frame[c] /\ got' = got /\ sent' = sent /\ dev' = dev
      BY <3>1 DEF Calm, Loop
    <3>5. PICK p \in Nat : InFlight(c, t, p)
      BY <3>3 DEF FlowOK
    <3>6. Chain(outq'[c], t, Seen(c, t)', p)
      <4>1. Seen(c, t)' = Seen(c, t) /\ outq[c] \in Seq(Frame) /\ Seen(c, t) \in Nat
        BY <3>4, BoundsAreNat DEF Seen, TypeOK, Frame, NoFrame
      <4>2. Chain(outq[c], t, Seen(c, t), p)
        BY <3>5 DEF InFlight
      <4>3. ASSUME NEW m \in Frame, m.kind = "close" PROVE Chain(Append(outq[c], m), t, Seen(c, t), p)
        <5>1. ~Carries(m, t)
          BY <4>3 DEF Carries
        <5> QED
          BY <4>1, <4>2, <5>1, PushOther
      <4>4. outq'[c] = outq[c] \/ \E m \in Frame : m.kind = "close" /\ outq'[c] = Append(outq[c], m)
        BY DEF Calm
      <4> QED
        BY <4>1, <4>2, <4>3, <4>4
    <3>7. ASSUME NEW k \in Conns, Sends(k, c, t)' PROVE Sends(k, c, t)
      <4>1. dev[c] \in Devices
        BY <3>1, <3>2, <3>3 DEF Served, TypeOK, TaskOK, Loop
      <4>2. connections[dev[c]] = c
        BY <3>2, <3>4, <3>7, <4>1 DEF Sends, Calm
      <4>3. k # c /\ Told(k, t) /\ (tunnels[t] # None \/ Passing(k, t))
        BY <1>2, <1>3, <3>7 DEF Sends, Calm
      <4>4. ~Dropping(k, t)
        <5>1. ASSUME Dropping(k, t) PROVE FALSE
          <6>1. tunnels'[t] = None /\ ~Passing(k, t)
            BY <3>7, <5>1 DEF Sends, Dropping, Passing, Calm, TaskCalm
          <6> QED
            BY <1>3, <3>7, <6>1 DEF Sends
        <5> QED
          BY <5>1
      <4> QED
        BY <4>2, <4>3, <4>4 DEF Sends
    <3>8. InFlight(c, t, p)'
      BY <1>3, <3>4, <3>5, <3>6, <3>7 DEF InFlight
    <3> QED
      BY <3>3, <3>4, <3>8 DEF FlowOK
  <2>2. ASSUME NEW c \in Conns, NEW t \in TunnelIds PROVE FlowOK(c, t)'
    BY <2>1 DEF FlowOK
  <2> QED
    BY <2>2 DEF FlowInv
<1> QED
  BY <1>5, <1>6, <1>7, <1>8, <1>9, <1>10 DEF TunnelsInv

(* A notice of closure is queued as the last frame of one connection, or is lost. *)
LEMMA Noticed ==
    ASSUME TypeOK, NoGhostEntries, NEW d \in Devices, NEW t \in TunnelIds, ForwardClose(d, t),
           NEW c \in Conns
    PROVE  \/ outq'[c] = outq[c]
           \/ pc[c] \notin Early /\ \E m \in Frame : m.kind = "close" /\ outq'[c] = Append(outq[c], m)
<1>1. CloseFrame(t) \in Frame /\ CloseFrame(t).kind = "close"
  BY BoundsAreNat DEF CloseFrame, Frame
<1>2. TrySend(d, CloseFrame(t))
  BY DEF ForwardClose
<1>3. Loop \cap Early = {} /\ "routed" \notin Early /\ "ended" \notin Early
  BY DEF Loop, Early
<1> HIDE DEF CloseFrame
<1> QED
  BY <1>1, <1>2, <1>3, Sent

(* A task that writes nothing has no frame in hand.  *)
LEMMA NoFrameInHand ==
    ASSUME TunnelsInv, NEW c \in Conns, pc[c] # "writing" PROVE frame[c] = NoFrame
BY DEF TunnelsInv, StageInv, StageOK

(* The tasks other than k rest.  *)
Others(k) ==
    \A c \in Conns : c # k => pc'[c] = pc[c] /\ arg'[c] = arg[c] /\ frame'[c] = frame[c]

(* A task that rests is calm.  *)
LEMMA RestIsCalm ==
    ASSUME TunnelsInv, NEW c \in Conns, pc'[c] = pc[c], arg'[c] = arg[c], frame'[c] = frame[c]
    PROVE  TaskCalm(c)
<1>1. StageOK(c)
  BY DEF TunnelsInv, StageInv
<1> QED
  BY <1>1 DEF TaskCalm, StageOK

(* A step of one task that begins and ends no offer and no passing on of data, and
   leaves it no frame in hand, is calm.  *)
LEMMA OneIsCalm ==
    ASSUME TunnelsInv, NEW k \in Conns, Others(k), NEW from, NEW to,
           pc[k] = from, pc'[k] = to, frame'[k] = NoFrame,
           from \notin {"offering", "touching", "forwarding", "dropping"},
           to \notin {"permitted", "inserting", "offering", "touching", "forwarding", "dropping"},
           from = "writing" => to = "ended",
           to \in Early => from \in Early,
           from \in Down => to \in Down,
           to \in Loop \cup {"routed"} => from \in Loop \cup {"routed", "online"}
    PROVE  \A c \in Conns : TaskCalm(c)
<1>1. TaskCalm(k)
  BY DEF TaskCalm
<1>2. \A c \in Conns : c # k => TaskCalm(c)
  BY RestIsCalm DEF Others
<1> QED
  BY <1>1, <1>2

(* Coming up is calm: the registered connection knows of no tunnel.  *)
LEMMA ComeUpCalm == ASSUME TypeOK, NoGhostEntries, TunnelsInv, NEW k \in Conns, ComeUp(k) PROVE Calm
<1> USE DEF registry, admitted, table, routes, reaper, clients
<1>1. CASE MarkOnline(k)
  <2>1. Others(k) /\ pc[k] = "authenticated" /\ pc'[k] = "online" /\ frame'[k] = NoFrame
    BY <1>1, NoFrameInHand DEF MarkOnline, Others, TypeOK
  <2>2. \A c \in Conns : TaskCalm(c)
    BY <2>1, OneIsCalm DEF Early, Down, Loop
  <2> QED
    BY <1>1, <2>2 DEF MarkOnline, Calm
<1>2. CASE RegisterConnection(k)
  <2>1. Others(k) /\ pc[k] = "online" /\ pc'[k] = "routed" /\ frame'[k] = NoFrame
    BY <1>2, NoFrameInHand DEF RegisterConnection, Others, TypeOK
  <2>2. \A c \in Conns : TaskCalm(c)
    BY <2>1, OneIsCalm DEF Early, Down, Loop
  <2>3. \A d \in Devices, c \in Conns : connections'[d] = c => connections[d] = c \/ pc[c] = "online"
    BY <1>2, <2>1 DEF RegisterConnection, TypeOK
  <2> QED
    BY <1>2, <2>2, <2>3 DEF RegisterConnection, Calm
<1>3. CASE RegisterKillSwitch(k)
  <2>1. Others(k) /\ pc[k] = "routed" /\ pc'[k] = "serving" /\ frame'[k] = NoFrame
    BY <1>3, NoFrameInHand DEF RegisterKillSwitch, Others, TypeOK
  <2>2. \A c \in Conns : TaskCalm(c)
    BY <2>1, OneIsCalm DEF Early, Down, Loop
  <2> QED
    BY <1>3, <2>2 DEF RegisterKillSwitch, Calm
<1> QED
  BY <1>1, <1>2, <1>3 DEF ComeUp

(* So are the handlers, but for the offer of a tunnel and the passing on of data.  *)
LEMMA HandleCalm ==
    ASSUME TypeOK, NoGhostEntries, TunnelsInv, NEW k \in Conns,
           \/ CheckTargetOnline(k) \/ TouchTunnel(k) \/ DropTunnel(k) \/ CloseRequester(k)
           \/ RemoveTunnel(k) \/ CloseOther(k) \/ KillConnection(k)
    PROVE Calm
<1> USE DEF registry, admitted, table, routes, reaper, clients
<1>0. /\ \A c \in Conns : c # k => (Others(k) => TaskCalm(c))
      /\ StageOK(k)
  BY RestIsCalm DEF Others, TunnelsInv, StageInv
<1>1. CASE CheckTargetOnline(k)
  <2>1. Others(k) /\ pc[k] = "permitted" /\ frame'[k] = NoFrame /\ frame' = frame
        /\ (pc'[k] = "writing" \/ (pc'[k] = "inserting" /\ arg'[k] = arg[k]))
    BY <1>1, NoFrameInHand DEF CheckTargetOnline, Goto, Reply, Others, TypeOK
  <2>2. TaskCalm(k)
    BY <1>0, <2>1 DEF TaskCalm, StageOK, Early, Down, Loop
  <2> QED
    BY <1>0, <1>1, <2>1, <2>2 DEF CheckTargetOnline, Calm
<1>2. CASE TouchTunnel(k)
  <2>1. Others(k) /\ pc[k] = "touching" /\ pc'[k] = "forwarding" /\ arg'[k] = arg[k]
        /\ frame'[k] = NoFrame
    BY <1>2, NoFrameInHand DEF TouchTunnel, Goto, Others, TypeOK
  <2>2. TaskCalm(k)
    BY <2>1 DEF TaskCalm, Early, Down, Loop
  <2> QED
    BY <1>0, <1>2, <2>1, <2>2 DEF TouchTunnel, Calm
<1>3. CASE DropTunnel(k)
  <2>1. arg[k].tunnel \in TunnelIds
    BY <1>3 DEF DropTunnel, TypeOK, TaskOK
  <2>2. Others(k) /\ pc[k] = "dropping" /\ pc'[k] = "closing_requester" /\ frame'[k] = NoFrame
        /\ tunnels'[arg[k].tunnel] = None /\ \A t \in TunnelIds : tunnels'[t] \in {tunnels[t], None}
    BY <1>3, <2>1, NoFrameInHand DEF DropTunnel, Goto, Others, TypeOK
  <2>3. TaskCalm(k)
    BY <2>2 DEF TaskCalm, Early, Down, Loop
  <2> QED
    BY <1>0, <1>3, <2>2, <2>3 DEF DropTunnel, Calm
<1>4. CASE CloseRequester(k)
  <2>1. arg[k].clone.requester \in Devices /\ arg[k].tunnel \in TunnelIds
    BY <1>4 DEF CloseRequester, TypeOK, TaskOK, Tunnel
  <2>2. Others(k) /\ pc[k] = "closing_requester" /\ pc'[k] = "closing_other" /\ frame'[k] = NoFrame
    BY <1>4, NoFrameInHand DEF CloseRequester, Goto, Others, TypeOK
  <2>3. \A c \in Conns : TaskCalm(c)
    BY <2>2, OneIsCalm DEF Early, Down, Loop
  <2> QED
    BY <1>4, <2>1, <2>3, Noticed DEF CloseRequester, Calm
<1>5. CASE RemoveTunnel(k)
  <2>1. Others(k) /\ pc[k] = "removing" /\ pc'[k] = "closing_other" /\ frame'[k] = NoFrame
    BY <1>5, NoFrameInHand DEF RemoveTunnel, Goto, Others, TypeOK
  <2>2. \A c \in Conns : TaskCalm(c)
    BY <2>1, OneIsCalm DEF Early, Down, Loop
  <2>3. \A t \in TunnelIds : tunnels'[t] \in {tunnels[t], None}
    BY <1>5 DEF RemoveTunnel, TypeOK
  <2> QED
    BY <1>5, <2>2, <2>3 DEF RemoveTunnel, Calm
<1>6. CASE CloseOther(k)
  <2>1. arg[k].peer \in Devices /\ arg[k].tunnel \in TunnelIds
    BY <1>6 DEF CloseOther, TypeOK, TaskOK
  <2>2. Others(k) /\ pc[k] = "closing_other" /\ pc'[k] = "serving" /\ frame'[k] = NoFrame
    BY <1>6, NoFrameInHand DEF CloseOther, Goto, Others, TypeOK
  <2>3. \A c \in Conns : TaskCalm(c)
    BY <2>2, OneIsCalm DEF Early, Down, Loop
  <2> QED
    BY <1>6, <2>1, <2>3, Noticed DEF CloseOther, Calm
<1>7. CASE KillConnection(k)
  <2>1. Others(k) /\ pc[k] = "killing" /\ pc'[k] = "writing" /\ frame'[k] = NoFrame /\ frame[k] = NoFrame
    BY <1>7, NoFrameInHand DEF KillConnection, Goto, Reply, Others, TypeOK
  <2>2. \A c \in Conns : TaskCalm(c)
    BY <2>1, OneIsCalm DEF Early, Down, Loop
  <2>3. \A c \in Conns : frame'[c] = frame[c]
    BY <2>1 DEF Others
  <2> QED
    BY <1>7, <2>2, <2>3 DEF KillConnection, Calm
<1> QED
  BY <1>1, <1>2, <1>3, <1>4, <1>5, <1>6, <1>7

(* So is going down, until the client's connection ends.  *)
LEMMA GoDownCalm ==
    ASSUME TypeOK, NoGhostEntries, TunnelsInv, NEW k \in Conns,
           \/ RemoveConnection(k) \/ RemoveKillSwitch(k) \/ CloseTunnels(k)
           \/ \E notice \in pending[k] : NotifySurvivor(k, notice)
           \/ FailWrite(k) \/ ObserveKill(k)
    PROVE Calm
<1> USE DEF registry, admitted, table, routes, reaper, clients
<1>1. CASE RemoveConnection(k)
  <2>1. Others(k) /\ pc[k] = "ended" /\ pc'[k] = "unrouted" /\ frame'[k] = NoFrame
    BY <1>1, NoFrameInHand DEF RemoveConnection, Others, TypeOK
  <2>2. \A c \in Conns : TaskCalm(c)
    BY <2>1, OneIsCalm DEF Early, Down, Loop
  <2>3. \A d \in Devices, c \in Conns : connections'[d] = c => connections[d] = c
    BY <1>1, NoneIsFresh DEF RemoveConnection, TypeOK
  <2> QED
    BY <1>1, <2>2, <2>3 DEF RemoveConnection, Calm
<1>2. CASE RemoveKillSwitch(k)
  <2>1. Others(k) /\ pc[k] = "unrouted" /\ pc'[k] = "unkillable" /\ frame'[k] = NoFrame
    BY <1>2, NoFrameInHand DEF RemoveKillSwitch, Others, TypeOK
  <2>2. \A c \in Conns : TaskCalm(c)
    BY <2>1, OneIsCalm DEF Early, Down, Loop
  <2> QED
    BY <1>2, <2>2 DEF RemoveKillSwitch, Calm
<1>3. CASE CloseTunnels(k)
  <2>1. Others(k) /\ pc[k] = "unkillable" /\ pc'[k] = "notifying" /\ frame'[k] = NoFrame
    BY <1>3, NoFrameInHand DEF CloseTunnels, Others, TypeOK
  <2>2. \A c \in Conns : TaskCalm(c)
    BY <2>1, OneIsCalm DEF Early, Down, Loop
  <2> QED
    BY <1>3, <2>2 DEF CloseTunnels, Calm
<1>4. ASSUME NEW notice \in pending[k], NotifySurvivor(k, notice) PROVE Calm
  <2>1. notice.to \in Devices /\ notice.tunnel \in TunnelIds
    BY <1>4 DEF TypeOK
  <2>2. \A c \in Conns : TaskCalm(c)
    BY <1>4, RestIsCalm DEF NotifySurvivor
  <2> QED
    BY <1>4, <2>1, <2>2, Noticed DEF NotifySurvivor, Calm
<1>5. CASE FailWrite(k)
  <2>1. Others(k) /\ pc[k] = "writing" /\ pc'[k] = "ended" /\ frame'[k] = NoFrame
    BY <1>5 DEF FailWrite, Goto, Others, TypeOK
  <2>2. \A c \in Conns : TaskCalm(c)
    BY <2>1, OneIsCalm DEF Early, Down, Loop
  <2>3. \A c \in Conns : frame'[c] = frame[c] \/ (frame'[c] = NoFrame /\ pc'[c] = "ended")
    BY <2>1 DEF Others
  <2> QED
    BY <1>5, <2>2, <2>3 DEF FailWrite, Calm
<1>6. CASE ObserveKill(k)
  <2>1. Others(k) /\ pc[k] = "serving" /\ pc'[k] = "ended" /\ frame'[k] = NoFrame
    BY <1>6, NoFrameInHand DEF ObserveKill, Goto, Others, TypeOK
  <2>2. \A c \in Conns : TaskCalm(c)
    BY <2>1, OneIsCalm DEF Early, Down, Loop
  <2> QED
    BY <1>6, <2>2 DEF ObserveKill, Calm
<1> QED
  BY <1>1, <1>2, <1>3, <1>4, <1>5, <1>6

(* So are a client's requests other than its data.  *)
LEMMA EnvironmentCalm ==
    ASSUME TypeOK, NoGhostEntries, TunnelsInv, NEW k \in Conns,
           \/ \E d \in Devices, p \in Purposes : CheckPermitted(k, d, p)
           \/ \E t \in TunnelIds : RecvClose(k, t)
           \/ \E d \in Devices : RevokeDevice(k, d) \/ RevokePhoneSession(k, d)
           \/ EndConnection(k)
    PROVE Calm
<1> USE DEF registry, admitted, table, routes, reaper, clients
<1>0. \A c \in Conns : c # k => (Others(k) => TaskCalm(c))
  BY RestIsCalm DEF Others
<1>1. ASSUME NEW d \in Devices, NEW p \in Purposes, CheckPermitted(k, d, p) PROVE Calm
  <2>1. [NoArg EXCEPT !.peer = d].peer = d
    BY DEF NoArg
  <2>2. Others(k) /\ pc[k] = "serving" /\ frame'[k] = NoFrame /\ frame' = frame /\ d # dev[k]
        /\ (pc'[k] = "writing" \/ (pc'[k] = "permitted" /\ arg'[k].peer = d))
    <3>1. pc[k] = "serving" /\ d # dev[k] /\ frame[k] = NoFrame
      BY <1>1, NoFrameInHand DEF CheckPermitted
    <3>2. CASE Goto(k, "permitted", [NoArg EXCEPT !.peer = d]) /\ UNCHANGED frame
      BY <2>1, <3>1, <3>2 DEF Goto, Others, TypeOK
    <3>3. CASE Reply(k, NoFrame)
      BY <3>1, <3>3 DEF Goto, Reply, Others, TypeOK
    <3> QED
      BY <1>1, <3>2, <3>3 DEF CheckPermitted
  <2>3. TaskCalm(k)
    BY <2>2 DEF TaskCalm, Early, Down, Loop
  <2> QED
    BY <1>0, <1>1, <2>2, <2>3 DEF CheckPermitted, Calm
<1>2. ASSUME NEW t \in TunnelIds, RecvClose(k, t) PROVE Calm
  <2>1. Others(k) /\ pc[k] = "serving" /\ pc'[k] \in {"serving", "removing"} /\ frame'[k] = NoFrame
    BY <1>2, NoFrameInHand DEF RecvClose, Goto, Others, TypeOK
  <2>2. \A c \in Conns : TaskCalm(c)
    BY <2>1, OneIsCalm DEF Early, Down, Loop
  <2>3. \A c \in Conns, u \in TunnelIds :
          \/ client'[c][u] = client[c][u]
          \/ client[c][u] = "open" /\ client'[c][u] = "closed" /\ pc'[c] \notin {"touching", "forwarding"}
    BY <1>2, <2>1 DEF RecvClose, TypeOK
  <2> QED
    BY <1>2, <2>2, <2>3 DEF RecvClose, Calm
<1>3. ASSUME NEW d \in Devices, RevokeDevice(k, d) \/ RevokePhoneSession(k, d) PROVE Calm
  <2>1. Others(k) /\ pc[k] = "serving" /\ pc'[k] = "killing" /\ frame'[k] = NoFrame
    BY <1>3, NoFrameInHand DEF RevokeDevice, RevokePhoneSession, Goto, Others, TypeOK
  <2>2. \A c \in Conns : TaskCalm(c)
    BY <2>1, OneIsCalm DEF Early, Down, Loop
  <2> QED
    BY <1>3, <2>2 DEF RevokeDevice, RevokePhoneSession, Calm
<1>4. CASE EndConnection(k)
  <2>1. Others(k) /\ pc[k] = "serving" /\ pc'[k] = "ended" /\ frame'[k] = NoFrame
    BY <1>4, NoFrameInHand DEF EndConnection, Goto, Others, TypeOK
  <2>2. \A c \in Conns : TaskCalm(c)
    BY <2>1, OneIsCalm DEF Early, Down, Loop
  <2> QED
    BY <1>4, <2>2 DEF EndConnection, Calm
<1> QED
  BY <1>1, <1>2, <1>3, <1>4

(* And so is everything the idle reaper does.  *)
LEMMA ReaperCalm ==
    ASSUME TypeOK, NoGhostEntries, TunnelsInv,
           UNCHANGED vars \/ Reaper \/ \E t \in TunnelIds : Age(t)
    PROVE Calm
<1> USE DEF registry, admitted, table, routes, reaper, clients
<1>0. UNCHANGED <<pc, arg, frame>> => \A c \in Conns : TaskCalm(c)
  BY RestIsCalm
<1>1. CASE UNCHANGED vars
  BY <1>0, <1>1 DEF vars, Calm
<1>2. CASE Reap
  BY <1>0, <1>2 DEF Reap, Calm
<1>3. ASSUME NEW r \in reapPending, ReapTellRequester(r) PROVE Calm
  <2>1. r.entry.requester \in Devices /\ r.tunnel \in TunnelIds
    BY <1>3 DEF TypeOK, Tunnel
  <2> QED
    BY <1>0, <1>3, <2>1, Noticed DEF ReapTellRequester, Calm
<1>4. CASE ReapTellTarget
  <2>1. reapTarget.entry.target \in Devices /\ reapTarget.tunnel \in TunnelIds
    BY <1>4 DEF ReapTellTarget, TypeOK, Tunnel
  <2> QED
    BY <1>0, <1>4, <2>1, Noticed DEF ReapTellTarget, Calm
<1>5. ASSUME NEW t \in TunnelIds, Age(t) PROVE Calm
  BY <1>0, <1>5 DEF Age, Calm
<1> QED
  BY <1>1, <1>2, <1>3, <1>4, <1>5 DEF Reaper

-----------------------------------------------------------------------------
(* A client that knows of a tunnel has a connection that is registered or was. *)
LEMMA Knows ==
    ASSUME TunnelsInv, NEW c \in Conns, NEW t \in TunnelIds, Told(c, t) PROVE pc[c] \notin Early
<1>1. ASSUME pc[c] \in Early PROVE FALSE
  <2>1. frame[c] = NoFrame /\ outq[c] = <<>> /\ client[c][t] = "unknown"
    BY <1>1 DEF TunnelsInv, StageInv, StageOK, Early
  <2> QED
    BY <2>1 DEF Told, Announces, NoFrame
<1> QED
  BY <1>1

(* A connection that begins or ends, and knows of no tunnel then, changes nothing of what
   is under way to the others. *)
LEMMA OneApart ==
    ASSUME TypeOK, TypeOK', TunnelsInv, NEW k \in Conns, Others(k),
           UNCHANGED <<tunnels, connections, drawn>>,
           \A c \in Conns : c # k => /\ dev'[c] = dev[c] /\ client'[c] = client[c]
                                     /\ outq'[c] = outq[c] /\ sent'[c] = sent[c] /\ got'[c] = got[c],
           pc[k] \in {"new", "notifying"}, pc'[k] \in {"authenticated", "done"},
           frame'[k] = frame[k], outq'[k] = <<>>,
           \A t \in TunnelIds : /\ client'[k][t] = "unknown"
                                /\ got'[k][t] \in {got[k][t], 0} /\ sent'[k][t] \in {sent[k][t], 0}
    PROVE  TunnelsInv'
<1>1. frame'[k] = NoFrame
  BY NoFrameInHand
<1>2. \A t \in TunnelIds : ~Told(k, t)'
  BY <1>1 DEF Told, Announces, NoFrame
<1>3. \A c \in Conns, t \in TunnelIds : Told(c, t)' => c # k /\ Told(c, t)
  BY <1>2 DEF Told, Others
<1>4. \A c \in Conns, t \in TunnelIds : /\ Passing(c, t)' <=> Passing(c, t)
                                        /\ Dropping(c, t)' <=> Dropping(c, t)
                                        /\ Passing(c, t) => c # k
  BY DEF Passing, Dropping, Others
<1>5. ASSUME NEW t \in TunnelIds, Still(t) PROVE Still(t)'
  <2>1. \A c \in Conns : got'[c][t] = 0 /\ sent'[c][t] = 0
    BY <1>5 DEF Still
  <2>2. \A c \in Conns : ~Carries(frame'[c], t)
    BY <1>5 DEF Still, Others
  <2>3. \A c \in Conns : \A i \in 1 .. Len(outq'[c]) : ~Carries(outq'[c][i], t)
    BY <1>5 DEF Still
  <2> QED
    BY <1>4, <1>5, <2>1, <2>2, <2>3 DEF Still
<1>6. StageInv'
  <2>1. StageOK(k)'
    BY <1>1 DEF StageOK, Passing
  <2>2. \A c \in Conns : c # k => StageOK(c)'
    BY DEF TunnelsInv, StageInv, StageOK, Others, Passing
  <2> QED
    BY <2>1, <2>2 DEF StageInv
<1>7. AskedInv'
  <2>1. \A c \in Conns, t \in TunnelIds : c # k => AskedOK(c, t)'
    BY DEF TunnelsInv, AskedInv, AskedOK, Others
  <2>2. \A t \in TunnelIds : AskedOK(k, t)'
    BY DEF AskedOK
  <2> QED
    BY <2>1, <2>2 DEF AskedInv
<1>8. DrawnInv'
  BY <1>3, <1>5 DEF TunnelsInv, DrawnInv
<1>9. OfferingInv'
  <2>1. ASSUME NEW c \in Conns, NEW t \in TunnelIds, c # k PROVE OfferingOK(c, t)'
    <3>1. OfferingOK(c, t)
      BY DEF TunnelsInv, OfferingInv
    <3> QED
      BY <1>3, <1>5, <2>1, <3>1 DEF OfferingOK, Others
  <2>2. \A t \in TunnelIds : OfferingOK(k, t)'
    BY DEF OfferingOK
  <2> QED
    BY <2>1, <2>2 DEF OfferingInv
<1>10. PairInv'
  <2>1. ASSUME NEW t \in TunnelIds PROVE PairOK(t)'
    <3>1. PairOK(t)
      BY DEF TunnelsInv, PairInv
    <3> QED
      BY <1>3, <1>4, <3>1 DEF PairOK, Others, Passing
  <2> QED
    BY <2>1 DEF PairInv
<1>11. FlowInv'
  <2>1. ASSUME NEW c \in Conns, NEW t \in TunnelIds, Served(c, t)' PROVE FlowOK(c, t)'
    <3>1. c # k /\ Served(c, t) /\ FlowOK(c, t)
      BY <1>3, <2>1 DEF Served, Others, TunnelsInv, FlowInv
    <3>2. PICK p \in Nat : InFlight(c, t, p)
      BY <3>1 DEF FlowOK
    <3>3. \A j \in Conns : Sends(j, c, t)' => Sends(j, c, t) /\ sent'[j] = sent[j]
      BY <1>3, <1>4, <3>1 DEF Sends
    <3>4. outq'[c] = outq[c] /\ Seen(c, t)' = Seen(c, t)
      BY <3>1 DEF Seen, Others
    <3>5. InFlight(c, t, p)'
      BY <1>4, <3>2, <3>3, <3>4 DEF InFlight
    <3> QED
      BY <3>1, <3>5 DEF FlowOK, Others
  <2>2. ASSUME NEW c \in Conns, NEW t \in TunnelIds PROVE FlowOK(c, t)'
    BY <2>1 DEF FlowOK
  <2> QED
    BY <2>2 DEF FlowInv
<1> QED
  BY <1>6, <1>7, <1>8, <1>9, <1>10, <1>11 DEF TunnelsInv

(* Authentication is such a step ... *)
LEMMA AuthenticateKeeps ==
    ASSUME TypeOK, TypeOK', TunnelsInv, NEW k \in Conns, NEW d \in Devices, Authenticate(k, d)
    PROVE  TunnelsInv'
<1> USE DEF registry, admitted, table, routes, reaper, clients
<1>1. /\ Others(k) /\ UNCHANGED <<tunnels, connections, drawn, client, outq, sent, got, frame>>
      /\ pc[k] = "new" /\ pc'[k] = "authenticated" /\ \A c \in Conns : c # k => dev'[c] = dev[c]
  BY DEF Authenticate, Others, TypeOK
<1>2. outq[k] = <<>> /\ \A t \in TunnelIds : client[k][t] = "unknown"
  BY <1>1 DEF TunnelsInv, StageInv, StageOK, Early
<1> QED
  BY <1>1, <1>2, OneApart

(* ... and so is the end of a connection.  *)
LEMMA MarkOfflineKeeps ==
    ASSUME TypeOK, TypeOK', TunnelsInv, NEW k \in Conns, MarkOffline(k)
    PROVE  TunnelsInv'
<1> USE DEF registry, admitted, table, routes, reaper, clients
<1>1. /\ Others(k) /\ UNCHANGED <<tunnels, connections, drawn, frame>>
      /\ pc[k] = "notifying" /\ pc'[k] = "done" /\ outq'[k] = <<>>
  BY DEF MarkOffline, Others, TypeOK
<1>2. \A c \in Conns : c # k => /\ dev'[c] = dev[c] /\ client'[c] = client[c]
                                /\ outq'[c] = outq[c] /\ sent'[c] = sent[c] /\ got'[c] = got[c]
  BY DEF MarkOffline, TypeOK
<1>3. \A t \in TunnelIds : client'[k][t] = "unknown" /\ got'[k][t] = 0 /\ sent'[k][t] = 0
  BY DEF MarkOffline, TypeOK
<1> QED
  BY <1>1, <1>2, <1>3, OneApart

(* Where no data has moved, what is under way is in order.  *)
LEMMA StillFlows ==
    ASSUME TypeOK', NEW t \in TunnelIds, Still(t)', NEW c \in Conns PROVE FlowOK(c, t)'
<1>1. ~Carries(frame'[c], t) /\ Seen(c, t)' = 0 /\ Chain(outq'[c], t, 0, 0)
  BY DEF Still, Seen, Chain
<1>2. \A k \in Conns : ~Passing(k, t)' /\ sent'[k][t] = 0
  BY DEF Still
<1>3. InFlight(c, t, 0)'
  BY <1>1, <1>2 DEF InFlight
<1> QED
  BY <1>1, <1>3 DEF FlowOK

(* Taking a frame from the queue moves it into the task's hand.  *)
LEMMA TakeOutboundKeeps ==
    ASSUME TypeOK, TypeOK', TunnelsInv, NEW k \in Conns, TakeOutbound(k)
    PROVE  TunnelsInv'
<1> USE DEF registry, admitted, table, routes, reaper, clients
<1>1. /\ UNCHANGED <<tunnels, connections, drawn, dev, arg, client, sent, got>>
      /\ pc[k] = "serving" /\ pc'[k] = "writing" /\ outq[k] # <<>>
      /\ frame'[k] = Head(outq[k]) /\ outq'[k] = Tail(outq[k])
      /\ \A c \in Conns : c # k => pc'[c] = pc[c] /\ frame'[c] = frame[c] /\ outq'[c] = outq[c]
  BY DEF TakeOutbound, TypeOK
<1>2. outq[k] \in Seq(Frame) /\ frame[k] = NoFrame
  BY <1>1, NoFrameInHand DEF TypeOK
<1>3. /\ Head(outq[k]) = outq[k][1] /\ 1 \in 1 .. Len(outq[k])
      /\ \A i \in 1 .. Len(outq'[k]) : outq'[k][i] = outq[k][i + 1] /\ i + 1 \in 1 .. Len(outq[k])
  BY <1>1, <1>2, Popped
<1>4. \A c \in Conns, t \in TunnelIds : /\ Passing(c, t)' <=> Passing(c, t)
                                        /\ Dropping(c, t)' <=> Dropping(c, t)
  BY <1>1 DEF Passing, Dropping
<1>5. \A t \in TunnelIds : Told(k, t)' => Told(k, t)
  BY <1>1, <1>3 DEF Told
<1>6. \A c \in Conns, t \in TunnelIds : Told(c, t)' => Told(c, t)
  BY <1>1, <1>5 DEF Told
<1>7. ASSUME NEW t \in TunnelIds, Still(t) PROVE Still(t)'
  <2>1. \A i \in 1 .. Len(outq'[k]) : ~Carries(outq'[k][i], t)
    BY <1>3, <1>7 DEF Still
  <2>2. ~Carries(frame'[k], t)
    BY <1>1, <1>3, <1>7 DEF Still
  <2>3. \A c \in Conns : ~Passing(c, t) /\ got[c][t] = 0 /\ sent[c][t] = 0
    BY <1>7 DEF Still
  <2>4. \A c \in Conns : c # k => ~Carries(frame'[c], t) /\ \A i \in 1 .. Len(outq'[c]) : ~Carries(outq'[c][i], t)
    BY <1>1, <1>7 DEF Still
  <2> QED
    BY <1>1, <1>4, <2>1, <2>2, <2>3, <2>4 DEF Still
<1>8. StageInv'
  <2>1. ASSUME NEW c \in Conns PROVE StageOK(c)'
    <3>1. StageOK(c) /\ (c # k => outq'[c] = outq[c])
      BY <1>1 DEF TunnelsInv, StageInv
    <3> QED
      BY <1>1, <1>4, <3>1 DEF StageOK, Early
  <2> QED
    BY <2>1 DEF StageInv
<1>9. AskedInv'
  <2>1. ASSUME NEW c \in Conns, NEW t \in TunnelIds PROVE AskedOK(c, t)'
    <3>1. AskedOK(c, t)
      BY DEF TunnelsInv, AskedInv
    <3> QED
      BY <1>1, <3>1 DEF AskedOK, Down
  <2> QED
    BY <2>1 DEF AskedInv
<1>10. DrawnInv'
  BY <1>1, <1>6, <1>7 DEF TunnelsInv, DrawnInv
<1>11. OfferingInv'
  <2>1. ASSUME NEW c \in Conns, NEW t \in TunnelIds PROVE OfferingOK(c, t)'
    <3>1. OfferingOK(c, t)
      BY DEF TunnelsInv, OfferingInv
    <3> QED
      BY <1>1, <1>6, <1>7, <3>1 DEF OfferingOK
  <2> QED
    BY <2>1 DEF OfferingInv
<1>12. PairInv'
  <2>1. ASSUME NEW t \in TunnelIds PROVE PairOK(t)'
    <3>1. PairOK(t)
      BY DEF TunnelsInv, PairInv
    <3> QED
      BY <1>1, <1>4, <1>6, <3>1 DEF PairOK
  <2> QED
    BY <2>1 DEF PairInv
<1>13. FlowInv'
  <2>1. ASSUME NEW c \in Conns, NEW t \in TunnelIds, Served(c, t)' PROVE FlowOK(c, t)'
    <3>1. Served(c, t) /\ FlowOK(c, t)
      BY <1>1, <1>6, <2>1 DEF Served, Loop, TunnelsInv, FlowInv
    <3>2. PICK p \in Nat : InFlight(c, t, p)
      BY <3>1 DEF FlowOK
    <3>3. \A j \in Conns : Sends(j, c, t)' => Sends(j, c, t)
      BY <1>1, <1>4, <1>6 DEF Sends
    <3>4. /\ Chain(outq'[c], t, Seen(c, t)', p)
          /\ Carries(frame'[c], t) => frame'[c].n = got'[c][t] + 1
      <4>1. Chain(outq[c], t, Seen(c, t), p)
        BY <3>2 DEF InFlight
      <4>2. CASE c # k
        <5>1. Seen(c, t)' = Seen(c, t) /\ outq'[c] = outq[c] /\ frame'[c] = frame[c]
          BY <1>1, <4>2 DEF Seen
        <5> QED
          BY <1>1, <3>1, <4>1, <5>1 DEF FlowOK
      <4>3. CASE c = k
        <5>1. Seen(k, t) = got[k][t] /\ got[k][t] \in Nat
          BY <1>2, BoundsAreNat DEF Seen, Carries, NoFrame, TypeOK
        <5>2. CASE Carries(Head(outq[k]), t)
          <6>1. Head(outq[k]).n = got[k][t] + 1 /\ Chain(Tail(outq[k]), t, got[k][t] + 1, p)
            BY <1>1, <1>2, <4>1, <4>3, <5>1, <5>2, PopOwn
          <6> QED
            BY <1>1, <4>3, <5>2, <6>1 DEF Seen
        <5>3. CASE ~Carries(Head(outq[k]), t)
          <6>1. Chain(Tail(outq[k]), t, got[k][t], p)
            BY <1>1, <1>2, <4>1, <4>3, <5>1, <5>3, PopOther
          <6> QED
            BY <1>1, <4>3, <5>3, <6>1 DEF Seen
        <5> QED
          BY <5>2, <5>3
      <4> QED
        BY <4>2, <4>3
    <3>5. InFlight(c, t, p)'
      BY <1>1, <1>4, <3>2, <3>3, <3>4 DEF InFlight
    <3> QED
      BY <3>4, <3>5 DEF FlowOK
  <2>2. ASSUME NEW c \in Conns, NEW t \in TunnelIds PROVE FlowOK(c, t)'
    BY <2>1 DEF FlowOK
  <2> QED
    BY <2>2 DEF FlowInv
<1> QED
  BY <1>8, <1>9, <1>10, <1>11, <1>12, <1>13 DEF TunnelsInv

(* Handing it to the client is what makes the client know of the tunnel, and moves the
   data it has by one.  *)
LEMMA DeliverKeeps ==
    ASSUME TypeOK, TypeOK', TunnelsInv, NEW k \in Conns, Deliver(k)
    PROVE  TunnelsInv'
<1> USE DEF registry, admitted, table, routes, reaper, clients
<1>1. /\ UNCHANGED <<tunnels, connections, drawn, dev, arg, outq, sent>>
      /\ pc[k] = "writing" /\ pc'[k] = "serving" /\ frame'[k] = NoFrame
      /\ \A c \in Conns : c # k => pc'[c] = pc[c] /\ frame'[c] = frame[c]
  BY DEF Deliver, TypeOK
<1>2. /\ frame[k] \in Frame
      /\ frame[k].kind \in {"ok", "offered", "data", "close"} => frame[k].tunnel \in TunnelIds
  BY DEF TypeOK, Frame, NoFrame
<1>3. /\ \A c \in Conns : c # k => client'[c] = client[c] /\ got'[c] = got[c]
      /\ \A t \in TunnelIds : got'[k][t] = IF Carries(frame[k], t) THEN frame[k].n ELSE got[k][t]
  <2>1. \/ frame[k].kind = "data" /\ got' = [got EXCEPT ![k][frame[k].tunnel] = frame[k].n]
        \/ frame[k].kind # "data" /\ got' = got
    BY DEF Deliver
  <2>2. \A c \in Conns : c # k => got'[c] = got[c]
    BY <2>1 DEF TypeOK
  <2>3. \A t \in TunnelIds : got'[k][t] = IF Carries(frame[k], t) THEN frame[k].n ELSE got[k][t]
    BY <1>2, <2>1 DEF TypeOK, Carries
  <2>4. \A c \in Conns : c # k => client'[c] = client[c]
    BY DEF Deliver, TypeOK
  <2> QED
    BY <2>2, <2>3, <2>4
<1>4. ASSUME NEW t \in TunnelIds
      PROVE  \/ client'[k][t] = client[k][t] /\ ~Announces(frame[k], t)
             \/ client'[k][t] = "open" /\ Announces(frame[k], t)
             \/ client'[k][t] = "closed" /\ client[k][t] = "open"
  <2>1. CASE frame[k].kind \in {"ok", "offered"}
    <3>1. client' = [client EXCEPT ![k][frame[k].tunnel] = "open"]
      BY <2>1 DEF Deliver
    <3> QED
      BY <1>2, <2>1, <3>1 DEF TypeOK, Announces
  <2>2. CASE frame[k].kind \notin {"ok", "offered"}
    <3>1. \/ client' = client
          \/ frame[k].kind = "close" /\ client[k][frame[k].tunnel] = "open"
             /\ client' = [client EXCEPT ![k][frame[k].tunnel] = "closed"]
      BY <2>2 DEF Deliver
    <3> QED
      BY <1>2, <2>2, <3>1 DEF TypeOK, Announces
  <2> QED
    BY <2>1, <2>2
<1>5. \A c \in Conns, t \in TunnelIds : /\ Passing(c, t)' <=> Passing(c, t)
                                        /\ Dropping(c, t)' <=> Dropping(c, t)
                                        /\ Passing(c, t) => c # k
  BY <1>1 DEF Passing, Dropping
<1>6. ASSUME NEW t \in TunnelIds PROVE Told(k, t)' => Told(k, t)
  <2>1. ~Announces(NoFrame, t)
    BY DEF Announces, NoFrame
  <2> QED
    BY <1>1, <1>4, <2>1 DEF Told
<1>7. \A c \in Conns, t \in TunnelIds : Told(c, t)' => Told(c, t)
  BY <1>1, <1>3, <1>6 DEF Told
<1>8. ASSUME NEW t \in TunnelIds, Still(t) PROVE Still(t)'
  <2>1. ~Carries(NoFrame, t)
    BY DEF Carries, NoFrame
  <2> QED
    BY <1>1, <1>3, <1>5, <1>8, <2>1 DEF Still
<1>9. StageInv'
  <2>1. StageOK(k)'
    BY <1>1, <1>5 DEF StageOK, Early
  <2>2. \A c \in Conns : c # k => StageOK(c)'
    BY <1>1, <1>3, <1>5 DEF TunnelsInv, StageInv, StageOK
  <2> QED
    BY <2>1, <2>2 DEF StageInv
<1>10. AskedInv'
  <2>1. ASSUME NEW t \in TunnelIds PROVE AskedOK(k, t)'
    <3>1. AskedOK(k, t)
      BY DEF TunnelsInv, AskedInv
    <3>2. client'[k][t] # "asked"
      BY <1>1, <1>4, <3>1 DEF AskedOK, Down
    <3> QED
      BY <3>2 DEF AskedOK
  <2>2. \A c \in Conns, t \in TunnelIds : c # k => AskedOK(c, t)'
    BY <1>1, <1>3 DEF TunnelsInv, AskedInv, AskedOK
  <2> QED
    BY <2>1, <2>2 DEF AskedInv
<1>11. DrawnInv'
  BY <1>1, <1>7, <1>8 DEF TunnelsInv, DrawnInv
<1>12. OfferingInv'
  <2>1. ASSUME NEW c \in Conns, NEW t \in TunnelIds PROVE OfferingOK(c, t)'
    <3>1. OfferingOK(c, t)
      BY DEF TunnelsInv, OfferingInv
    <3> QED
      BY <1>1, <1>3, <1>7, <1>8, <3>1 DEF OfferingOK
  <2> QED
    BY <2>1 DEF OfferingInv
<1>13. PairInv'
  <2>1. ASSUME NEW t \in TunnelIds PROVE PairOK(t)'
    <3>1. PairOK(t)
      BY DEF TunnelsInv, PairInv
    <3> QED
      BY <1>1, <1>5, <1>7, <3>1 DEF PairOK
  <2> QED
    BY <2>1 DEF PairInv
<1>14. FlowInv'
  <2>1. ASSUME NEW c \in Conns, NEW t \in TunnelIds, Served(c, t)' PROVE FlowOK(c, t)'
    <3>1. Served(c, t) /\ FlowOK(c, t)
      BY <1>1, <1>7, <2>1 DEF Served, Loop, TunnelsInv, FlowInv
    <3>2. PICK p \in Nat : InFlight(c, t, p)
      BY <3>1 DEF FlowOK
    <3>3. \A j \in Conns : Sends(j, c, t)' => Sends(j, c, t)
      BY <1>1, <1>5, <1>7 DEF Sends
    <3>4. /\ Seen(c, t)' = Seen(c, t)
          /\ Carries(frame'[c], t) => frame'[c].n = got'[c][t] + 1
      <4>1. ~Carries(NoFrame, t)
        BY DEF Carries, NoFrame
      <4>2. CASE c # k
        BY <1>1, <1>3, <3>1, <4>2 DEF Seen, FlowOK
      <4>3. CASE c = k
        BY <1>1, <1>3, <4>1, <4>3 DEF Seen
      <4> QED
        BY <4>2, <4>3
    <3>5. InFlight(c, t, p)'
      BY <1>1, <1>5, <3>2, <3>3, <3>4 DEF InFlight
    <3> QED
      BY <3>4, <3>5 DEF FlowOK
  <2>2. ASSUME NEW c \in Conns, NEW t \in TunnelIds PROVE FlowOK(c, t)'
    BY <2>1 DEF FlowOK
  <2> QED
    BY <2>2 DEF FlowInv
<1> QED
  BY <1>9, <1>10, <1>11, <1>12, <1>13, <1>14 DEF TunnelsInv

(* A client's data finds what is under way to the other end complete, or the entry gone. *)
LEMMA RecvDataKeeps ==
    ASSUME TypeOK, TypeOK', TunnelsInv, NEW k \in Conns, NEW t \in TunnelIds, RecvData(k, t)
    PROVE  TunnelsInv'
<1> USE DEF registry, admitted, table, routes, reaper, clients
<1>1. /\ UNCHANGED <<tunnels, connections, drawn, dev, client, frame, outq, got>>
      /\ pc[k] = "serving" /\ client[k][t] = "open"
      /\ \A c \in Conns : c # k => pc'[c] = pc[c] /\ arg'[c] = arg[c] /\ sent'[c] = sent[c]
      /\ sent'[k][t] = sent[k][t] + 1 /\ \A u \in TunnelIds : u # t => sent'[k][u] = sent[k][u]
  BY DEF RecvData, Goto, TypeOK
<1>2. Told(k, t) /\ PairOK(t) /\ frame[k] = NoFrame
  BY <1>1, NoFrameInHand DEF Told, TunnelsInv, PairInv
<1>3. \/ /\ tunnels[t] # None /\ pc'[k] = "touching" /\ arg'[k].tunnel = t
         /\ arg'[k].peer = OtherParty(tunnels[t], dev[k]) /\ arg'[k].n = sent'[k][t]
      \/ tunnels[t] = None /\ pc'[k] = "serving"
  <2>1. CASE tunnels[t] # None
    <3>1. IsParty(tunnels[t], dev[k])
      BY <1>2, <2>1 DEF PairOK
    <3> QED
      BY <1>1, <2>1, <3>1 DEF RecvData, Goto, TypeOK
  <2>2. CASE tunnels[t] = None
    BY <1>1, <2>2 DEF RecvData
  <2> QED
    BY <2>1, <2>2
<1>4. \A c \in Conns, u \in TunnelIds :
         /\ c # k \/ u # t => (Passing(c, u)' <=> Passing(c, u))
         /\ Dropping(c, u)' <=> Dropping(c, u)
         /\ Passing(c, u) => c # k
  BY <1>1, <1>3 DEF Passing, Dropping
<1>5. ~Dropping(k, t) /\ (Passing(k, t)' <=> tunnels[t] # None)
  BY <1>1, <1>3 DEF Dropping, Passing
<1>6. \A c \in Conns, u \in TunnelIds : Told(c, u)' = Told(c, u)
  BY <1>1 DEF Told
<1>7. ASSUME NEW u \in TunnelIds, u # t, Still(u) PROVE Still(u)'
  BY <1>1, <1>4, <1>7 DEF Still
<1>8. ASSUME tunnels[t] # None
      PROVE  /\ OtherParty(tunnels[t], dev[k]) # dev[k]
             /\ \A b \in Conns : b # k /\ Told(b, t) => OtherParty(tunnels[t], dev[k]) = dev[b]
  BY <1>2, <1>8 DEF PairOK, IsParty, OtherParty
<1>9. StageInv'
  <2>1. StageOK(k)'
    <3>1. pc'[k] \in {"touching", "serving"} /\ frame'[k] = NoFrame
      BY <1>1, <1>2, <1>3
    <3>2. \A u \in TunnelIds : Passing(k, u)' => u = t
      BY <1>4
    <3>3. Passing(k, t)' => arg'[k].peer # dev'[k] /\ client'[k][t] = "open" /\ arg'[k].n = sent'[k][t]
      BY <1>1, <1>3, <1>5, <1>8
    <3> QED
      BY <3>1, <3>2, <3>3 DEF StageOK, Early
  <2>2. \A c \in Conns : c # k => StageOK(c)'
    BY <1>1, <1>4 DEF TunnelsInv, StageInv, StageOK, Passing
  <2> QED
    BY <2>1, <2>2 DEF StageInv
<1>10. AskedInv'
  <2>1. ASSUME NEW u \in TunnelIds PROVE AskedOK(k, u)'
    <3>1. AskedOK(k, u)
      BY DEF TunnelsInv, AskedInv
    <3> QED
      BY <1>1, <3>1 DEF AskedOK, Down
  <2>2. \A c \in Conns, u \in TunnelIds : c # k => AskedOK(c, u)'
    BY <1>1 DEF TunnelsInv, AskedInv, AskedOK
  <2> QED
    BY <2>1, <2>2 DEF AskedInv
<1>11. DrawnInv'
  <2>1. t \in drawn
    BY <1>2 DEF TunnelsInv, DrawnInv
  <2> QED
    BY <1>1, <1>6, <1>7, <2>1 DEF TunnelsInv, DrawnInv
<1>12. OfferingInv'
  <2>1. ASSUME NEW c \in Conns, NEW u \in TunnelIds, pc'[c] = "offering", arg'[c].tunnel = u
        PROVE  OfferingOK(c, u)'
    <3>1. c # k /\ OfferingOK(c, u) /\ pc[c] = "offering" /\ arg[c].tunnel = u
      BY <1>1, <1>3, <2>1 DEF TunnelsInv, OfferingInv
    <3>2. u # t
      BY <1>2, <3>1 DEF OfferingOK
    <3> QED
      BY <1>1, <1>6, <1>7, <3>1, <3>2 DEF OfferingOK
  <2>2. ASSUME NEW c \in Conns, NEW u \in TunnelIds PROVE OfferingOK(c, u)'
    BY <2>1 DEF OfferingOK
  <2> QED
    BY <2>2 DEF OfferingInv
<1>13. PairInv'
  <2>1. ASSUME NEW u \in TunnelIds PROVE PairOK(u)'
    <3>1. PairOK(u)
      BY DEF TunnelsInv, PairInv
    <3>2. ASSUME NEW a \in Conns, NEW b \in Conns, a # b, Told(a, u), Told(b, u), Passing(a, u)'
          PROVE  arg'[a].peer = dev[b]
      <4>1. CASE a = k /\ u = t
        BY <1>3, <1>5, <1>8, <3>2, <4>1
      <4>2. CASE a # k \/ u # t
        BY <1>1, <1>4, <3>1, <3>2, <4>2 DEF PairOK
      <4> QED
        BY <4>1, <4>2
    <3> QED
      BY <1>1, <1>6, <3>1, <3>2 DEF PairOK
  <2> QED
    BY <2>1 DEF PairInv
<1>14. FlowInv'
  <2>1. ASSUME NEW c \in Conns, NEW u \in TunnelIds, Served(c, u)' PROVE FlowOK(c, u)'
    <3>1. Served(c, u) /\ FlowOK(c, u)
      BY <1>1, <1>3, <1>6, <2>1 DEF Served, Loop, TunnelsInv, FlowInv
    <3>2. PICK p \in Nat : InFlight(c, u, p)
      BY <3>1 DEF FlowOK
    <3>3. outq'[c] = outq[c] /\ frame'[c] = frame[c] /\ got'[c] = got[c] /\ Seen(c, u)' = Seen(c, u)
      BY <1>1 DEF Seen
    <3>4. ASSUME NEW j \in Conns, Sends(j, c, u)'
          PROVE  IF Passing(j, u)' THEN p + 1 = sent'[j][u] ELSE p = sent'[j][u]
      <4>1. CASE j # k \/ u # t
        <5>1. Sends(j, c, u)
          BY <1>1, <1>4, <1>6, <3>4, <4>1 DEF Sends
        <5>2. sent'[j][u] = sent[j][u] /\ (Passing(j, u)' <=> Passing(j, u))
          BY <1>1, <1>4, <4>1
        <5> QED
          BY <3>2, <5>1, <5>2 DEF InFlight
      <4>2. CASE j = k /\ u = t
        <5>1. tunnels[t] # None /\ Passing(k, t)'
          BY <1>1, <1>5, <3>4, <4>2 DEF Sends
        <5>2. Sends(k, c, t) /\ ~Passing(k, t)
          BY <1>1, <1>2, <1>4, <1>5, <3>4, <4>2, <5>1 DEF Sends
        <5>3. p = sent[k][t]
          BY <3>2, <4>2, <5>2 DEF InFlight
        <5> QED
          BY <1>1, <4>2, <5>1, <5>3
      <4> QED
        BY <4>1, <4>2
    <3>5. InFlight(c, u, p)'
      BY <3>2, <3>3, <3>4 DEF InFlight
    <3> QED
      BY <3>1, <3>3, <3>5 DEF FlowOK
  <2>2. ASSUME NEW c \in Conns, NEW u \in TunnelIds PROVE FlowOK(c, u)'
    BY <2>1 DEF FlowOK
  <2> QED
    BY <2>2 DEF FlowInv
<1> QED
  BY <1>9, <1>10, <1>11, <1>12, <1>13, <1>14 DEF TunnelsInv

(* Passing it on queues it next, or costs the tunnel.  *)
LEMMA ForwardDataKeeps ==
    ASSUME TypeOK, TypeOK', NoGhostEntries, TunnelsInv, NEW k \in Conns, ForwardData(k)
    PROVE  TunnelsInv'
<1>0. PICK t \in TunnelIds : t = arg[k].tunnel
  BY DEF ForwardData, TypeOK, TaskOK
<1> DEFINE data == [kind |-> "data", tunnel |-> t, n |-> arg[k].n]
           d == arg[k].peer
           c0 == connections[d]
<1> USE DEF registry, admitted, table, routes, reaper, clients
<1>1. /\ UNCHANGED <<tunnels, connections, drawn, dev, client, frame, got, sent>>
      /\ pc[k] = "forwarding"
      /\ \A c \in Conns : c # k => pc'[c] = pc[c] /\ arg'[c] = arg[c]
      /\ \/ Accepts(d) /\ pc'[k] = "serving"
         \/ ~Accepts(d) /\ pc'[k] = "dropping" /\ arg'[k] = arg[k]
  BY DEF ForwardData, AfterForward, Goto, TypeOK
<1>2. d \in Devices /\ arg[k].n \in 0..MaxData
  BY <1>1 DEF TypeOK, TaskOK, Arg
<1>3. data \in Frame /\ TrySend(d, data)
  BY <1>0, <1>2 DEF ForwardData, Frame
<1>4. Passing(k, t) /\ d # dev[k] /\ client[k][t] = "open" /\ arg[k].n = sent[k][t] /\ frame[k] = NoFrame
  BY <1>0, <1>1, <1>2, NoFrameInHand DEF Passing, TunnelsInv, StageInv, StageOK
<1>5. /\ ~Carries(NoFrame, t)
      /\ \A u : Carries(data, u) <=> u = t
      /\ \A u : ~Announces(data, u)
      /\ data.n = sent[k][t]
  BY <1>4 DEF Carries, Announces, NoFrame
<1>6. \/ ~Accepts(d) /\ outq' = outq
      \/ /\ Accepts(d) /\ c0 \in Conns /\ dev[c0] = d
         /\ outq'[c0] = Append(outq[c0], data) /\ pc[c0] \notin Early
         /\ \A c \in Conns : c # c0 => outq'[c] = outq[c]
  <2> HIDE DEF data
  <2>1. Loop \cap Early = {} /\ "routed" \notin Early /\ "ended" \notin Early
    BY DEF Loop, Early
  <2> QED
    BY <1>2, <1>3, <2>1, Sent
<1> HIDE DEF data, d, c0
<1>7. ASSUME NEW c \in Conns, NEW i \in 1 .. Len(outq'[c])
      PROVE  (i \in 1 .. Len(outq[c]) /\ outq'[c][i] = outq[c][i]) \/ outq'[c][i] = data
  <2>1. outq[c] \in Seq(Frame)
    BY DEF TypeOK
  <2>2. CASE outq'[c] = outq[c]
    BY <2>2
  <2>3. CASE outq'[c] = Append(outq[c], data)
    BY <1>3, <2>1, <2>3, Pushed
  <2> QED
    BY <1>6, <2>2, <2>3
<1>8. \A c \in Conns, u \in TunnelIds :
         /\ Passing(c, u)' <=> Passing(c, u) /\ c # k
         /\ c # k \/ u # t => (Dropping(c, u)' <=> Dropping(c, u))
         /\ Passing(k, u) => u = t
  BY <1>0, <1>1 DEF Passing, Dropping
<1>9. \A c \in Conns, u \in TunnelIds : Told(c, u)' => Told(c, u)
  BY <1>1, <1>5, <1>7 DEF Told
<1>10. ASSUME NEW u \in TunnelIds, Still(u) PROVE u # t /\ Still(u)'
  <2>1. u # t
    BY <1>4, <1>10 DEF Still
  <2> QED
    BY <1>1, <1>5, <1>7, <1>8, <1>10, <2>1 DEF Still
<1>11. StageInv'
  <2>1. ASSUME NEW c \in Conns PROVE StageOK(c)'
    <3>1. StageOK(c)
      BY DEF TunnelsInv, StageInv
    <3>2. pc'[c] \in Early => outq'[c] = outq[c] /\ c # k
      BY <1>1, <1>6 DEF Early
    <3>3. \A u \in TunnelIds : Passing(c, u)' => Passing(c, u) /\ c # k
      BY <1>8
    <3> QED
      BY <1>1, <1>4, <3>1, <3>2, <3>3 DEF StageOK
  <2> QED
    BY <2>1 DEF StageInv
<1>12. AskedInv'
  <2>1. ASSUME NEW c \in Conns, NEW u \in TunnelIds PROVE AskedOK(c, u)'
    <3>1. AskedOK(c, u)
      BY DEF TunnelsInv, AskedInv
    <3> QED
      BY <1>1, <3>1 DEF AskedOK, Down
  <2> QED
    BY <2>1 DEF AskedInv
<1>13. DrawnInv'
  BY <1>1, <1>9, <1>10 DEF TunnelsInv, DrawnInv
<1>14. OfferingInv'
  <2>1. ASSUME NEW c \in Conns, NEW u \in TunnelIds PROVE OfferingOK(c, u)'
    <3>1. OfferingOK(c, u)
      BY DEF TunnelsInv, OfferingInv
    <3>2. pc'[c] = "offering" => c # k
      BY <1>1
    <3> QED
      BY <1>1, <1>5, <1>7, <1>9, <1>10, <3>1, <3>2 DEF OfferingOK
  <2> QED
    BY <2>1 DEF OfferingInv
<1>15. PairInv'
  <2>1. ASSUME NEW u \in TunnelIds PROVE PairOK(u)'
    <3>1. PairOK(u)
      BY DEF TunnelsInv, PairInv
    <3> QED
      BY <1>1, <1>8, <1>9, <3>1 DEF PairOK
  <2> QED
    BY <2>1 DEF PairInv
<1>16. FlowInv'
  <2>1. ASSUME NEW c \in Conns, NEW u \in TunnelIds, Served(c, u)' PROVE FlowOK(c, u)'
    <3>1. Served(c, u) /\ FlowOK(c, u)
      BY <1>1, <1>9, <2>1 DEF Served, Loop, TunnelsInv, FlowInv
    <3>2. PICK p \in Nat : InFlight(c, u, p)
      BY <3>1 DEF FlowOK
    <3>3. frame'[c] = frame[c] /\ got'[c] = got[c] /\ Seen(c, u)' = Seen(c, u)
      BY <1>1 DEF Seen
    <3>4. outq[c] \in Seq(Frame) /\ Seen(c, u) \in Nat /\ Chain(outq[c], u, Seen(c, u), p)
      <4>1. Seen(c, u) \in Nat /\ outq[c] \in Seq(Frame)
        BY SeenIsNumber DEF TypeOK
      <4> QED
        BY <3>2, <4>1 DEF InFlight
    <3>5. ASSUME NEW j \in Conns, j # k \/ u # t, Sends(j, c, u)' PROVE Sends(j, c, u)
      BY <1>1, <1>8, <1>9, <3>5 DEF Sends
    <3>6. CASE u # t
      <4>1. Chain(outq'[c], u, Seen(c, u)', p)
        BY <1>3, <1>5, <1>6, <3>3, <3>4, <3>6, PushOther
      <4>2. InFlight(c, u, p)'
        BY <1>1, <1>8, <3>2, <3>5, <3>6, <4>1 DEF InFlight
      <4> QED
        BY <3>1, <3>3, <4>2 DEF FlowOK
    <3>7. CASE u = t /\ Accepts(d) /\ c = c0
      <4>1. Told(k, t) /\ c # k /\ connections[dev[c]] = c /\ ~Dropping(k, t)
        BY <1>1, <1>4, <1>6, <3>7 DEF Told, Dropping, c0
      <4>2. p + 1 = sent[k][t]
        BY <1>4, <3>2, <3>7, <4>1 DEF InFlight, Sends
      <4>3. Chain(outq'[c], t, Seen(c, t)', p + 1)
        BY <1>3, <1>5, <1>6, <3>3, <3>4, <3>7, <4>2, PushOwn
      <4>4. ASSUME NEW j \in Conns, Sends(j, c, t)' PROVE j = k
        <5>1. j # c /\ Told(j, t) /\ Told(c, t)
          BY <1>9, <3>1, <3>7, <4>4 DEF Sends, Served
        <5>2. PairOK(t)
          BY <1>2 DEF TunnelsInv, PairInv
        <5> QED
          BY <4>1, <5>1, <5>2 DEF PairOK
      <4>5. InFlight(c, t, p + 1)'
        BY <1>1, <1>8, <4>2, <4>3, <4>4 DEF InFlight
      <4>6. p + 1 \in Nat
        OBVIOUS
      <4> QED
        BY <3>1, <3>3, <3>7, <4>5, <4>6 DEF FlowOK
    <3>8. CASE u = t /\ ~(Accepts(d) /\ c = c0)
      <4>1. outq'[c] = outq[c]
        BY <1>6, <3>8
      <4>2. ~Sends(k, c, t)'
        <5>1. ASSUME Sends(k, c, t)' PROVE FALSE
          <6>1. c # k /\ Told(k, t) /\ Told(c, t) /\ connections[dev[c]] = c /\ ~Dropping(k, t)'
            BY <1>1, <1>9, <3>1, <3>8, <5>1 DEF Sends, Served
          <6>2. PairOK(t)
            BY <1>2 DEF TunnelsInv, PairInv
          <6>3. d = dev[c]
            BY <1>4, <6>1, <6>2 DEF PairOK, d
          <6>4. c = c0
            BY <6>1, <6>3 DEF c0
          <6>5. pc'[k] = "dropping" /\ arg'[k] = arg[k]
            BY <1>1, <3>8, <6>4
          <6> QED
            BY <1>0, <6>1, <6>5 DEF Dropping
        <5> QED
          BY <5>1
      <4>3. \A j \in Conns : Sends(j, c, t)' => j # k /\ Sends(j, c, t)
        BY <3>5, <3>8, <4>2
      <4>4. InFlight(c, t, p)'
        BY <1>1, <1>8, <3>2, <3>3, <3>8, <4>1, <4>3 DEF InFlight
      <4> QED
        BY <3>1, <3>3, <3>8, <4>4 DEF FlowOK
    <3> QED
      BY <3>6, <3>7, <3>8
  <2>2. ASSUME NEW c \in Conns, NEW u \in TunnelIds PROVE FlowOK(c, u)'
    BY <2>1 DEF FlowOK
  <2> QED
    BY <2>2 DEF FlowInv
<1> QED
  BY <1>11, <1>12, <1>13, <1>14, <1>15, <1>16 DEF TunnelsInv

(* A new entry: nobody but its requester has heard of the id.  *)
LEMMA InsertTunnelKeeps ==
    ASSUME TypeOK, TypeOK', TunnelsInv, NEW k \in Conns, NEW t \in TunnelIds, InsertTunnel(k, t)
    PROVE  TunnelsInv'
<1> USE DEF registry, admitted, table, routes, reaper, clients
<1>1. /\ UNCHANGED <<connections, dev, frame, outq, sent, got>>
      /\ pc[k] = "inserting" /\ t \notin drawn /\ drawn' = drawn \cup {t}
      /\ \A c \in Conns : c # k => pc'[c] = pc[c] /\ arg'[c] = arg[c] /\ client'[c] = client[c]
      /\ pc'[k] = "offering" /\ arg'[k].tunnel = t /\ arg'[k].peer = arg[k].peer
      /\ client'[k][t] = "asked" /\ \A u \in TunnelIds : u # t => client'[k][u] = client[k][u]
      /\ tunnels'[t] = [requester |-> dev[k], target |-> arg[k].peer]
      /\ \A u \in TunnelIds : u # t => tunnels'[u] = tunnels[u]
  <2>1. arg[k] \in Arg
    BY DEF TypeOK
  <2>2. [arg[k] EXCEPT !.tunnel = t].tunnel = t /\ [arg[k] EXCEPT !.tunnel = t].peer = arg[k].peer
    BY <2>1 DEF Arg
  <2> QED
    BY <2>2 DEF InsertTunnel, Goto, TypeOK
<1>2. tunnels[t] = None /\ Still(t) /\ \A c \in Conns : ~Told(c, t)
  BY <1>1 DEF TunnelsInv, DrawnInv
<1>3. frame[k] = NoFrame /\ arg[k].peer # dev[k]
  BY <1>1, NoFrameInHand DEF TunnelsInv, StageInv, StageOK
<1>4. \A c \in Conns, u \in TunnelIds :
         /\ Passing(c, u)' <=> Passing(c, u)
         /\ Dropping(c, u)' <=> Dropping(c, u)
         /\ Passing(c, u) => c # k
  BY <1>1 DEF Passing, Dropping
<1>5. \A c \in Conns, u \in TunnelIds : c # k \/ u # t => Told(c, u)' = Told(c, u)
  BY <1>1 DEF Told
<1>6. \A c \in Conns : c # k => ~Told(c, t)'
  BY <1>2, <1>5
<1>7. ASSUME NEW u \in TunnelIds, Still(u) PROVE Still(u)'
  BY <1>1, <1>4, <1>7 DEF Still
<1>8. StageInv'
  <2>1. StageOK(k)'
    BY <1>1, <1>3, <1>4 DEF StageOK, Early
  <2>2. \A c \in Conns : c # k => StageOK(c)'
    BY <1>1, <1>4 DEF TunnelsInv, StageInv, StageOK
  <2> QED
    BY <2>1, <2>2 DEF StageInv
<1>9. AskedInv'
  <2>1. ASSUME NEW u \in TunnelIds PROVE AskedOK(k, u)'
    <3>1. AskedOK(k, u)
      BY DEF TunnelsInv, AskedInv
    <3> QED
      BY <1>1, <3>1 DEF AskedOK, Down
  <2>2. \A c \in Conns, u \in TunnelIds : c # k => AskedOK(c, u)'
    BY <1>1 DEF TunnelsInv, AskedInv, AskedOK
  <2> QED
    BY <2>1, <2>2 DEF AskedInv
<1>10. DrawnInv'
  BY <1>1, <1>5, <1>7 DEF TunnelsInv, DrawnInv
<1>11. OfferingInv'
  <2>1. ASSUME NEW c \in Conns, NEW u \in TunnelIds, pc'[c] = "offering", arg'[c].tunnel = u
        PROVE  OfferingOK(c, u)'
    <3>1. CASE c = k
      <4>1. \A i \in 1 .. Len(outq'[k]) : ~Announces(outq'[k][i], t)
        BY <1>1, <1>2 DEF Told
      <4> QED
        BY <1>1, <1>2, <1>6, <1>7, <2>1, <3>1, <4>1 DEF OfferingOK
    <3>2. CASE c # k
      <4>1. OfferingOK(c, u) /\ u \in drawn /\ u # t
        BY <1>1, <2>1, <3>2 DEF TunnelsInv, OfferingInv, OfferingOK
      <4> QED
        BY <1>1, <1>5, <1>7, <2>1, <3>2, <4>1 DEF OfferingOK
    <3> QED
      BY <3>1, <3>2
  <2>2. ASSUME NEW c \in Conns, NEW u \in TunnelIds PROVE OfferingOK(c, u)'
    BY <2>1 DEF OfferingOK
  <2> QED
    BY <2>2 DEF OfferingInv
<1>12. PairInv'
  <2>1. PairOK(t)'
    BY <1>1, <1>3, <1>6 DEF PairOK, IsParty
  <2>2. ASSUME NEW u \in TunnelIds, u # t PROVE PairOK(u)'
    <3>1. PairOK(u)
      BY DEF TunnelsInv, PairInv
    <3> QED
      BY <1>1, <1>4, <1>5, <2>2, <3>1 DEF PairOK
  <2> QED
    BY <2>1, <2>2 DEF PairInv
<1>13. FlowInv'
  <2>1. \A c \in Conns : FlowOK(c, t)'
    BY <1>2, <1>7, StillFlows
  <2>2. ASSUME NEW c \in Conns, NEW u \in TunnelIds, u # t, Served(c, u)' PROVE FlowOK(c, u)'
    <3>1. Served(c, u) /\ FlowOK(c, u)
      BY <1>1, <1>5, <2>2 DEF Served, Loop, TunnelsInv, FlowInv
    <3>2. PICK p \in Nat : InFlight(c, u, p)
      BY <3>1 DEF FlowOK
    <3>3. \A j \in Conns : Sends(j, c, u)' => Sends(j, c, u)
      BY <1>1, <1>4, <1>5, <2>2 DEF Sends
    <3>4. Seen(c, u)' = Seen(c, u)
      BY <1>1 DEF Seen
    <3>5. InFlight(c, u, p)'
      BY <1>1, <1>4, <3>2, <3>3, <3>4 DEF InFlight
    <3> QED
      BY <1>1, <3>1, <3>5 DEF FlowOK
  <2>3. ASSUME NEW c \in Conns, NEW u \in TunnelIds, u # t PROVE FlowOK(c, u)'
    BY <2>2, <2>3 DEF FlowOK
  <2> QED
    BY <2>1, <2>3 DEF FlowInv
<1> QED
  BY <1>8, <1>9, <1>10, <1>11, <1>12, <1>13 DEF TunnelsInv

(* The offer: one connection of the target at most hears of the tunnel, and the requester
   is about to.  *)
LEMMA PushTunnelOfferedKeeps ==
    ASSUME TypeOK, TypeOK', NoGhostEntries, TunnelsInv, NEW k \in Conns, PushTunnelOffered(k)
    PROVE  TunnelsInv'
<1>0. PICK t \in TunnelIds : t = arg[k].tunnel
  BY DEF PushTunnelOffered, TypeOK, TaskOK
<1>a. PICK d \in Devices : d = arg[k].peer
  BY DEF PushTunnelOffered, TypeOK, TaskOK
<1> DEFINE offer == [kind |-> "offered", tunnel |-> t, n |-> 0]
           ok == [kind |-> "ok", tunnel |-> t, n |-> 0]
           c0 == connections[d]
<1> USE DEF registry, admitted, table, routes, reaper, clients
<1>1. /\ UNCHANGED <<tunnels, connections, drawn, dev, client, got, sent>>
      /\ pc[k] = "offering" /\ pc'[k] = "writing" /\ frame'[k] = ok
      /\ \A c \in Conns : c # k => pc'[c] = pc[c] /\ arg'[c] = arg[c] /\ frame'[c] = frame[c]
      /\ TrySend(d, offer)
  BY <1>0, <1>a DEF PushTunnelOffered, AnswerOpen, Reply, Goto, TypeOK
<1>2. /\ t \in drawn /\ Still(t) /\ client[k][t] = "asked"
      /\ tunnels[t] \in {None, [requester |-> dev[k], target |-> d]}
      /\ \A c \in Conns : c # k => ~Told(c, t)
  BY <1>0, <1>a, <1>1 DEF TunnelsInv, OfferingInv, OfferingOK
<1>3. frame[k] = NoFrame /\ d # dev[k] /\ Told(k, t)
  BY <1>a, <1>1, <1>2, NoFrameInHand DEF TunnelsInv, StageInv, StageOK, Told
<1>4. /\ offer \in Frame /\ \A u : ~Carries(offer, u) /\ ~Carries(ok, u)
      /\ Announces(ok, t)
      /\ \A u : u # t => ~Announces(offer, u) /\ ~Announces(ok, u)
  BY BoundsAreNat DEF Frame, Carries, Announces
<1>5. \/ outq' = outq
      \/ /\ c0 \in Conns /\ dev[c0] = d /\ pc[c0] \notin Early
         /\ outq'[c0] = Append(outq[c0], offer)
         /\ \A c \in Conns : c # c0 => outq'[c] = outq[c]
  <2> HIDE DEF offer
  <2>1. Loop \cap Early = {} /\ "routed" \notin Early /\ "ended" \notin Early
    BY DEF Loop, Early
  <2> QED
    BY <1>1, <1>4, <2>1, Sent
<1> HIDE DEF offer, ok, c0
<1>6. ASSUME NEW c \in Conns, NEW i \in 1 .. Len(outq'[c])
      PROVE  (i \in 1 .. Len(outq[c]) /\ outq'[c][i] = outq[c][i]) \/ (outq'[c][i] = offer /\ dev[c] = d)
  <2>1. outq[c] \in Seq(Frame)
    BY DEF TypeOK
  <2>2. CASE outq'[c] = outq[c]
    BY <2>2
  <2>3. CASE outq'[c] = Append(outq[c], offer) /\ c = c0 /\ dev[c0] = d
    BY <1>4, <2>1, <2>3, Pushed
  <2> QED
    BY <1>5, <2>2, <2>3
<1>7. \A c \in Conns, u \in TunnelIds :
         /\ Passing(c, u)' <=> Passing(c, u)
         /\ Dropping(c, u)' <=> Dropping(c, u)
         /\ Passing(c, u) => c # k
  BY <1>1 DEF Passing, Dropping
<1>8. ASSUME NEW c \in Conns, NEW u \in TunnelIds, Told(c, u)' PROVE Told(c, u) \/ (u = t /\ c = c0 /\ dev[c0] = d)
  <2>1. CASE outq'[c] = outq[c]
    BY <1>1, <1>3, <1>4, <1>8, <2>1 DEF Told
  <2>2. CASE outq'[c] # outq[c]
    <3>1. c = c0 /\ dev[c0] = d /\ c # k
      BY <1>3, <1>5, <2>2
    <3>2. CASE u = t
      BY <3>1, <3>2
    <3>3. CASE u # t
      BY <1>1, <1>4, <1>6, <1>8, <3>1, <3>3 DEF Told
    <3> QED
      BY <3>2, <3>3
  <2> QED
    BY <2>1, <2>2
<1>9. ASSUME NEW u \in TunnelIds, Still(u) PROVE Still(u)'
  <2>1. \A c \in Conns : ~Carries(frame'[c], u)
    BY <1>1, <1>4, <1>9 DEF Still
  <2>2. \A c \in Conns : \A i \in 1 .. Len(outq'[c]) : ~Carries(outq'[c][i], u)
    BY <1>4, <1>6, <1>9 DEF Still
  <2> QED
    BY <1>1, <1>7, <1>9, <2>1, <2>2 DEF Still
<1>10. StageInv'
  <2>1. ASSUME NEW c \in Conns PROVE StageOK(c)'
    <3>1. StageOK(c) /\ (pc'[c] \in Early => c # k /\ outq'[c] = outq[c])
      BY <1>1, <1>5 DEF TunnelsInv, StageInv, Early
    <3> QED
      BY <1>1, <1>7, <3>1 DEF StageOK
  <2> QED
    BY <2>1 DEF StageInv
<1>11. AskedInv'
  <2>1. ASSUME NEW u \in TunnelIds PROVE AskedOK(k, u)'
    <3>1. AskedOK(k, u) /\ got[k][t] = 0
      BY <1>2 DEF TunnelsInv, AskedInv, Still
    <3> QED
      BY <1>0, <1>1, <1>4, <3>1 DEF AskedOK, Down
  <2>2. \A c \in Conns, u \in TunnelIds : c # k => AskedOK(c, u)'
    BY <1>1 DEF TunnelsInv, AskedInv, AskedOK
  <2> QED
    BY <2>1, <2>2 DEF AskedInv
<1>12. DrawnInv'
  BY <1>1, <1>2, <1>8, <1>9 DEF TunnelsInv, DrawnInv
<1>13. OfferingInv'
  <2>1. ASSUME NEW c \in Conns, NEW u \in TunnelIds, pc'[c] = "offering", arg'[c].tunnel = u
        PROVE  OfferingOK(c, u)'
    <3>1. c # k /\ OfferingOK(c, u) /\ pc[c] = "offering" /\ arg[c].tunnel = u
      BY <1>1, <2>1 DEF TunnelsInv, OfferingInv
    <3>2. u # t
      BY <1>3, <3>1 DEF OfferingOK
    <3>3. \A i \in 1 .. Len(outq'[c]) : ~Announces(outq'[c][i], u)
      BY <1>4, <1>6, <3>1, <3>2 DEF OfferingOK
    <3>4. \A j \in Conns : j # c => ~Told(j, u)'
      BY <1>8, <3>1, <3>2 DEF OfferingOK
    <3> QED
      BY <1>1, <1>9, <3>1, <3>3, <3>4 DEF OfferingOK
  <2>2. ASSUME NEW c \in Conns, NEW u \in TunnelIds PROVE OfferingOK(c, u)'
    BY <2>1 DEF OfferingOK
  <2> QED
    BY <2>2 DEF OfferingInv
<1>14. PairInv'
  <2>1. PairOK(t)'
    <3>1. PairOK(t)
      BY DEF TunnelsInv, PairInv
    <3>2. \A c \in Conns : Told(c, t)' => c = k \/ (c = c0 /\ dev[c0] = d)
      BY <1>2, <1>8
    <3>3. \A c \in Conns : ~Passing(c, t)'
      BY <1>2, <1>7 DEF Still
    <3>4. ASSUME NEW c \in Conns, Told(c, t)', tunnels[t] # None PROVE IsParty(tunnels[t], dev[c])
      BY <1>2, <3>2, <3>4 DEF IsParty
    <3> QED
      BY <1>1, <1>3, <3>1, <3>2, <3>3, <3>4 DEF PairOK
  <2>2. ASSUME NEW u \in TunnelIds, u # t PROVE PairOK(u)'
    <3>1. PairOK(u)
      BY DEF TunnelsInv, PairInv
    <3>2. \A c \in Conns : /\ Told(c, u)' => Told(c, u)
                           /\ Passing(c, u)' => Passing(c, u) /\ arg'[c] = arg[c]
      BY <1>1, <1>7, <1>8, <2>2
    <3> QED
      BY <1>1, <3>1, <3>2 DEF PairOK
  <2> QED
    BY <2>1, <2>2 DEF PairInv
<1>15. FlowInv'
  <2>1. \A c \in Conns : FlowOK(c, t)'
    BY <1>2, <1>9, StillFlows
  <2>2. ASSUME NEW c \in Conns, NEW u \in TunnelIds, u # t, Served(c, u)' PROVE FlowOK(c, u)'
    <3>1. Served(c, u) /\ FlowOK(c, u)
      BY <1>1, <1>8, <2>2 DEF Served, Loop, TunnelsInv, FlowInv
    <3>2. PICK p \in Nat : InFlight(c, u, p)
      BY <3>1 DEF FlowOK
    <3>3. \A j \in Conns : Sends(j, c, u)' => Sends(j, c, u)
      BY <1>1, <1>7, <1>8, <2>2 DEF Sends
    <3>4. /\ Seen(c, u)' = Seen(c, u)
          /\ Carries(frame'[c], u) => frame'[c] = frame[c]
      <4>1. ~Carries(NoFrame, u)
        BY DEF Carries, NoFrame
      <4> QED
        BY <1>1, <1>3, <1>4, <4>1 DEF Seen
    <3>5. Chain(outq'[c], u, Seen(c, u)', p)
      <4>1. outq[c] \in Seq(Frame) /\ Seen(c, u) \in Nat /\ Chain(outq[c], u, Seen(c, u), p)
        BY <3>2, SeenIsNumber DEF TypeOK, InFlight
      <4>2. outq'[c] = outq[c] \/ outq'[c] = Append(outq[c], offer)
        BY <1>5
      <4> QED
        BY <1>4, <3>4, <4>1, <4>2, PushOther
    <3>6. InFlight(c, u, p)'
      BY <1>1, <1>7, <3>2, <3>3, <3>5 DEF InFlight
    <3> QED
      BY <1>1, <3>1, <3>4, <3>6 DEF FlowOK
  <2>3. ASSUME NEW c \in Conns, NEW u \in TunnelIds, u # t PROVE FlowOK(c, u)'
    BY <2>2, <2>3 DEF FlowOK
  <2> QED
    BY <2>1, <2>3 DEF FlowInv
<1> QED
  BY <1>10, <1>11, <1>12, <1>13, <1>14, <1>15 DEF TunnelsInv

(* Every step of the relay keeps what is under way to the parties of a tunnel in order. *)
LEMMA NextTunnels == TypeOK /\ NoGhostEntries /\ TunnelsInv /\ [Next]_vars => TunnelsInv'
<1> SUFFICES ASSUME TypeOK, NoGhostEntries, TunnelsInv, [Next]_vars PROVE TunnelsInv'
  OBVIOUS
<1>1. TypeOK'
  BY NextType
<1>2. ASSUME NEW k \in Conns,
             ComeUp(k) \/ Handle(k) \/ GoDown(k) \/ Environment(k)
               \/ TakeOutbound(k) \/ Deliver(k) \/ FailWrite(k) \/ ObserveKill(k)
      PROVE  TunnelsInv'
  <2>1. CASE ComeUp(k)
    BY <1>1, <2>1, ComeUpCalm, CalmKeeps
  <2>2. CASE Handle(k)
    BY <1>1, <2>2, HandleCalm, CalmKeeps, InsertTunnelKeeps, PushTunnelOfferedKeeps, ForwardDataKeeps
    DEF Handle
  <2>3. CASE GoDown(k) \/ FailWrite(k) \/ ObserveKill(k)
    BY <1>1, <2>3, GoDownCalm, CalmKeeps, MarkOfflineKeeps DEF GoDown
  <2>4. CASE Environment(k)
    BY <1>1, <2>4, EnvironmentCalm, CalmKeeps, AuthenticateKeeps, RecvDataKeeps DEF Environment
  <2>5. CASE TakeOutbound(k) \/ Deliver(k)
    BY <1>1, <2>5, TakeOutboundKeeps, DeliverKeeps
  <2> QED
    BY <1>2, <2>1, <2>2, <2>3, <2>4, <2>5
<1>3. CASE UNCHANGED vars \/ Reaper \/ \E t \in TunnelIds : Age(t)
  BY <1>1, <1>3, ReaperCalm, CalmKeeps
<1> QED
  BY <1>2, <1>3 DEF Next

(* When the relay starts nothing is under way.  *)
LEMMA InitTunnels == Init => TunnelsInv
<1> SUFFICES ASSUME Init PROVE TunnelsInv
  OBVIOUS
<1>1. \A t : ~Announces(NoFrame, t) /\ ~Carries(NoFrame, t)
  BY DEF Announces, Carries, NoFrame
<1>2. \A c \in Conns, t \in TunnelIds : ~Told(c, t) /\ ~Passing(c, t)
  BY <1>1 DEF Told, Init, Passing
<1>3. \A t \in TunnelIds : Still(t)
  BY <1>1, <1>2 DEF Still, Init
<1>4. StageInv /\ AskedInv /\ DrawnInv /\ OfferingInv
  BY <1>2, <1>3 DEF Init, StageInv, StageOK, AskedInv, AskedOK, DrawnInv, OfferingInv, OfferingOK
<1>5. PairInv /\ FlowInv
  BY <1>2 DEF Init, PairInv, PairOK, FlowInv, FlowOK, Served
<1> QED
  BY <1>4, <1>5 DEF TunnelsInv

(* What is under way to a client is in order in every behaviour of the relay.  *)
LEMMA TunnelsInOrder == Spec => []TunnelsInv
BY InitTunnels, NextTunnels, TypeCorrect, NoGhosts, PTL DEF Spec

(* A requester is handed no data of a tunnel before the answer that names it, for any
   number of clients and tunnels: OpenTunnelOk is written by the task itself, before it
   polls its queue, and until then nothing the target sends can have left that queue. *)
THEOREM AnsweredFirst == Spec => []AnswerBeforeData
<1>1. TunnelsInv => AnswerBeforeData
  <2> SUFFICES ASSUME TunnelsInv, NEW c \in Conns, NEW t \in TunnelIds, client[c][t] = "asked"
               PROVE  got[c][t] = 0
    BY DEF AnswerBeforeData
  <2>1. AskedOK(c, t) /\ OfferingOK(c, t)
    BY DEF TunnelsInv, AskedInv, OfferingInv
  <2> QED
    BY <2>1 DEF AskedOK, OfferingOK, Still
<1> QED
  BY <1>1, TunnelsInOrder, PTL

(* A step that hands data to a client that knows of the tunnel hands it the next frame. *)
LEMMA NextGapless ==
    ASSUME TypeOK, TunnelsInv, [Next]_vars, NEW c \in Conns, NEW t \in TunnelIds,
           pc'[c] # "done", got'[c][t] # got[c][t], client[c][t] # "unknown"
    PROVE  got'[c][t] = got[c][t] + 1
<1> USE DEF registry, admitted, table, routes, reaper, clients
<1>1. ASSUME NEW k \in Conns, Deliver(k) PROVE got'[c][t] = got[c][t] + 1
  <2>1. /\ frame[k] \in Frame
        /\ frame[k].kind = "data" => frame[k].tunnel \in TunnelIds
    BY DEF TypeOK, Frame, NoFrame
  <2>2. frame[k].kind = "data" /\ got' = [got EXCEPT ![k][frame[k].tunnel] = frame[k].n]
    BY <1>1 DEF Deliver
  <2>3. c = k /\ frame[k].tunnel = t /\ got'[c][t] = frame[c].n
    BY <2>1, <2>2 DEF TypeOK
  <2>4. Served(c, t) /\ Carries(frame[c], t)
    BY <1>1, <2>2, <2>3 DEF Deliver, Served, Told, Loop, Carries
  <2>5. FlowOK(c, t)
    BY DEF TunnelsInv, FlowInv
  <2> QED
    BY <2>3, <2>4, <2>5 DEF FlowOK
<1>2. ASSUME NEW k \in Conns, MarkOffline(k) PROVE FALSE
  BY <1>2 DEF MarkOffline, TypeOK
<1>3. ASSUME NEW k \in Conns, ComeUp(k) \/ TakeOutbound(k) \/ FailWrite(k) \/ ObserveKill(k) PROVE FALSE
  BY <1>3 DEF ComeUp, MarkOnline, RegisterConnection, RegisterKillSwitch, TakeOutbound, FailWrite, ObserveKill
<1>4. ASSUME NEW k \in Conns, Handle(k) PROVE FALSE
  BY <1>4 DEF Handle, CheckTargetOnline, InsertTunnel, PushTunnelOffered, TouchTunnel, ForwardData, DropTunnel,
              CloseRequester, RemoveTunnel, CloseOther, KillConnection
<1>5. ASSUME NEW k \in Conns, GoDown(k) PROVE FALSE
  BY <1>2, <1>5 DEF GoDown, RemoveConnection, RemoveKillSwitch, CloseTunnels, NotifySurvivor
<1>6. ASSUME NEW k \in Conns, Environment(k) PROVE FALSE
  BY <1>6 DEF Environment, Authenticate, CheckPermitted, RecvData, RecvClose, RevokeDevice,
       RevokePhoneSession, EndConnection
<1>7. CASE UNCHANGED vars \/ Reaper \/ \E u \in TunnelIds : Age(u)
  BY <1>7 DEF vars, Reaper, Reap, ReapTellRequester, ReapTellTarget, Age
<1> QED
  BY <1>1, <1>3, <1>4, <1>5, <1>6, <1>7 DEF Next

(* A client that has been told of a tunnel is handed the data of its other end in order
   and without a gap, however connections of the two devices come, go and overlap: a
   frame that cannot be queued costs the tunnel, and a closed tunnel stays closed. *)
THEOREM DeliveryGapless == Spec => GaplessDelivery
<1>1. TypeOK /\ TunnelsInv /\ [Next]_vars =>
        [\A c \in Conns, t \in TunnelIds :
           pc'[c] # "done" /\ got'[c][t] # got[c][t] /\ client[c][t] # "unknown" =>
               got'[c][t] = got[c][t] + 1]_vars
  BY NextGapless
<1> QED
  BY <1>1, TypeCorrect, TunnelsInOrder, PTL DEF Spec, GaplessDelivery
=============================================================================
