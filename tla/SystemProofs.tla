----------------------------- MODULE SystemProofs -----------------------------
(* What the components promise alone they promise side by side: a behaviour of  *)
(* all of them is one of each, and so every theorem about one holds of it.      *)
EXTENDS MCComponents, HostdProofs, FileEditsProofs, HostTunnelsProofs, StreamsProofs, ComponentsProofs

LEMMA WorkspacesAlone == Spec => WorkspacesSpec
<1>1. Init => WorkspacesInit
  BY DEF Init
<1>2. [Next]_allVars => [WorkspacesNext]_workspacesVars
  BY DEF Next, allVars
<1> QED
  BY <1>1, <1>2, PTL DEF Spec, WorkspacesSpec

LEMMA ReauthAlone == Spec => ReauthSpec
<1>1. Init => ReauthInit
  BY DEF Init
<1>2. [Next]_allVars => [ReauthNext]_reauthVars
  BY DEF Next, allVars
<1> QED
  BY <1>1, <1>2, PTL DEF Spec, ReauthSpec

LEMMA SelfUpdateAlone == Spec => SelfUpdateSpec
<1>1. Init => SelfUpdateInit
  BY DEF Init
<1>2. [Next]_allVars => [SelfUpdateNext]_updateVars
  BY DEF Next, allVars
<1> QED
  BY <1>1, <1>2, PTL DEF Spec, SelfUpdateSpec

LEMMA HostTunnelsAlone == Spec => HostTunnelsSpec
<1>1. Init => HostTunnelsInit
  BY DEF Init
<1>2. [Next]_allVars => [HostTunnelsNext]_hostTunnelsVars
  BY DEF Next, allVars
<1> QED
  BY <1>1, <1>2, PTL DEF Spec, HostTunnelsSpec

LEMMA FileEditsAlone == Spec => FileEditsSpec
<1>1. Init => FileEditsInit
  BY DEF Init
<1>2. [Next]_allVars => [FileEditsNext]_fileEditsVars
  BY DEF Next, allVars
<1> QED
  BY <1>1, <1>2, PTL DEF Spec, FileEditsSpec

LEMMA HostLinkAlone == Spec => HostLinkSpec
<1>1. Init => HostLinkInit
  BY DEF Init
<1>2. [Next]_allVars => [HostLinkNext]_hostLinkVars
  BY DEF Next, allVars
<1> QED
  BY <1>1, <1>2, PTL DEF Spec, HostLinkSpec

LEMMA SshBridgeAlone == Spec => SshSpec
<1>1. Init => SshInit
  BY DEF Init
<1>2. [Next]_allVars => [SshNext]_sshVars
  BY DEF Next, allVars
<1> QED
  BY <1>1, <1>2, PTL DEF Spec, SshSpec

LEMMA LaptopProxyAlone == Spec => LaptopSpec
<1>1. Init => LaptopInit
  BY DEF Init
<1>2. [Next]_allVars => [LaptopNext]_laptopVars
  BY DEF Next, allVars
<1> QED
  BY <1>1, <1>2, PTL DEF Spec, LaptopSpec

LEMMA JjOpsAlone == Spec => JjSpec
<1>1. Init => JjInit
  BY DEF Init
<1>2. [Next]_allVars => [JjNext]_jjVars
  BY DEF Next, allVars
<1> QED
  BY <1>1, <1>2, PTL DEF Spec, JjSpec

LEMMA FramingAlone == Spec => FramingSpec
<1>1. Init => FramingInit
  BY DEF Init
<1>2. [Next]_allVars => [FramingNext]_framingVars
  BY DEF Next, allVars
<1> QED
  BY <1>1, <1>2, PTL DEF Spec, FramingSpec

LEMMA RelayAccessAlone == Spec => AccessSpec
<1>1. Init => AccessInit
  BY DEF Init
<1>2. [Next]_allVars => [AccessNext]_accessVars
  BY DEF Next, allVars
<1> QED
  BY <1>1, <1>2, PTL DEF Spec, AccessSpec

LEMMA PhoneTunnelsAlone == Spec => PhoneSpec
<1>1. Init => PhoneInit
  BY DEF Init
<1>2. [Next]_allVars => [PhoneNext]_phoneVars
  BY DEF Next, allVars
<1> QED
  BY <1>1, <1>2, PTL DEF Spec, PhoneSpec

LEMMA TerminalSurfaceAlone == Spec => TerminalSpec
<1>1. Init => TerminalInit
  BY DEF Init
<1>2. [Next]_allVars => [TerminalNext]_terminalVars
  BY DEF Next, allVars
<1> QED
  BY <1>1, <1>2, PTL DEF Spec, TerminalSpec

(* The state of every component keeps the shape its code gives it, whichever of   *)
(* them takes steps.                                                              *)
THEOREM ComponentsTypeCorrect == Spec => []ComponentsTypeOK
  BY WorkspacesAlone, ReauthAlone, SelfUpdateAlone, HostTunnelsAlone, FileEditsAlone,
     HostLinkAlone, SshBridgeAlone, LaptopProxyAlone, JjOpsAlone, FramingAlone, RelayAccessAlone,
     PhoneTunnelsAlone, TerminalSurfaceAlone, WorkspacesTypeCorrect, ReauthTypeCorrect,
     SelfUpdateTypeCorrect, HostTunnelsTypeCorrect, FileEditsTypeCorrect, HostLinkTypeCorrect,
     SshTypeCorrect, LaptopTypeCorrect, JjTypeCorrect, FramingTypeCorrect, AccessTypeCorrect,
     PhoneTypeCorrect, TerminalTypeCorrect, PTL DEF ComponentsTypeOK

(* Whoever carries bytes between two programs (the tunnels of the host and of the *)
(* phone, frames on a connection, an ssh session, a laptop's programs) hands over   *)
(* what was sent, in order and whole, and says that it ended only when all of it  *)
(* was handed over.                                                               *)
THEOREM ComponentStreamsAreKept == Spec => ComponentStreamsKept
  BY HostTunnelsAlone, PhoneTunnelsAlone, FramingAlone, SshBridgeAlone, LaptopProxyAlone,
     HostTunnelsKeepStreams, PhoneKeepsStreams, FramingKeepsFrames, SshKeepsStreams,
     LaptopKeepsStreams, PTL DEF ComponentStreamsKept
===============================================================================
