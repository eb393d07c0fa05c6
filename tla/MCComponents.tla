------------------------------ MODULE MCComponents ------------------------------
(* The components that share no state, side by side: a behaviour picks one of  *)
(* them and the others stay as they are.                                       *)
EXTENDS Workspaces, Reauth, SelfUpdate, HostTunnels, FileEdits, HostLink, SshBridge, 
        LaptopProxy, JjOps, Framing, RelayAccess, PhoneTunnels, TerminalSurface

VARIABLE part

Parts == {"workspaces", "reauth", "update", "tunnels", "edits", "link", "ssh", "laptop", "jj", 
          "framing", "access", "phone", "terminal"}

allVars == <<part, workspacesVars, reauthVars, updateVars, hostTunnelsVars, fileEditsVars, hostLinkVars, 
             sshVars, laptopVars, jjVars, framingVars, accessVars, phoneVars, terminalVars>>

Init ==
    /\ part \in Parts
    /\ WorkspacesInit /\ ReauthInit /\ SelfUpdateInit /\ HostTunnelsInit /\ FileEditsInit 
    /\ HostLinkInit /\ SshInit /\ LaptopInit /\ JjInit /\ FramingInit /\ AccessInit 
    /\ PhoneInit /\ TerminalInit
    /\ part # "update" => works = Versions
    /\ part # "laptop" => program = "sync"
    /\ part # "link" => enrollToken = None /\ settings = None

Next ==
    /\ UNCHANGED part
    /\ \/ /\ part = "workspaces" /\ WorkspacesNext
          /\ UNCHANGED <<reauthVars, updateVars, hostTunnelsVars, fileEditsVars, hostLinkVars, sshVars, laptopVars, 
                         jjVars, framingVars, accessVars, phoneVars, terminalVars>>
       \/ /\ part = "reauth" /\ ReauthNext
          /\ UNCHANGED <<workspacesVars, updateVars, hostTunnelsVars, fileEditsVars, hostLinkVars, sshVars, laptopVars, 
                         jjVars, framingVars, accessVars, phoneVars, terminalVars>>
       \/ /\ part = "update" /\ SelfUpdateNext
          /\ UNCHANGED <<workspacesVars, reauthVars, hostTunnelsVars, fileEditsVars, hostLinkVars, sshVars, laptopVars, 
                         jjVars, framingVars, accessVars, phoneVars, terminalVars>>
       \/ /\ part = "tunnels" /\ HostTunnelsNext
          /\ UNCHANGED <<workspacesVars, reauthVars, updateVars, fileEditsVars, hostLinkVars, sshVars, laptopVars, 
                         jjVars, framingVars, accessVars, phoneVars, terminalVars>>
       \/ /\ part = "edits" /\ FileEditsNext
          /\ UNCHANGED <<workspacesVars, reauthVars, updateVars, hostTunnelsVars, hostLinkVars, sshVars, laptopVars, 
                         jjVars, framingVars, accessVars, phoneVars, terminalVars>>
       \/ /\ part = "link" /\ HostLinkNext
          /\ UNCHANGED <<workspacesVars, reauthVars, updateVars, hostTunnelsVars, fileEditsVars, sshVars, laptopVars, 
                         jjVars, framingVars, accessVars, phoneVars, terminalVars>>
       \/ /\ part = "ssh" /\ SshNext
          /\ UNCHANGED <<workspacesVars, reauthVars, updateVars, hostTunnelsVars, fileEditsVars, hostLinkVars, 
                         laptopVars, jjVars, framingVars, accessVars, phoneVars, terminalVars>>
       \/ /\ part = "laptop" /\ LaptopNext
          /\ UNCHANGED <<workspacesVars, reauthVars, updateVars, hostTunnelsVars, fileEditsVars, hostLinkVars, sshVars, 
                         jjVars, framingVars, accessVars, phoneVars, terminalVars>>
       \/ /\ part = "jj" /\ JjNext
          /\ UNCHANGED <<workspacesVars, reauthVars, updateVars, hostTunnelsVars, fileEditsVars, hostLinkVars, sshVars, 
                         laptopVars, framingVars, accessVars, phoneVars, terminalVars>>
       \/ /\ part = "framing" /\ FramingNext
          /\ UNCHANGED <<workspacesVars, reauthVars, updateVars, hostTunnelsVars, fileEditsVars, hostLinkVars, sshVars, 
                         laptopVars, jjVars, accessVars, phoneVars, terminalVars>>
       \/ /\ part = "access" /\ AccessNext
          /\ UNCHANGED <<workspacesVars, reauthVars, updateVars, hostTunnelsVars, fileEditsVars, hostLinkVars, sshVars, 
                         laptopVars, jjVars, framingVars, phoneVars, terminalVars>>
       \/ /\ part = "phone" /\ PhoneNext
          /\ UNCHANGED <<workspacesVars, reauthVars, updateVars, hostTunnelsVars, fileEditsVars, hostLinkVars, sshVars, 
                         laptopVars, jjVars, framingVars, accessVars, terminalVars>>
       \/ /\ part = "terminal" /\ TerminalNext
          /\ UNCHANGED <<workspacesVars, reauthVars, updateVars, hostTunnelsVars, fileEditsVars, hostLinkVars, sshVars, 
                         laptopVars, jjVars, framingVars, accessVars, phoneVars>>

Spec == Init /\ [][Next]_allVars
FairSpec ==
    /\ Spec
    /\ WorkspacesFairness /\ ReauthFairness /\ SelfUpdateFairness
    /\ HostTunnelsFairness /\ FileEditsFairness /\ HostLinkFairness /\ SshFairness
-------------------------------------------------------------------------------
\* Every component's state has the shape its code gives it.
ComponentsTypeOK ==
    /\ WorkspacesTypeOK /\ ReauthTypeOK /\ SelfUpdateTypeOK /\ HostTunnelsTypeOK /\ FileEditsTypeOK 
    /\ HostLinkTypeOK /\ SshTypeOK /\ LaptopTypeOK /\ JjTypeOK /\ FramingTypeOK /\ AccessTypeOK 
    /\ PhoneTypeOK /\ TerminalTypeOK

\* Whatever carries bytes from one program to another keeps them whole and in
\* order: the tunnels of serve, the phone's, the frames on a connection, an ssh
\* session's processes, and a laptop's programs.
ComponentStreamsKept ==
    StreamsKept /\ PhoneStreamsKept /\ FramesKept /\ SshStreamsKept /\ LaptopStreamsKept
===============================================================================
