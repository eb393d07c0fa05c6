------------------------------ MODULE Workspaces ------------------------------
(* The project, workspace and item registry of one devhost: registry.rs, the   *)
(* registry calls of rpc.rs, the prober of readiness.rs and the Zellij         *)
(* sessions and tabs they drive.                                               *)
(*                                                                             *)
(* Every RPC is a task of its own, so a handler is one action per stretch      *)
(* between two awaits: pc[r] is where request r stands and arg[r] its locals.  *)
(* An id minted by a request (uuid) is the request itself.  hostd may restart  *)
(* at any moment: the file, the checkouts and Zellij's processes survive.      *)
EXTENDS HostState

CONSTANTS
    MaxRequests,    \* RPCs of a behaviour, each of any kind
    Names,          \* workspace names; a clone of name n goes to directory n
    Checkouts,      \* directories already under workspaces_dir
    ItemNames,
    MaxHostRestarts

Requests == 1 .. MaxRequests

ASSUME WorkspacesAssumption ==
    /\ Names \cap Checkouts = {}
    /\ MaxRequests \in Nat /\ MaxHostRestarts \in Nat
    /\ None \notin Requests \cup Names \cup Checkouts /\ None # "created"

VARIABLES
    projects,       \* project id -> its primary workspace
    workspaces,     \* in the order they were registered
    items,          \* item id -> record
    disk,           \* workspaces.json
    reservedNames, reservedItems,
    sessions,       \* Zellij: session name -> names of its tabs
    dirs,           \* directories under workspaces_dir
    prober,         \* readiness task of an item: None, polling, or its verdict
    pc, arg, reply,
    hostRestarts

registry == <<projects, workspaces, items, disk>>
reserved == <<reservedNames, reservedItems>>
workspacesVars == <<registry, reserved, sessions, dirs, prober, pc, arg, reply, hostRestarts>>

Paths == Names \cup Checkouts
Sources == [kind : {"clone"}, path : {None}, parent : {None}]
             \cup [kind : {"existing"}, path : Paths, parent : {None}]
             \cup [kind : {"agent"}, path : Paths, parent : Requests \cup {None}]
Statuses == {"starting", "running", "stopped", "failed", "unknown"}
ItemTypes == {"WebService", "Shell"}     \* AgentTerminal behaves as Shell here
Working == {"making", "adopted", "parented", "made", "sessioned"}

Registered == {workspaces[k].id : k \in DOMAIN workspaces}
WorkspaceOf(id) == workspaces[CHOOSE k \in DOMAIN workspaces : workspaces[k].id = id]
NameTaken(n) == \E k \in DOMAIN workspaces : workspaces[k].name = n
ItemNamed(w, n) == \E i \in DOMAIN items : items[i].ws = w /\ items[i].name = n

WorkspacesInit ==
    /\ projects = <<>> /\ workspaces = <<>> /\ items = <<>>
    /\ disk = [projects |-> <<>>, workspaces |-> <<>>, items |-> <<>>]
    /\ reservedNames = {} /\ reservedItems = {}
    /\ sessions = <<>>
    /\ dirs = Checkouts
    /\ prober = [r \in Requests |-> None]
    /\ pc = [r \in Requests |-> "idle"]
    /\ arg = [r \in Requests |-> None]
    /\ reply = [r \in Requests |-> None]
    /\ hostRestarts = 0

Goto(r, label) == pc' = [pc EXCEPT ![r] = label]
Answer(r, label, answer) == Goto(r, label) /\ reply' = [reply EXCEPT ![r] = answer]
Return(r) == Goto(r, "done") /\ arg' = [arg EXCEPT ![r] = None]

\* A file written in place: a save that fails leaves it empty.
SaveInPlace(p, w, i, ok) ==
    disk' = IF ok THEN [projects |-> p, workspaces |-> w, items |-> i]
            ELSE [projects |-> <<>>, workspaces |-> <<>>, items |-> <<>>]

\* The registry file is written whole and renamed into place, or left as it was.
Save(p, w, i, ok) ==
    disk' = AtomicWrite(disk, [projects |-> p, workspaces |-> w, items |-> i], ok)

-------------------------------------------------------------------------------
(* workspace.create                                                            *)

\* Only the registry is asked, not the calls under way.
ReserveNameIfUnregistered(r, n, source) ==
    /\ Arrives(r, pc)
    /\ ~NameTaken(n)
    /\ source.parent \in Registered \cup {None}
    /\ reservedNames' = reservedNames \cup {n}
    /\ arg' = [arg EXCEPT ![r] = [name |-> n, source |-> source, root |-> None, project |-> None]]
    /\ Goto(r, "making")
    /\ UNCHANGED <<registry, reservedItems, sessions, dirs, prober, reply, hostRestarts>>

ReserveName(r, n, source) ==
    /\ Arrives(r, pc)
    /\ ~NameTaken(n) /\ n \notin reservedNames
    /\ source.parent \in Registered \cup {None}     \* None: an id nobody has
    /\ reservedNames' = reservedNames \cup {n}
    /\ arg' = [arg EXCEPT ![r] = [name |-> n, source |-> source, root |-> None, project |-> None]]
    /\ Goto(r, "making")
    /\ UNCHANGED <<registry, reservedItems, sessions, dirs, prober, reply, hostRestarts>>

RejectName(r, n) ==
    /\ Arrives(r, pc)
    /\ NameTaken(n) \/ n \in reservedNames
    /\ Answer(r, "done", "conflict")
    /\ UNCHANGED <<registry, reserved, sessions, dirs, prober, arg, hostRestarts>>

\* Any failing step before the registration answers and goes to release the name.
GiveUp(r) ==
    /\ Answer(r, "releasing", "error")
    /\ UNCHANGED <<registry, reserved, sessions, prober, arg, hostRestarts>>

Made(r, root, project) ==
    /\ arg' = [arg EXCEPT ![r].root = root, ![r].project = project]
    /\ Goto(r, "made")
    /\ UNCHANGED <<registry, reserved, sessions, prober, reply, hostRestarts>>

\* A failed clone may leave its directory behind.
CloneRepo(r) ==
    /\ pc[r] = "making" /\ arg[r].source.kind = "clone"
    /\ \/ GiveUp(r) /\ dirs' \in {dirs, dirs \cup {arg[r].name}}
       \/ /\ arg[r].name \notin dirs
          /\ dirs' = dirs \cup {arg[r].name}
          /\ Made(r, arg[r].name, r)

ColocateRepo(r) ==
    /\ pc[r] = "making" /\ arg[r].source.kind = "existing"
    /\ UNCHANGED dirs
    /\ \/ GiveUp(r)
       \/ /\ arg[r].source.path \in dirs
          /\ Goto(r, "adopted")
          /\ UNCHANGED <<registry, reserved, sessions, prober, arg, reply, hostRestarts>>

\* The project of the first workspace registered with this root, or a fresh one.
FindProject(r) ==
    /\ pc[r] = "adopted"
    /\ LET path == arg[r].source.path
           same == {k \in DOMAIN workspaces : workspaces[k].root = path}
       IN \/ /\ same = {}
             /\ Made(r, path, r)
          \/ \E k \in same :
                /\ \A j \in same : k <= j
                /\ Made(r, path, workspaces[k].project)
    /\ UNCHANGED dirs

FindParent(r) ==
    /\ pc[r] = "making" /\ arg[r].source.kind = "agent"
    /\ UNCHANGED dirs
    /\ LET parent == arg[r].source.parent
       IN \/ parent \notin Registered /\ GiveUp(r)
          \/ /\ parent \in Registered
             /\ arg' = [arg EXCEPT ![r].project = WorkspaceOf(parent).project]
             /\ Goto(r, "parented")
             /\ UNCHANGED <<registry, reserved, sessions, prober, reply, hostRestarts>>

AddAgentWorkspace(r) ==
    /\ pc[r] = "parented"
    /\ LET path == arg[r].source.path
       IN \/ GiveUp(r) /\ UNCHANGED dirs
          \/ /\ path \notin dirs
             /\ dirs' = dirs \cup {path}
             /\ Made(r, path, arg[r].project)

\* Tools are installed, then the session is created, unless one of that name
\* runs already.  An unconfirmed session may still have come up.
CreateSession(r) ==
    /\ pc[r] = "made"
    /\ LET up == IF arg[r].name \in DOMAIN sessions THEN sessions
                 ELSE Put(sessions, arg[r].name, {})
       IN \/ Goto(r, "sessioned") /\ sessions' = up /\ reply' = reply
          \/ Answer(r, "releasing", "error") /\ sessions' \in {sessions, up}
    /\ UNCHANGED <<registry, reserved, dirs, prober, arg, hostRestarts>>

\* The workspace is in memory whether or not the save succeeds; the answer says
\* which.  A name that is taken after all loses its session again.
RegisterWorkspace(r, saved) ==
    /\ pc[r] = "sessioned"
    /\ IF NameTaken(arg[r].name)
       THEN /\ sessions' = Drop(sessions, {arg[r].name})
            /\ Answer(r, "releasing", "conflict")
            /\ UNCHANGED registry
       ELSE LET ws == [id |-> r, name |-> arg[r].name, project |-> arg[r].project, root |-> arg[r].root]
                ps == IF arg[r].project \in DOMAIN projects THEN projects
                      ELSE Put(projects, arg[r].project, r)
            IN /\ projects' = ps
               /\ workspaces' = Append(workspaces, ws)
               /\ Save(ps, Append(workspaces, ws), items, saved)
               /\ Answer(r, "releasing", IF saved THEN "created" ELSE "error")
               /\ UNCHANGED <<items, sessions>>
    /\ UNCHANGED <<reserved, dirs, prober, arg, hostRestarts>>

ReleaseName(r) ==
    /\ pc[r] = "releasing"
    /\ reservedNames' = reservedNames \ {arg[r].name}
    /\ Return(r)
    /\ UNCHANGED <<registry, reservedItems, sessions, dirs, prober, reply, hostRestarts>>

SetPrimaryWorkspace(r, p, w, saved) ==
    /\ Arrives(r, pc)
    /\ IF w \in Registered /\ WorkspaceOf(w).project = p
       THEN LET ps == [projects EXCEPT ![p] = w]
            IN /\ projects' = ps
               /\ Save(ps, workspaces, items, saved)
               /\ Answer(r, "done", IF saved THEN "primary" ELSE "error")
       ELSE Answer(r, "done", "error") /\ UNCHANGED <<projects, disk>>
    /\ UNCHANGED <<workspaces, items, reserved, sessions, dirs, prober, arg, hostRestarts>>

-------------------------------------------------------------------------------
(* item.create, item.stop and the readiness prober                             *)

ReserveItem(r, w, n, type) ==
    /\ Arrives(r, pc)
    /\ w \in Registered
    /\ ~ItemNamed(w, n) /\ <<w, n>> \notin reservedItems
    /\ reservedItems' = reservedItems \cup {<<w, n>>}
    /\ arg' = [arg EXCEPT ![r] = [ws |-> w, name |-> n, type |-> type,
                                  session |-> WorkspaceOf(w).name]]
    /\ Goto(r, "tabbing")
    /\ UNCHANGED <<registry, reservedNames, sessions, dirs, prober, reply, hostRestarts>>

RejectItem(r, w, n) ==
    /\ Arrives(r, pc)
    /\ w \notin Registered \/ ItemNamed(w, n) \/ <<w, n>> \in reservedItems
    /\ Answer(r, "done", "conflict")
    /\ UNCHANGED <<registry, reserved, sessions, dirs, prober, arg, hostRestarts>>

\* The tab is created with its command in it; one that is not confirmed in time
\* may exist all the same.
CreateTab(r) ==
    /\ pc[r] = "tabbing"
    /\ LET s == arg[r].session
           up == IF s \in DOMAIN sessions
                 THEN [sessions EXCEPT ![s] = @ \cup {arg[r].name}] ELSE sessions
       IN \/ /\ s \in DOMAIN sessions
             /\ Goto(r, "tabbed") /\ sessions' = up /\ reply' = reply
          \/ Answer(r, "itemReleasing", "error") /\ sessions' \in {sessions, up}
    /\ UNCHANGED <<registry, reserved, dirs, prober, arg, hostRestarts>>

\* Only a saved web service gets its prober.
RegisterItem(r, saved) ==
    /\ pc[r] = "tabbed"
    /\ IF ItemNamed(arg[r].ws, arg[r].name)
       THEN /\ sessions' = [sessions EXCEPT ![arg[r].session] = @ \ {arg[r].name}]
            /\ Answer(r, "itemReleasing", "conflict")
            /\ UNCHANGED <<items, disk, prober>>
       ELSE LET web == arg[r].type = "WebService"
                is == Put(items, r, [ws |-> arg[r].ws, name |-> arg[r].name, type |-> arg[r].type,
                                     status |-> IF web THEN "starting" ELSE "running"])
            IN /\ items' = is
               /\ Save(projects, workspaces, is, saved)
               /\ Answer(r, "itemReleasing", IF saved THEN "created" ELSE "error")
               /\ prober' = [prober EXCEPT ![r] = IF saved /\ web THEN "polling" ELSE @]
               /\ UNCHANGED sessions
    /\ UNCHANGED <<projects, workspaces, reserved, dirs, arg, hostRestarts>>

ReleaseItem(r) ==
    /\ pc[r] = "itemReleasing"
    /\ reservedItems' = reservedItems \ {<<arg[r].ws, arg[r].name>>}
    /\ Return(r)
    /\ UNCHANGED <<registry, reservedNames, sessions, dirs, prober, reply, hostRestarts>>

StopItem(r, i) ==
    /\ Arrives(r, pc)
    /\ i \in DOMAIN items
    /\ \/ /\ items[i].status = "stopped"
          /\ Answer(r, "done", "stopped")
          /\ UNCHANGED arg
       \/ /\ items[i].status # "stopped"
          /\ arg' = [arg EXCEPT ![r] = [item |-> i, session |-> WorkspaceOf(items[i].ws).name]]
          /\ Goto(r, "stopping")
          /\ UNCHANGED reply
    /\ UNCHANGED <<registry, reserved, sessions, dirs, prober, hostRestarts>>

\* A close that times out is taken for done; a Zellij that cannot be spawned is not.
CloseTab(r) ==
    /\ pc[r] = "stopping"
    /\ LET s == arg[r].session
           tab == items[arg[r].item].name
           down == IF s \in DOMAIN sessions THEN [sessions EXCEPT ![s] = @ \ {tab}] ELSE sessions
       IN \/ Goto(r, "closed") /\ sessions' \in {sessions, down} /\ UNCHANGED <<arg, reply>>
          \/ Return(r) /\ reply' = [reply EXCEPT ![r] = "error"] /\ UNCHANGED sessions
    /\ UNCHANGED <<registry, reserved, dirs, prober, hostRestarts>>

MarkItemStopped(r, saved) ==
    /\ pc[r] = "closed"
    /\ LET is == [items EXCEPT ![arg[r].item].status = "stopped"]
       IN items' = is /\ Save(projects, workspaces, is, saved)
    /\ Return(r) /\ reply' = [reply EXCEPT ![r] = IF saved THEN "stopped" ELSE "error"]
    /\ UNCHANGED <<projects, workspaces, reserved, sessions, dirs, prober, hostRestarts>>

\* A prober that gives up without a verdict.
ProbeOnce(i) ==
    /\ prober[i] = "polling"
    /\ prober' = [prober EXCEPT ![i] = None]
    /\ UNCHANGED <<registry, reserved, sessions, dirs, pc, arg, reply, hostRestarts>>

\* One look of the prober: the tab is gone, Zellij cannot be asked, the port
\* accepts, or the deadline has passed; otherwise it sleeps and looks again.
Probe(i) ==
    /\ prober[i] = "polling"
    /\ LET s == WorkspaceOf(items[i].ws).name
           tabUp == s \in DOMAIN sessions /\ items[i].name \in sessions[s]
       IN prober' \in {[prober EXCEPT ![i] = v] :
                          v \in {"unknown", "failed"} \cup (IF tabUp THEN {"running"} ELSE {})}
    /\ UNCHANGED <<registry, reserved, sessions, dirs, pc, arg, reply, hostRestarts>>

\* The verdict is written whatever became of the item meanwhile.
FinishProbeLate(i, saved) ==
    /\ prober[i] \notin {None, "polling"}
    /\ prober' = [prober EXCEPT ![i] = None]
    /\ LET is == [items EXCEPT ![i].status = prober[i]]
       IN items' = is /\ Save(projects, workspaces, is, saved)
    /\ UNCHANGED <<projects, workspaces, reserved, sessions, dirs, pc, arg, reply, hostRestarts>>

\* The task's state is cleared first, then read.
FinishProbeCleared(i, saved) ==
    /\ prober[i] \notin {None, "polling"}
    /\ prober' = [prober EXCEPT ![i] = None]
    /\ LET is == [items EXCEPT ![i].status = prober'[i]]
       IN items' = is /\ Save(projects, workspaces, is, saved)
    /\ UNCHANGED <<projects, workspaces, reserved, sessions, dirs, pc, arg, reply, hostRestarts>>

\* The verdict is written only over a status that is still starting.
FinishProbe(i, saved) ==
    /\ prober[i] \notin {None, "polling"}
    /\ prober' = [prober EXCEPT ![i] = None]
    /\ IF items[i].status = "starting"
       THEN LET is == [items EXCEPT ![i].status = prober[i]]
            IN items' = is /\ Save(projects, workspaces, is, saved)
       ELSE UNCHANGED <<items, disk>>
    /\ UNCHANGED <<projects, workspaces, reserved, sessions, dirs, pc, arg, reply, hostRestarts>>

-------------------------------------------------------------------------------
\* A new hostd loads the file; every call and prober of the old one is gone.
RestartHost ==
    /\ hostRestarts < MaxHostRestarts
    /\ hostRestarts' = hostRestarts + 1
    /\ projects' = disk.projects /\ workspaces' = disk.workspaces /\ items' = disk.items
    /\ reservedNames' = {} /\ reservedItems' = {}
    /\ prober' = [r \in Requests |-> None]
    /\ pc' = [r \in Requests |-> IF pc[r] = "idle" THEN "idle" ELSE "done"]
    /\ arg' = [r \in Requests |-> None]
    /\ UNCHANGED <<disk, sessions, dirs, reply>>

CreateStep(r) ==
    \/ \E n \in Names, source \in Sources : ReserveName(r, n, source)
    \/ \E n \in Names : RejectName(r, n)
    \/ CloneRepo(r) \/ ColocateRepo(r) \/ FindProject(r)
    \/ FindParent(r) \/ AddAgentWorkspace(r) \/ CreateSession(r)
    \/ \E saved \in BOOLEAN : RegisterWorkspace(r, saved)
    \/ ReleaseName(r)
    \/ \E p \in DOMAIN projects, w \in Requests, saved \in BOOLEAN :
          SetPrimaryWorkspace(r, p, w, saved)

ItemStep(r) ==
    \/ \E w \in Requests, n \in ItemNames, type \in ItemTypes : ReserveItem(r, w, n, type)
    \/ \E w \in Requests, n \in ItemNames : RejectItem(r, w, n)
    \/ CreateTab(r)
    \/ \E saved \in BOOLEAN : RegisterItem(r, saved)
    \/ ReleaseItem(r)
    \/ \E i \in Requests : StopItem(r, i)
    \/ CloseTab(r)
    \/ \E saved \in BOOLEAN : MarkItemStopped(r, saved)

ProbeStep(i) == Probe(i) \/ \E saved \in BOOLEAN : FinishProbe(i, saved)

WorkspacesNext ==
    \/ \E r \in Requests : CreateStep(r) \/ ItemStep(r) \/ ProbeStep(r)
    \/ RestartHost

WorkspacesSpec == WorkspacesInit /\ [][WorkspacesNext]_workspacesVars
\* Probers and the tasks of calls go on; hostd need not restart.
WorkspacesFairness == \A i \in Requests : WF_workspacesVars(ProbeStep(i))
WorkspacesFairSpec == WorkspacesSpec /\ WorkspacesFairness
-------------------------------------------------------------------------------
Items == [ws : Requests, name : ItemNames, type : ItemTypes, status : Statuses]
ProjectMaps == UNION {[S -> Requests] : S \in SUBSET Requests}
ItemMaps == UNION {[S -> Items] : S \in SUBSET Requests}
WorkspaceRecords == [id : Requests, name : Names, project : Requests, root : Paths]

\* The registry, its file and Zellij's sessions have the shape registry.rs gives
\* them, and each request stands at a label of its handler.
WorkspacesTypeOK ==
    /\ projects \in ProjectMaps /\ workspaces \in Seq(WorkspaceRecords) /\ items \in ItemMaps
    /\ disk \in [projects : ProjectMaps, workspaces : Seq(WorkspaceRecords), items : ItemMaps]
    /\ reservedNames \subseteq Names /\ reservedItems \subseteq Requests \X ItemNames
    /\ DOMAIN sessions \subseteq Names /\ \A s \in DOMAIN sessions : sessions[s] \subseteq ItemNames
    /\ dirs \subseteq Paths
    /\ prober \in [Requests -> {None, "polling", "running", "failed", "unknown"}]
    /\ pc \in [Requests -> Working \cup {"idle", "releasing", "tabbing", "tabbed",
                                         "itemReleasing", "stopping", "closed", "done"}]
    /\ reply \in [Requests -> {None, "created", "primary", "stopped", "conflict", "error"}]
    /\ hostRestarts \in 0 .. MaxHostRestarts

\* From the reservation on no two calls clone, open a session or open a tab under
\* one name, and none does it under a name that is registered: the second would
\* leave its checkout and session behind, which reserve_workspace_name is for.
OneCreatorPerName ==
    /\ \A r \in Requests : pc[r] \in Working =>
          /\ ~NameTaken(arg[r].name)
          /\ \A q \in Requests \ {r} : pc[q] \in Working => arg[q].name # arg[r].name
    /\ \A r \in Requests : pc[r] \in {"tabbing", "tabbed"} =>
          /\ ~ItemNamed(arg[r].ws, arg[r].name)
          /\ \A q \in Requests \ {r} : pc[q] \in {"tabbing", "tabbed"} =>
                <<arg[q].ws, arg[q].name>> # <<arg[r].ws, arg[r].name>>

\* What a create call has answered "created" is in the file, so neither a restart
\* nor a later failing save makes hostd forget it.
CreatedSurvives ==
    \A r \in Requests : reply[r] = "created" =>
        \/ r \in DOMAIN disk.items /\ r \in DOMAIN items
        \/ /\ r \in Registered
           /\ \E k \in DOMAIN disk.workspaces : disk.workspaces[k].id = r

\* Within one run of hostd a stopped item stays stopped, whatever verdict its
\* prober brings later: readiness.rs says the stop always wins.
StoppedStays ==
    [][\A i \in DOMAIN items :
          items[i].status = "stopped" /\ hostRestarts' = hostRestarts => items'[i].status = "stopped"
      ]_workspacesVars

Starting(i) == i \in DOMAIN items /\ items[i].status = "starting"

\* A web service whose creation was acknowledged does not stay "starting" while
\* hostd runs: its prober reaches a verdict or someone stops it.
StartingEnds ==
    \A i \in Requests : []<>(reply[i] = "created" => ~Starting(i) \/ hostRestarts > 0)
===============================================================================
