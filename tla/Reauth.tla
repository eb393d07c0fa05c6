-------------------------------- MODULE Reauth --------------------------------
(* Resources of a devhost and their re-authentication: resources.rs,           *)
(* resource_reauth.rs, resource_kinds.rs and the resource calls of rpc.rs.     *)
(*                                                                             *)
(* A call is one action per stretch between two awaits.  Its number is the id  *)
(* it mints (proposal, resource) and the process it spawns; attempt[r] is the  *)
(* process ReauthProcesses keeps for resource r, watcher[c] the task that call *)
(* c left behind to read its process's output and to time it out.              *)
EXTENDS HostState

CONSTANTS MaxReauthCalls, MaxReauthRestarts

Calls == 1 .. MaxReauthCalls

ASSUME ReauthAssumption ==
    /\ MaxReauthCalls \in Nat /\ MaxReauthRestarts \in Nat
    /\ None \notin Calls /\ None # "running"

VARIABLES
    proposals,      \* proposed and not yet confirmed or refused; memory only
    resources,      \* confirmed
    resourcesFile,  \* resources.json
    attempt,        \* resource -> the process waiting for its completion
    child,          \* what became of the process a call spawned
    watcher,        \* [on |-> resource, phase |-> ...] or None
    step, held, outcome,
    reauthRestarts

lists == <<proposals, resources, resourcesFile>>
processes == <<attempt, child, watcher>>
reauthVars == <<lists, processes, step, held, outcome, reauthRestarts>>

\* What can be declared: a built-in kind has a pattern and a command of its own,
\* a custom one takes the caller's.  Pattern A is only ever detected passively.
Declarations ==
    [kind : {"builtin"}, pattern : {"A", "B", "C", "D"}, command : {TRUE}]
      \cup [kind : {"custom"}, pattern : {None, "B", "C", "D"}, command : BOOLEAN]

ReauthInit ==
    /\ proposals = <<>> /\ resources = <<>> /\ resourcesFile = <<>>
    /\ attempt = <<>>
    /\ child = [c \in Calls |-> None]
    /\ watcher = [c \in Calls |-> None]
    /\ step = [c \in Calls |-> "idle"]
    /\ held = [c \in Calls |-> None]
    /\ outcome = [c \in Calls |-> None]
    /\ reauthRestarts = 0

Finish(c, answer) ==
    /\ step' = [step EXCEPT ![c] = "done"]
    /\ held' = [held EXCEPT ![c] = None]
    /\ outcome' = [outcome EXCEPT ![c] = answer]

Await(c, label, what) ==
    /\ step' = [step EXCEPT ![c] = label]
    /\ held' = [held EXCEPT ![c] = what]
    /\ UNCHANGED outcome

Kill(children, p) == IF children[p] = "running" THEN [children EXCEPT ![p] = "killed"] ELSE children
Spawn(c) == child' = [child EXCEPT ![c] = "running"]

-------------------------------------------------------------------------------
(* Declaring resources                                                         *)

\* A custom kind has no resume command, so pattern D is refused.
Propose(c, declaration) ==
    /\ Arrives(c, step)
    /\ IF declaration.kind = "custom" /\ declaration.pattern = "D"
       THEN Finish(c, "invalid") /\ UNCHANGED proposals
       ELSE /\ proposals' = Put(proposals, c, [pattern |-> declaration.pattern,
                                               command |-> declaration.command])
            /\ Finish(c, "proposed")
    /\ UNCHANGED <<resources, resourcesFile, processes, reauthRestarts>>

\* Whether the save succeeds or not, the proposal is gone and the resource listed.
Confirm(c, p, approve, saved) ==
    /\ Arrives(c, step)
    /\ IF p \notin DOMAIN proposals
       THEN Finish(c, "not_found") /\ UNCHANGED lists
       ELSE /\ proposals' = Drop(proposals, {p})
            /\ LET rs == Put(resources, c, [pattern |-> proposals[p].pattern,
                                            command |-> proposals[p].command,
                                            proposal |-> p, verified |-> FALSE])
               IN IF approve
                  THEN /\ resources' = rs
                       /\ resourcesFile' = AtomicWrite(resourcesFile, rs, saved)
                       /\ Finish(c, IF saved THEN "confirmed" ELSE "error")
                  ELSE Finish(c, "refused") /\ UNCHANGED <<resources, resourcesFile>>
    /\ UNCHANGED <<processes, reauthRestarts>>

-------------------------------------------------------------------------------
(* reauth_start: only patterns B and D leave a process behind                  *)

BeginStart(c, r) ==
    /\ Arrives(c, step)
    /\ LET pattern == resources[r].pattern
       IN \/ /\ pattern = "C"            \* the phone is sent the instructions
             /\ Finish(c, "started") /\ UNCHANGED child
          \/ /\ \/ pattern \in {None, "A"}
                \/ pattern \in {"B", "D"} /\ (r \in DOMAIN attempt \/ ~resources[r].command)
             /\ Finish(c, "invalid") /\ UNCHANGED child
          \/ /\ pattern \in {"B", "D"} /\ r \notin DOMAIN attempt /\ resources[r].command
             /\ Await(c, "spawned", [on |-> r, process |-> c]) /\ Spawn(c)
    /\ UNCHANGED <<lists, attempt, watcher, reauthRestarts>>

\* Another start may have won meanwhile: then this one's process is killed.
InsertAttempt(c) ==
    /\ step[c] = "spawned"
    /\ IF held[c].on \in DOMAIN attempt
       THEN /\ child' = Kill(child, c)
            /\ Finish(c, "conflict")
            /\ UNCHANGED <<attempt, watcher>>
       ELSE /\ attempt' = Put(attempt, held[c].on, held[c].process)
            /\ watcher' = [watcher EXCEPT ![c] = [on |-> held[c].on, phase |-> "reading"]]
            /\ Finish(c, "started")
            /\ UNCHANGED child
    /\ UNCHANGED <<lists, reauthRestarts>>

\* A watcher that found no URL ends there.
WatchForUrlOnly(c) ==
    /\ watcher[c] # None /\ watcher[c].phase = "reading"
    /\ \E next \in {None, [watcher[c] EXCEPT !.phase = "waiting"]} :
          watcher' = [watcher EXCEPT ![c] = next]
    /\ UNCHANGED <<lists, attempt, child, step, held, outcome, reauthRestarts>>

\* A URL is found and sent to the phone, or the output ends, or none comes in time.
WatchForUrl(c) ==
    /\ watcher[c] # None /\ watcher[c].phase = "reading"
    /\ watcher' = [watcher EXCEPT ![c].phase = "waiting"]
    /\ UNCHANGED <<lists, attempt, child, step, held, outcome, reauthRestarts>>

\* The timer looks its resource up, not the process it was started for.
IdleTimeout(c) ==
    /\ watcher[c] # None /\ watcher[c].phase = "waiting"
    /\ watcher' = [watcher EXCEPT ![c] = None]
    /\ LET r == watcher[c].on
       IN IF r \in DOMAIN attempt
          THEN child' = Kill(child, attempt[r]) /\ attempt' = Drop(attempt, {r})
          ELSE UNCHANGED <<child, attempt>>
    /\ UNCHANGED <<lists, step, held, outcome, reauthRestarts>>

-------------------------------------------------------------------------------
(* reauth_complete                                                             *)

CompleteB(c, r) ==
    /\ resources[r].pattern = "B"
    /\ IF r \in DOMAIN attempt
       THEN /\ attempt' = Drop(attempt, {r})
            /\ Await(c, "finishing", [on |-> r, process |-> attempt[r]])
       ELSE Finish(c, "conflict") /\ UNCHANGED attempt
    /\ UNCHANGED child

CompleteC(c, r) ==
    /\ resources[r].pattern = "C"
    /\ UNCHANGED attempt
    /\ \/ ~resources[r].command /\ Finish(c, "invalid") /\ UNCHANGED child
       \/ resources[r].command /\ Await(c, "finishing", [on |-> r, process |-> c]) /\ Spawn(c)

\* The process that printed the URL is left to itself.
CompleteDBeside(c, r) ==
    /\ resources[r].pattern = "D"
    /\ attempt' = Drop(attempt, {r})
    /\ child' = [child EXCEPT ![c] = "running"]
    /\ Await(c, "finishing", [on |-> r, process |-> c])

\* The resume command replaces the process that printed the URL, if there is one.
CompleteD(c, r) ==
    /\ resources[r].pattern = "D"
    /\ attempt' = Drop(attempt, {r})
    /\ child' = [(IF r \in DOMAIN attempt THEN Kill(child, attempt[r]) ELSE child)
                    EXCEPT ![c] = "running"]
    /\ Await(c, "finishing", [on |-> r, process |-> c])

BeginComplete(c, r) ==
    /\ Arrives(c, step)
    /\ \/ /\ resources[r].pattern \in {None, "A"}
          /\ Finish(c, "invalid") /\ UNCHANGED <<attempt, child>>
       \/ CompleteB(c, r)
       \/ CompleteC(c, r)
       \/ CompleteD(c, r)
    /\ UNCHANGED <<lists, watcher, reauthRestarts>>

\* The process exits with success in time, or it fails or is killed.  A failed
\* save of the time of verification goes unnoticed.
FinishComplete(c, verified, saved) ==
    /\ step[c] = "finishing"
    /\ LET r == held[c].on
           rs == [resources EXCEPT ![r].verified = TRUE]
       IN IF verified
          THEN /\ child[held[c].process] \in {"running", "exited"}
               /\ child' = [child EXCEPT ![held[c].process] = "exited"]
               /\ resources' = rs
               /\ resourcesFile' = AtomicWrite(resourcesFile, rs, saved)
               /\ Finish(c, "verified")
          ELSE /\ child' = Kill(child, held[c].process)
               /\ Finish(c, "unverified")
               /\ UNCHANGED <<resources, resourcesFile>>
    /\ UNCHANGED <<proposals, attempt, watcher, reauthRestarts>>

ChildExits(c) ==
    /\ child[c] = "running"
    /\ child' = [child EXCEPT ![c] = "exited"]
    /\ UNCHANGED <<lists, attempt, watcher, step, held, outcome, reauthRestarts>>

\* Proposals, attempts and timers are memory; a process outlives them unheard.
RestartReauth ==
    /\ reauthRestarts < MaxReauthRestarts
    /\ reauthRestarts' = reauthRestarts + 1
    /\ proposals' = <<>> /\ resources' = resourcesFile
    /\ attempt' = <<>>
    /\ child' = [c \in Calls |-> IF child[c] = "running" THEN "lost" ELSE child[c]]
    /\ watcher' = [c \in Calls |-> None]
    /\ step' = [c \in Calls |-> IF step[c] = "idle" THEN "idle" ELSE "done"]
    /\ held' = [c \in Calls |-> None]
    /\ UNCHANGED <<resourcesFile, outcome>>

Watch(c) == WatchForUrl(c) \/ IdleTimeout(c)

ReauthCall(c) ==
    \/ \E declaration \in Declarations : Propose(c, declaration)
    \/ \E p \in Calls, approve, saved \in BOOLEAN : Confirm(c, p, approve, saved)
    \/ \E r \in DOMAIN resources : BeginStart(c, r) \/ BeginComplete(c, r)
    \/ InsertAttempt(c)
    \/ \E verified, saved \in BOOLEAN : FinishComplete(c, verified, saved)

ReauthNext ==
    \/ \E c \in Calls : ReauthCall(c) \/ Watch(c) \/ ChildExits(c)
    \/ RestartReauth

ReauthSpec == ReauthInit /\ [][ReauthNext]_reauthVars
\* tokio's timers fire, whoever holds what.
ReauthFairness == \A c \in Calls : WF_reauthVars(Watch(c))
ReauthFairSpec == ReauthSpec /\ ReauthFairness
-------------------------------------------------------------------------------
Patterns == {None, "A", "B", "C", "D"}
ProposalRecords == [pattern : Patterns, command : BOOLEAN]
ResourceRecords == [pattern : Patterns, command : BOOLEAN, proposal : Calls, verified : BOOLEAN]

\* The lists, the table of attempts and what each call and watcher holds.
ReauthTypeOK ==
    /\ DOMAIN proposals \subseteq Calls /\ \A p \in DOMAIN proposals : proposals[p] \in ProposalRecords
    /\ DOMAIN resources \subseteq Calls /\ \A r \in DOMAIN resources : resources[r] \in ResourceRecords
    /\ DOMAIN resourcesFile \subseteq DOMAIN resources
    /\ \A r \in DOMAIN resourcesFile : resourcesFile[r] \in ResourceRecords
    /\ DOMAIN attempt \subseteq DOMAIN resources /\ \A r \in DOMAIN attempt : attempt[r] \in Calls
    /\ child \in [Calls -> {None, "running", "exited", "killed", "lost"}]
    /\ watcher \in [Calls -> {None} \cup [on : Calls, phase : {"reading", "waiting"}]]
    /\ step \in [Calls -> {"idle", "spawned", "finishing", "done"}]
    /\ \A c \in Calls :
          IF step[c] \in {"spawned", "finishing"}
          THEN held[c].on \in DOMAIN resources /\ held[c].process \in Calls
          ELSE held[c] = None
    /\ outcome \in [Calls -> {None, "proposed", "confirmed", "refused", "started", "verified",
                              "unverified", "invalid", "conflict", "not_found", "error"}]
    /\ reauthRestarts \in 0 .. MaxReauthRestarts

\* Every login process that runs is still somebody's: the table's, the start's
\* that has just spawned it, or the completion's that waits for it.
NoOrphanProcess ==
    \A p \in Calls : child[p] = "running" =>
        \/ \E r \in DOMAIN attempt : attempt[r] = p
        \/ step[p] = "spawned"
        \/ \E c \in Calls : step[c] = "finishing" /\ held[c].process = p

\* No resource stays blocked by an attempt nobody completes: its timer frees it.
AttemptEnds == \A r \in Calls : []<>(r \notin DOMAIN attempt)

===============================================================================
