------------------------------ MODULE SelfUpdate ------------------------------
(* Self-update of hostd: update.rs, its start in serve.rs, atomic_write of     *)
(* fs_util.rs and the health probe of local_ipc.rs.                            *)
(*                                                                             *)
(* An update runs as a task of the hostd process and dies with it; its monitor *)
(* is a process of its own and does not.  What is on disk survives both: three *)
(* binaries, each the version it holds, and update_state.json.  A copy and a   *)
(* read-modify-write of the state file take two steps.                         *)
EXTENDS HostState

CONSTANTS
    MaxPushes,          \* push p brings version p; version 0 is installed
    MaxDeliveries,      \* deliveries of pushes, redeliveries included
    Overlapping,        \* may a push arrive before the last has settled
    MaxCrashes, MaxRestartFailures,
    Partial             \* what an interrupted copy leaves in a file

Pushes == 1 .. MaxPushes
Versions == 0 .. MaxPushes
Deliveries == 1 .. MaxDeliveries
Contents == Versions \cup {Partial}

ASSUME SelfUpdateAssumption ==
    /\ MaxPushes \in Nat /\ MaxDeliveries \in Nat /\ Overlapping \in BOOLEAN
    /\ MaxCrashes \in Nat /\ MaxRestartFailures \in Nat
    /\ Partial \notin Versions /\ None \notin Contents

VARIABLES
    works,          \* the versions that reach their local socket; never changes
    current, previous, staged,      \* the binary, <binary>.previous, <binary>.new
    stateFile,
    service,        \* the unit's process: the version it runs and how far it is
    startupRead,    \* the state its startup has read
    task, monitor,  \* per delivery
    rolledBack, reported,           \* history: versions
    crashes, restartFailures

files == <<current, previous, staged>>
unit == <<service, startupRead>>
counters == <<crashes, restartFailures>>
updateVars == <<works, files, stateFile, unit, task, monitor, rolledBack, reported, counters>>

Fresh == [handled |-> None, failure |-> None]
NoTask == [at |-> "idle"]

SelfUpdateInit ==
    /\ works \in {S \in SUBSET Versions : 0 \in S}
    /\ current = 0 /\ previous = None /\ staged = None
    /\ stateFile = Fresh
    /\ service = [runs |-> 0, phase |-> "up"] /\ startupRead = Fresh
    /\ task = [d \in Deliveries |-> NoTask]
    /\ monitor = [d \in Deliveries |-> NoTask]
    /\ rolledBack = {} /\ reported = {}
    /\ crashes = 0 /\ restartFailures = 0

At(d, label) == task[d].at = label
TaskTo(d, label) == task' = [task EXCEPT ![d].at = label]
Stop(d) == task' = [task EXCEPT ![d] = [at |-> "done"]]
Version(d) == task[d].push

\* The service manager starts what is at the binary's path; the tasks of the old
\* process are gone.
StartUnit ==
    /\ service' = [runs |-> current, phase |-> "starting"]
    /\ startupRead' = Fresh
    /\ task' = [d \in Deliveries |-> IF task[d].at = "idle" THEN NoTask ELSE [at |-> "done"]]

-------------------------------------------------------------------------------
(* handle_update_binary_push                                                   *)

Settled == \A d \in Deliveries : task[d].at \in {"idle", "done"} /\ monitor[d].at \in {"idle", "done"}

ReceivePush(d, p) ==
    /\ task[d].at = "idle" /\ \A e \in 1 .. d - 1 : task[e].at # "idle"
    /\ service.phase = "up"
    /\ Overlapping \/ Settled
    /\ IF stateFile.handled = p
       THEN Stop(d)
       ELSE task' = [task EXCEPT ![d] = [at |-> "loading", push |-> p, state |-> stateFile]]
    /\ UNCHANGED <<works, files, stateFile, unit, monitor, rolledBack, reported, counters>>

\* A failed download or a wrong digest ends the update.
Download(d) ==
    /\ At(d, "loading")
    /\ TaskTo(d, "fetched") \/ Stop(d)
    /\ UNCHANGED <<works, files, stateFile, unit, monitor, rolledBack, reported, counters>>

StageNewBinary(d) ==
    /\ At(d, "fetched")
    /\ \/ staged' = Version(d) /\ TaskTo(d, "staged")
       \/ staged' \in {staged, Partial} /\ Stop(d)
    /\ UNCHANGED <<works, current, previous, stateFile, unit, monitor, rolledBack, reported, counters>>

\* The new binary replaces the running one before that one is copied.
BackupSwapped(d) ==
    /\ At(d, "staged")
    /\ staged # None
    /\ previous' = Partial
    /\ current' = staged
    /\ task' = [task EXCEPT ![d] = [at |-> "copying", push |-> Version(d),
                                    state |-> task[d].state, source |-> staged]]
    /\ UNCHANGED <<works, staged, stateFile, unit, monitor, rolledBack, reported, counters>>

BackupCurrent(d) ==
    /\ At(d, "staged")
    /\ previous' = Partial
    /\ task' = [task EXCEPT ![d] = [at |-> "copying", push |-> Version(d),
                                    state |-> task[d].state, source |-> current]]
    /\ UNCHANGED <<works, current, staged, stateFile, unit, monitor, rolledBack, reported, counters>>

\* The copy fills the file it has opened, to which a rollback may meanwhile have
\* given the binary's own name.  A failed one leaves it incomplete.
BackupDone(d) ==
    /\ At(d, "copying")
    /\ \/ /\ TaskTo(d, "backedUp")
          /\ IF previous = Partial
             THEN previous' = task[d].source /\ UNCHANGED current
             ELSE /\ current' = IF current = Partial THEN task[d].source ELSE current
                  /\ UNCHANGED previous
          /\ UNCHANGED staged
       \/ Stop(d) /\ staged' = None /\ UNCHANGED <<current, previous>>
    /\ UNCHANGED <<works, stateFile, unit, monitor, rolledBack, reported, counters>>

\* A copy over the running binary instead of a rename.
SwapByCopy(d) ==
    /\ At(d, "backedUp")
    /\ \/ staged # None /\ current' \in {staged, Partial} /\ TaskTo(d, "swapped")
       \/ Stop(d) /\ UNCHANGED current
    /\ staged' = IF staged # None THEN None ELSE staged
    /\ UNCHANGED <<works, previous, stateFile, unit, monitor, rolledBack, reported, counters>>

SwapIn(d) ==
    /\ At(d, "backedUp")
    /\ \/ /\ staged # None
          /\ current' = staged /\ staged' = None
          /\ TaskTo(d, "swapped")
       \/ Stop(d) /\ UNCHANGED <<current, staged>>
    /\ UNCHANGED <<works, previous, stateFile, unit, monitor, rolledBack, reported, counters>>

\* What is saved is the state read before the download, with the push added.
SaveHandled(d) ==
    /\ At(d, "swapped")
    /\ stateFile' = [task[d].state EXCEPT !.handled = Version(d)]
    /\ TaskTo(d, "saved")
    /\ UNCHANGED <<works, files, unit, monitor, rolledBack, reported, counters>>

\* The monitor runs the backup's code, so it takes a backup that works.
SpawnMonitor(d) ==
    /\ At(d, "saved")
    /\ TaskTo(d, "restarting")
    /\ \/ /\ previous \in works
          /\ monitor' = [monitor EXCEPT ![d] = [at |-> "watching", push |-> Version(d)]]
       \/ UNCHANGED monitor
    /\ UNCHANGED <<works, files, stateFile, unit, rolledBack, reported, counters>>

RestartFails ==
    /\ restartFailures < MaxRestartFailures
    /\ restartFailures' = restartFailures + 1

RestartService(d) ==
    /\ At(d, "restarting")
    /\ \/ StartUnit /\ UNCHANGED restartFailures
       \/ RestartFails /\ Stop(d) /\ UNCHANGED unit
    /\ UNCHANGED <<works, files, stateFile, monitor, rolledBack, reported, crashes>>

-------------------------------------------------------------------------------
(* The process of the unit: take_pending_failure_event, then the socket        *)

StartupLoads ==
    /\ service.phase = "starting" /\ service.runs \in works
    /\ IF stateFile.failure = None
       THEN service' = [service EXCEPT !.phase = "up"] /\ UNCHANGED startupRead
       ELSE service' = [service EXCEPT !.phase = "draining"] /\ startupRead' = stateFile
    /\ UNCHANGED <<works, files, stateFile, task, monitor, rolledBack, reported, counters>>

StartupReports ==
    /\ service.phase = "draining"
    /\ stateFile' = [startupRead EXCEPT !.failure = None]
    /\ reported' = reported \cup {startupRead.failure}
    /\ service' = [service EXCEPT !.phase = "up"]
    /\ UNCHANGED <<works, files, startupRead, task, monitor, rolledBack, counters>>

\* Restart=on-failure: a binary that does not come up is started again, from
\* whatever its path now holds.
Respawn ==
    /\ service.phase = "starting" /\ service.runs \notin works /\ service.runs # current
    /\ StartUnit
    /\ UNCHANGED <<works, files, stateFile, monitor, rolledBack, reported, counters>>

CrashUnit ==
    /\ crashes < MaxCrashes
    /\ crashes' = crashes + 1
    /\ StartUnit
    /\ UNCHANGED <<works, files, stateFile, monitor, rolledBack, reported, restartFailures>>

-------------------------------------------------------------------------------
(* run_monitor                                                                 *)

Watching(d, label) == monitor[d].at = label
MonitorTo(d, label) == monitor' = [monitor EXCEPT ![d].at = label]
MonitorEnds(d) == monitor' = [monitor EXCEPT ![d] = [at |-> "done"]]

\* Whichever process answers at the socket counts.
MonitorSeesHealth(d) ==
    /\ Watching(d, "watching")
    /\ service.phase = "up"
    /\ MonitorEnds(d)
    /\ UNCHANGED <<works, files, stateFile, unit, task, rolledBack, reported, counters>>

RollBack(d) ==
    /\ Watching(d, "watching")
    /\ service.phase # "up"
    /\ IF previous = None
       THEN /\ MonitorTo(d, "renameFailed")
            /\ UNCHANGED <<current, previous, rolledBack>>
       ELSE /\ current' = previous /\ previous' = None
            /\ rolledBack' = rolledBack \cup {monitor[d].push}
            /\ MonitorTo(d, "rolledBack")
    /\ UNCHANGED <<works, staged, stateFile, unit, task, reported, counters>>

\* The restart is asked for before the failure is written.
MarkFailedAfterRestart(d) ==
    /\ monitor[d].at \in {"rolledBack", "renameFailed"}
    /\ monitor' = [monitor EXCEPT ![d] = [at |-> "markingLast", push |-> @.push, state |-> stateFile]]
    /\ IF monitor[d].at = "rolledBack" THEN StartUnit ELSE UNCHANGED <<unit, task>>
    /\ UNCHANGED <<works, files, stateFile, rolledBack, reported, counters>>

MarkFailedLoads(d) ==
    /\ monitor[d].at \in {"rolledBack", "renameFailed"}
    /\ monitor' = [monitor EXCEPT ![d] =
          [at |-> IF @.at = "rolledBack" THEN "marking" ELSE "markingLast",
           push |-> @.push, state |-> stateFile]]
    /\ UNCHANGED <<works, files, stateFile, unit, task, rolledBack, reported, counters>>

MarkFailedSaves(d) ==
    /\ monitor[d].at \in {"marking", "markingLast"}
    /\ stateFile' = [monitor[d].state EXCEPT !.failure = monitor[d].push]
    /\ IF monitor[d].at = "marking" THEN MonitorTo(d, "restarting") ELSE MonitorEnds(d)
    /\ UNCHANGED <<works, files, unit, task, rolledBack, reported, counters>>

\* One restart, whose own health check only decides what is logged.
MonitorRestarts(d) ==
    /\ Watching(d, "restarting")
    /\ MonitorEnds(d)
    /\ \/ StartUnit /\ UNCHANGED restartFailures
       \/ RestartFails /\ UNCHANGED <<unit, task>>
    /\ UNCHANGED <<works, files, stateFile, rolledBack, reported, crashes>>

UpdateStep(d) ==
    \/ \E p \in Pushes : ReceivePush(d, p)
    \/ Download(d) \/ StageNewBinary(d) \/ BackupCurrent(d) \/ BackupDone(d)
    \/ SwapIn(d) \/ SaveHandled(d) \/ SpawnMonitor(d) \/ RestartService(d)

MonitorStep(d) ==
    \/ MonitorSeesHealth(d) \/ RollBack(d)
    \/ MarkFailedLoads(d) \/ MarkFailedSaves(d) \/ MonitorRestarts(d)

UnitStep == StartupLoads \/ StartupReports \/ Respawn

SelfUpdateNext ==
    \/ \E d \in Deliveries : UpdateStep(d) \/ MonitorStep(d)
    \/ UnitStep \/ CrashUnit

SelfUpdateSpec == SelfUpdateInit /\ [][SelfUpdateNext]_updateVars
\* The monitor and the service manager go on; a push need not come.
SelfUpdateFairness ==
    /\ WF_updateVars(UnitStep)
    /\ \A d \in Deliveries : WF_updateVars(MonitorStep(d))
SelfUpdateFairSpec == SelfUpdateSpec /\ SelfUpdateFairness
-------------------------------------------------------------------------------
States == [handled : Pushes \cup {None}, failure : Pushes \cup {None}]

\* The binaries, the state file, the unit, its tasks and the monitors.
SelfUpdateTypeOK ==
    /\ works \subseteq Versions /\ 0 \in works
    /\ current \in Contents /\ previous \in Contents \cup {None} /\ staged \in Contents \cup {None}
    /\ stateFile \in States /\ startupRead \in States
    /\ service \in [runs : Contents, phase : {"starting", "draining", "up"}]
    /\ service.phase = "draining" => startupRead.failure # None
    /\ \A d \in Deliveries :
          /\ task[d].at \in {"idle", "loading", "fetched", "staged", "copying", "backedUp",
                             "swapped", "saved", "restarting", "done"}
          /\ task[d].at \notin {"idle", "done"} => task[d].push \in Pushes /\ task[d].state \in States
          /\ monitor[d].at \in {"idle", "watching", "rolledBack", "renameFailed", "marking",
                                "markingLast", "restarting", "done"}
          /\ monitor[d].at \notin {"idle", "done"} => monitor[d].push \in Pushes
    /\ rolledBack \subseteq Pushes /\ reported \subseteq Pushes
    /\ crashes \in 0 .. MaxCrashes /\ restartFailures \in 0 .. MaxRestartFailures

\* At the path the service manager starts there is a whole binary at every
\* instant, wherever an update or a rollback is interrupted.
CurrentIsWhole == current \in Versions

\* A binary that works is never lost: from the swap to the end of the rollback
\* the one or the other path holds one.  update.rs, lines 57 to 65, rests the
\* bound of one rollback on the previous binary having been healthy.
KnownGoodKept == restartFailures = 0 => current \in works \/ previous \in works

\* A rollback is reported by some later start of hostd, unless the service
\* manager failed to start one.
RollbackIsReported ==
    \A p \in Pushes : []<>(p \in rolledBack => p \in reported \/ restartFailures > 0)
===============================================================================
