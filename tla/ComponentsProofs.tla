---------------------------- MODULE ComponentsProofs ----------------------------
(* Proofs about the components that share no state with another one, a section *)
(* for each.                                                                   *)
EXTENDS SelfUpdate, RelayAccess, JjOps, TerminalSurface, SequenceTheorems, TLAPS

-------------------------------------------------------------------------------
(* Self-update.  If no push arrives before the last update has settled, at most *)
(* one update is unsettled.  While its monitor watches, the backup holds a      *)
(* binary that works; the unit runs the binary at its path, unless a swap or a  *)
(* rollback still has to restart it; and a task or a monitor between two of its *)
(* steps has left the files as those steps leave them.                          *)


TaskRecords ==
    [at : {"idle", "done"}]
      \cup [at : {"loading", "fetched", "staged"}, push : Pushes, state : States]
      \cup [at : {"copying", "backedUp", "swapped", "saved", "restarting"},
            push : Pushes, state : States, source : Contents]

MonitorRecords ==
    [at : {"idle", "done"}]
      \cup [at : {"watching", "rolledBack", "renameFailed"}, push : Pushes]
      \cup [at : {"marking", "markingLast", "restarting"}, push : Pushes, state : States]

\* SelfUpdateTypeOK with the records spelled out.
UpdateType ==
    /\ works \subseteq Versions /\ 0 \in works
    /\ current \in Contents /\ previous \in Contents \cup {None} /\ staged \in Contents \cup {None}
    /\ stateFile \in States /\ startupRead \in States
    /\ service \in [runs : Contents, phase : {"starting", "draining", "up"}]
    /\ service.phase = "draining" => startupRead.failure # None
    /\ task \in [Deliveries -> TaskRecords] /\ monitor \in [Deliveries -> MonitorRecords]
    /\ rolledBack \subseteq Pushes /\ reported \subseteq Pushes
    /\ crashes \in 0 .. MaxCrashes /\ restartFailures \in 0 .. MaxRestartFailures

Works(d)    == task[d].at \notin {"idle", "done"}
Monitors(d) == monitor[d].at \notin {"idle", "done"}

BeforeSwap == {"loading", "fetched", "staged", "copying", "backedUp"}
AfterSwap  == {"swapped", "saved", "restarting"}
Restored   == {"rolledBack", "marking", "restarting"}

OneUpdate == \A d, e \in Deliveries : (Works(d) \/ Monitors(d)) /\ (Works(e) \/ Monitors(e)) => d = e

UnitInv ==
    /\ service.phase \in {"up", "draining"} => service.runs \in works
    /\ (\E d \in Deliveries : Works(d)) => service.phase = "up"

TaskInv(d) ==
    /\ task[d].at \in BeforeSwap \cup {"swapped", "saved"} => ~Monitors(d)
    /\ task[d].at \in {"staged", "copying", "backedUp"} => staged \in Versions
    /\ task[d].at = "copying" => previous = Partial /\ task[d].source = current
    /\ task[d].at = "backedUp" => previous = current
    /\ task[d].at \in BeforeSwap /\ restartFailures = 0 => current \in works
    /\ task[d].at \in AfterSwap /\ restartFailures = 0 => previous \in works

MonitorInv(d) ==
    /\ monitor[d].at \notin {"renameFailed", "markingLast"}
    /\ monitor[d].at = "watching" => previous \in works
    /\ monitor[d].at \in Restored => current \in works /\ ~Works(d)

Behind == \/ \E d \in Deliveries : task[d].at \in AfterSwap
          \/ \E d \in Deliveries : monitor[d].at \in Restored

BinariesInv ==
    /\ current \in Versions
    /\ restartFailures = 0 => current \in works \/ previous \in works
    /\ restartFailures = 0 => service.runs = current \/ Behind

UpdateInv ==
    /\ OneUpdate /\ UnitInv /\ BinariesInv
    /\ \A d \in Deliveries : TaskInv(d) /\ MonitorInv(d)

(* A task's record, and a monitor's, by where it is. *)
LEMMA RecordsAre ==
    /\ \A r \in TaskRecords :
          /\ r.at \in {"idle", "done"} \cup BeforeSwap \cup AfterSwap
          /\ r.at \in BeforeSwap \cup AfterSwap => r.push \in Pushes /\ r.state \in States
          /\ r.at \in {"loading", "fetched", "staged"} =>
                r = [at |-> r.at, push |-> r.push, state |-> r.state]
          /\ r.at \in {"copying", "backedUp"} \cup AfterSwap =>
                /\ r.source \in Contents
                /\ r = [at |-> r.at, push |-> r.push, state |-> r.state, source |-> r.source]
    /\ \A r \in MonitorRecords :
          /\ r.at \in {"idle", "done", "watching", "rolledBack", "renameFailed", "marking",
                        "markingLast", "restarting"}
          /\ r.at \notin {"idle", "done"} => r.push \in Pushes
          /\ r.at \in {"watching", "rolledBack", "renameFailed"} => r = [at |-> r.at, push |-> r.push]
          /\ r.at \in {"marking", "markingLast", "restarting"} =>
                r.state \in States /\ r = [at |-> r.at, push |-> r.push, state |-> r.state]
BY DEF TaskRecords, MonitorRecords, BeforeSwap, AfterSwap

(* The records of each kind. *)
LEMMA RecordsMade ==
    /\ \A a \in {"idle", "done"} : [at |-> a] \in TaskRecords /\ [at |-> a] \in MonitorRecords
    /\ \A p \in Pushes, s \in States :
          /\ \A a \in {"loading", "fetched", "staged"} :
                [at |-> a, push |-> p, state |-> s] \in TaskRecords
          /\ \A a \in {"copying", "backedUp"} \cup AfterSwap, c \in Contents :
                [at |-> a, push |-> p, state |-> s, source |-> c] \in TaskRecords
          /\ \A a \in {"marking", "markingLast", "restarting"} :
                [at |-> a, push |-> p, state |-> s] \in MonitorRecords
    /\ \A p \in Pushes, a \in {"watching", "rolledBack", "renameFailed"} :
          [at |-> a, push |-> p] \in MonitorRecords
BY DEF TaskRecords, MonitorRecords, AfterSwap

(* A task goes on to a step of its own half of the update and keeps what it carries. *)
LEMMA TaskGoesOn ==
    ASSUME task \in [Deliveries -> TaskRecords], NEW d \in Deliveries, NEW a, TaskTo(d, a),
           \/ task[d].at \in {"loading", "fetched", "staged"} /\ a \in {"loading", "fetched", "staged"}
           \/ /\ task[d].at \in {"copying", "backedUp"} \cup AfterSwap
              /\ a \in {"copying", "backedUp"} \cup AfterSwap
    PROVE  /\ task' \in [Deliveries -> TaskRecords] /\ task'[d].at = a
           /\ \A e \in Deliveries \ {d} : task'[e] = task[e]
<1>1. task' = [task EXCEPT ![d] = [task[d] EXCEPT !.at = a]]
  BY DEF TaskTo
<1>2. task[d] \in TaskRecords
  OBVIOUS
<1> DEFINE r == task[d]
<1> HIDE DEF r
<1>3. r \in TaskRecords
  BY <1>2 DEF r
<1>4. [r EXCEPT !.at = a] \in TaskRecords /\ [r EXCEPT !.at = a].at = a
  <2>1. CASE r.at \in {"loading", "fetched", "staged"} /\ a \in {"loading", "fetched", "staged"}
    <3>1. r = [at |-> r.at, push |-> r.push, state |-> r.state] /\ r.push \in Pushes /\ r.state \in States
      BY <1>3, <2>1, RecordsAre DEF BeforeSwap
    <3>2. [r EXCEPT !.at = a] = [at |-> a, push |-> r.push, state |-> r.state]
      BY <3>1
    <3>3. [at |-> a, push |-> r.push, state |-> r.state] \in TaskRecords
      BY <2>1, <3>1, RecordsMade
    <3> QED
      BY <3>2, <3>3
  <2>2. CASE r.at \in {"copying", "backedUp"} \cup AfterSwap /\ a \in {"copying", "backedUp"} \cup AfterSwap
    <3>1. /\ r = [at |-> r.at, push |-> r.push, state |-> r.state, source |-> r.source]
          /\ r.push \in Pushes /\ r.state \in States /\ r.source \in Contents
      BY <1>3, <2>2, RecordsAre DEF BeforeSwap
    <3>2. [r EXCEPT !.at = a] = [at |-> a, push |-> r.push, state |-> r.state, source |-> r.source]
      BY <3>1
    <3>3. [at |-> a, push |-> r.push, state |-> r.state, source |-> r.source] \in TaskRecords
      BY <2>2, <3>1, RecordsMade
    <3> QED
      BY <3>2, <3>3
  <2> QED
    BY <2>1, <2>2 DEF r
<1>5. task'[d] = [r EXCEPT !.at = a] /\ task' = [task EXCEPT ![d] = [r EXCEPT !.at = a]]
  BY <1>1 DEF r
<1> QED
  BY <1>4, <1>5

(* The files hold what was in them, a version, or part of one. *)
LEMMA ContentsAre == /\ 0 \in Versions /\ Pushes \subseteq Versions /\ Versions \subseteq Contents
                     /\ Partial \in Contents /\ Partial \notin Versions /\ None \notin Contents
BY SelfUpdateAssumption DEF Versions, Pushes, Contents

(* The initial state is well typed, and no update has begun. *)
LEMMA UpdateInit == SelfUpdateInit => UpdateType /\ UpdateInv
<1> SUFFICES ASSUME SelfUpdateInit PROVE UpdateType /\ UpdateInv
  OBVIOUS
<1> USE ContentsAre, SelfUpdateAssumption DEF SelfUpdateInit, NoTask, Fresh
<1>1. /\ works \subseteq Versions /\ 0 \in works /\ current \in Contents
      /\ previous \in Contents \cup {None} /\ staged \in Contents \cup {None}
      /\ stateFile \in States /\ startupRead \in States
      /\ service \in [runs : Contents, phase : {"starting", "draining", "up"}]
      /\ service.phase = "draining" => startupRead.failure # None
      /\ rolledBack \subseteq Pushes /\ reported \subseteq Pushes
      /\ crashes \in 0 .. MaxCrashes /\ restartFailures \in 0 .. MaxRestartFailures
  BY DEF States
<1>2. task \in [Deliveries -> TaskRecords] /\ monitor \in [Deliveries -> MonitorRecords]
  BY RecordsMade
<1>3. \A d \in Deliveries : task[d].at = "idle" /\ monitor[d].at = "idle"
  OBVIOUS
<1>4. UpdateType
  BY <1>1, <1>2 DEF UpdateType
<1>5. OneUpdate /\ UnitInv /\ BinariesInv
  BY <1>3 DEF OneUpdate, UnitInv, BinariesInv, Works, Monitors
<1>6. \A d \in Deliveries : TaskInv(d) /\ MonitorInv(d)
  BY <1>3 DEF TaskInv, MonitorInv, BeforeSwap, AfterSwap, Restored
<1> QED
  BY <1>4, <1>5, <1>6 DEF UpdateInv

(* A new process of the unit runs what is at the binary's path, and no task. *)
LEMMA StartedType ==
    ASSUME UpdateType, StartUnit
    PROVE  /\ service' = [runs |-> current, phase |-> "starting"] /\ startupRead' = Fresh
           /\ service' \in [runs : Contents, phase : {"starting", "draining", "up"}]
           /\ startupRead' \in States
           /\ task' \in [Deliveries -> TaskRecords]
           /\ \A d \in Deliveries : /\ task'[d].at \in {"idle", "done"}
                                    /\ task[d].at = "idle" <=> task'[d].at = "idle"
<1>1. Fresh \in States
  BY DEF Fresh, States
<1>2. task' \in [Deliveries -> TaskRecords]
  BY RecordsMade DEF StartUnit, NoTask
<1>3. ASSUME NEW d \in Deliveries
      PROVE  /\ task'[d].at \in {"idle", "done"}
             /\ task[d].at = "idle" <=> task'[d].at = "idle"
  BY DEF StartUnit, NoTask
<1> QED
  BY <1>1, <1>2, <1>3 DEF StartUnit, UpdateType

(* The steps of an update keep the types. *)
LEMMA UpdateStepType ==
    ASSUME UpdateType, NEW d \in Deliveries, UpdateStep(d)
    PROVE  UpdateType'
<1> USE ContentsAre DEF files, unit, counters
<1>0. task[d] \in TaskRecords /\ task \in [Deliveries -> TaskRecords]
  BY DEF UpdateType
<1>1. ASSUME Stop(d) PROVE task' \in [Deliveries -> TaskRecords]
  BY <1>0, <1>1, RecordsMade DEF Stop
<1>2. ASSUME NEW p \in Pushes, ReceivePush(d, p) PROVE UpdateType'
  <2>1. stateFile \in States
    BY DEF UpdateType
  <2>2. [at |-> "loading", push |-> p, state |-> stateFile] \in TaskRecords
    BY <2>1, RecordsMade
  <2>3. task' \in [Deliveries -> TaskRecords]
    BY <1>0, <1>1, <1>2, <2>2 DEF ReceivePush
  <2> QED
    BY <1>2, <2>3 DEF ReceivePush, UpdateType
<1>3. CASE Download(d)
  <2>1. task' \in [Deliveries -> TaskRecords]
    BY <1>0, <1>1, <1>3, TaskGoesOn DEF Download, At
  <2> QED
    BY <1>3, <2>1 DEF Download, UpdateType
<1>4. CASE StageNewBinary(d)
  <2>1. task' \in [Deliveries -> TaskRecords]
    BY <1>0, <1>1, <1>4, TaskGoesOn DEF StageNewBinary, At
  <2>2. Version(d) \in Contents
    BY <1>0, <1>4, RecordsAre DEF StageNewBinary, At, Version, BeforeSwap
  <2>3. staged' \in Contents \cup {None}
    BY <1>4, <2>2 DEF StageNewBinary, UpdateType
  <2> QED
    BY <1>4, <2>1, <2>3 DEF StageNewBinary, UpdateType
<1>5. CASE BackupCurrent(d)
  <2>1. Version(d) \in Pushes /\ task[d].state \in States /\ current \in Contents
    BY <1>0, <1>5, RecordsAre DEF BackupCurrent, At, Version, BeforeSwap, UpdateType
  <2> DEFINE r == [at |-> "copying", push |-> Version(d), state |-> task[d].state, source |-> current]
  <2>2. r \in TaskRecords
    BY <2>1, RecordsMade
  <2>3. task' = [task EXCEPT ![d] = r]
    BY <1>5 DEF BackupCurrent
  <2> HIDE DEF r
  <2>4. task' \in [Deliveries -> TaskRecords]
    BY <1>0, <2>2, <2>3
  <2> QED
    BY <1>5, <2>4 DEF BackupCurrent, UpdateType
<1>6. CASE BackupDone(d)
  <2>1. task' \in [Deliveries -> TaskRecords]
    BY <1>0, <1>1, <1>6, TaskGoesOn DEF BackupDone, At
  <2>2. task[d].source \in Contents
    BY <1>0, <1>6, RecordsAre DEF BackupDone, At
  <2>3. current' \in Contents /\ previous' \in Contents \cup {None} /\ staged' \in Contents \cup {None}
    BY <1>6, <2>2 DEF BackupDone, UpdateType
  <2> QED
    BY <1>6, <2>1, <2>3 DEF BackupDone, UpdateType
<1>7. CASE SwapIn(d)
  <2>1. task' \in [Deliveries -> TaskRecords]
    BY <1>0, <1>1, <1>7, TaskGoesOn DEF SwapIn, At, AfterSwap
  <2>2. current' \in Contents /\ staged' \in Contents \cup {None}
    BY <1>7 DEF SwapIn, UpdateType
  <2> QED
    BY <1>7, <2>1, <2>2 DEF SwapIn, UpdateType
<1>8. CASE SaveHandled(d)
  <2>1. task' \in [Deliveries -> TaskRecords]
    BY <1>0, <1>8, TaskGoesOn DEF SaveHandled, At, AfterSwap
  <2>2. Version(d) \in Pushes /\ task[d].state \in States
    BY <1>0, <1>8, RecordsAre DEF SaveHandled, At, Version, AfterSwap
  <2>3. stateFile' \in States
    BY <1>8, <2>2 DEF SaveHandled, States
  <2> QED
    BY <1>8, <2>1, <2>3 DEF SaveHandled, UpdateType
<1>9. CASE SpawnMonitor(d)
  <2>1. task' \in [Deliveries -> TaskRecords]
    BY <1>0, <1>9, TaskGoesOn DEF SpawnMonitor, At, AfterSwap
  <2>2. Version(d) \in Pushes
    BY <1>0, <1>9, RecordsAre DEF SpawnMonitor, At, Version, AfterSwap
  <2>3. [at |-> "watching", push |-> Version(d)] \in MonitorRecords
    BY <2>2, RecordsMade
  <2>4. monitor' \in [Deliveries -> MonitorRecords]
    BY <1>9, <2>3 DEF SpawnMonitor, UpdateType
  <2> QED
    BY <1>9, <2>1, <2>4 DEF SpawnMonitor, UpdateType
<1>10. CASE RestartService(d)
  <2>1. CASE StartUnit /\ UNCHANGED restartFailures
    BY <1>10, <2>1, StartedType DEF RestartService, UpdateType
  <2>2. CASE RestartFails /\ Stop(d) /\ UNCHANGED unit
    <3>1. restartFailures' \in 0 .. MaxRestartFailures
      BY <2>2, SelfUpdateAssumption DEF RestartFails, UpdateType
    <3> QED
      BY <1>1, <1>10, <2>2, <3>1 DEF RestartService, UpdateType
  <2> QED
    BY <1>10, <2>1, <2>2 DEF RestartService
<1> QED
  BY <1>2, <1>3, <1>4, <1>5, <1>6, <1>7, <1>8, <1>9, <1>10 DEF UpdateStep

(* So do those of a monitor. *)
LEMMA MonitorStepType ==
    ASSUME UpdateType, NEW d \in Deliveries, MonitorStep(d)
    PROVE  UpdateType'
<1> USE ContentsAre DEF files, unit, counters
<1>0. monitor[d] \in MonitorRecords /\ monitor \in [Deliveries -> MonitorRecords]
  BY DEF UpdateType
<1>1. ASSUME MonitorEnds(d) PROVE monitor' \in [Deliveries -> MonitorRecords]
  BY <1>0, <1>1, RecordsMade DEF MonitorEnds
<1>2. CASE MonitorSeesHealth(d)
  BY <1>1, <1>2 DEF MonitorSeesHealth, UpdateType
<1>3. CASE RollBack(d)
  <2>1. monitor[d] = [at |-> "watching", push |-> monitor[d].push] /\ monitor[d].push \in Pushes
    BY <1>0, <1>3, RecordsAre DEF RollBack, Watching
  <2>2. ASSUME NEW a \in {"rolledBack", "renameFailed"}, MonitorTo(d, a)
        PROVE  monitor' \in [Deliveries -> MonitorRecords]
    <3>1. [monitor[d] EXCEPT !.at = a] = [at |-> a, push |-> monitor[d].push]
      BY <2>1
    <3>2. [at |-> a, push |-> monitor[d].push] \in MonitorRecords
      BY <2>1, RecordsMade
    <3> QED
      BY <1>0, <2>2, <3>1, <3>2 DEF MonitorTo
  <2>3. monitor' \in [Deliveries -> MonitorRecords]
    BY <1>3, <2>2 DEF RollBack
  <2>4. current' \in Contents /\ previous' \in Contents \cup {None} /\ rolledBack' \subseteq Pushes
    BY <1>3, <2>1 DEF RollBack, UpdateType
  <2> QED
    BY <1>3, <2>3, <2>4 DEF RollBack, UpdateType
<1>4. CASE MarkFailedLoads(d)
  <2>1. monitor[d].push \in Pushes /\ stateFile \in States
    BY <1>0, <1>4, RecordsAre DEF MarkFailedLoads, UpdateType
  <2>2. PICK a \in {"marking", "markingLast"} :
          monitor' = [monitor EXCEPT ![d] = [at |-> a, push |-> monitor[d].push, state |-> stateFile]]
    BY <1>0, <1>4 DEF MarkFailedLoads
  <2>3. [at |-> a, push |-> monitor[d].push, state |-> stateFile] \in MonitorRecords
    BY <2>1, RecordsMade
  <2>4. monitor' \in [Deliveries -> MonitorRecords]
    BY <1>0, <2>2, <2>3
  <2> QED
    BY <1>4, <2>4 DEF MarkFailedLoads, UpdateType
<1>5. CASE MarkFailedSaves(d)
  <2>1. /\ monitor[d] = [at |-> monitor[d].at, push |-> monitor[d].push, state |-> monitor[d].state]
        /\ monitor[d].push \in Pushes /\ monitor[d].state \in States
    BY <1>0, <1>5, RecordsAre DEF MarkFailedSaves
  <2>2. ASSUME MonitorTo(d, "restarting") PROVE monitor' \in [Deliveries -> MonitorRecords]
    <3>1. [monitor[d] EXCEPT !.at = "restarting"]
            = [at |-> "restarting", push |-> monitor[d].push, state |-> monitor[d].state]
      BY <2>1
    <3>2. [at |-> "restarting", push |-> monitor[d].push, state |-> monitor[d].state] \in MonitorRecords
      BY <2>1, RecordsMade
    <3> QED
      BY <1>0, <2>2, <3>1, <3>2 DEF MonitorTo
  <2>3. monitor' \in [Deliveries -> MonitorRecords]
    BY <1>1, <1>5, <2>2 DEF MarkFailedSaves
  <2>4. stateFile' \in States
    BY <1>5, <2>1 DEF MarkFailedSaves, States
  <2> QED
    BY <1>5, <2>3, <2>4 DEF MarkFailedSaves, UpdateType
<1>6. CASE MonitorRestarts(d)
  <2>1. CASE StartUnit /\ UNCHANGED restartFailures
    <3>1. monitor' \in [Deliveries -> MonitorRecords]
      BY <1>1, <1>6 DEF MonitorRestarts
    <3> QED
      BY <1>6, <2>1, <3>1, StartedType DEF MonitorRestarts, UpdateType
  <2>2. CASE RestartFails /\ UNCHANGED <<unit, task>>
    <3>1. restartFailures' \in 0 .. MaxRestartFailures
      BY <2>2, SelfUpdateAssumption DEF RestartFails, UpdateType
    <3> QED
      BY <1>1, <1>6, <2>2, <3>1 DEF MonitorRestarts, UpdateType
  <2> QED
    BY <1>6, <2>1, <2>2 DEF MonitorRestarts
<1> QED
  BY <1>2, <1>3, <1>4, <1>5, <1>6 DEF MonitorStep

(* And those of the unit. *)
LEMMA UnitStepType == ASSUME UpdateType, UnitStep \/ CrashUnit PROVE UpdateType'
<1> USE ContentsAre DEF files, unit, counters
<1>1. CASE StartupLoads
  BY <1>1 DEF StartupLoads, UpdateType
<1>2. CASE StartupReports
  <2>1. stateFile' \in States
    BY <1>2 DEF StartupReports, UpdateType, States
  <2>2. startupRead.failure \in Pushes
    BY <1>2 DEF StartupReports, UpdateType, States
  <2>3. service' \in [runs : Contents, phase : {"starting", "draining", "up"}]
        /\ service'.phase = "up"
    BY <1>2 DEF StartupReports, UpdateType
  <2> QED
    BY <1>2, <2>1, <2>2, <2>3 DEF StartupReports, UpdateType
<1>3. CASE Respawn
  BY <1>3, StartedType DEF Respawn, UpdateType
<1>4. CASE CrashUnit
  <2>1. crashes' \in 0 .. MaxCrashes
    BY <1>4, SelfUpdateAssumption DEF CrashUnit, UpdateType
  <2> QED
    BY <1>4, <2>1, StartedType DEF CrashUnit, UpdateType
<1> QED
  BY <1>1, <1>2, <1>3, <1>4 DEF UnitStep

(* The types are inductive. *)
LEMMA UpdateNextType == UpdateType /\ [SelfUpdateNext]_updateVars => UpdateType'
<1>1. UpdateType /\ UNCHANGED updateVars => UpdateType'
  BY DEF UpdateType, updateVars, files, unit, counters
<1> QED
  BY <1>1, UpdateStepType, MonitorStepType, UnitStepType DEF SelfUpdateNext

(* Every variable keeps its type. *)
THEOREM SelfUpdateTypeCorrect == SelfUpdateSpec => []SelfUpdateTypeOK
<1>1. UpdateType => SelfUpdateTypeOK
  <2> SUFFICES ASSUME UpdateType, NEW d \in Deliveries
               PROVE  /\ task[d].at \in {"idle", "loading", "fetched", "staged", "copying", "backedUp",
                                         "swapped", "saved", "restarting", "done"}
                      /\ task[d].at \notin {"idle", "done"} => task[d].push \in Pushes /\ task[d].state \in States
                      /\ monitor[d].at \in {"idle", "watching", "rolledBack", "renameFailed", "marking",
                                            "markingLast", "restarting", "done"}
                      /\ monitor[d].at \notin {"idle", "done"} => monitor[d].push \in Pushes
    BY DEF UpdateType, SelfUpdateTypeOK
  <2>1. task[d] \in TaskRecords /\ monitor[d] \in MonitorRecords
    BY DEF UpdateType
  <2> QED
    BY <2>1, RecordsAre DEF BeforeSwap, AfterSwap
<1> QED
  BY <1>1, UpdateInit, UpdateNextType, PTL DEF SelfUpdateSpec

-----------------------------------------------------------------------------
(* A step of one update leaves the invariant to that update. *)
LEMMA OneMoves ==
    ASSUME NEW d \in Deliveries, UnitInv', BinariesInv', TaskInv(d)', MonitorInv(d)',
           \A e \in Deliveries \ {d} : /\ task'[e].at \in {"idle", "done"}
                                       /\ monitor'[e].at \in {"idle", "done"}
    PROVE  UpdateInv'
<1>1. \A e \in Deliveries : e # d => ~(Works(e) \/ Monitors(e))'
  BY DEF Works, Monitors
<1>2. OneUpdate'
  BY <1>1 DEF OneUpdate
<1>3. ASSUME NEW e \in Deliveries PROVE TaskInv(e)' /\ MonitorInv(e)'
  <2>1. CASE e = d
    BY <2>1
  <2>2. CASE e # d
    BY <2>2 DEF TaskInv, MonitorInv, BeforeSwap, AfterSwap, Restored
  <2> QED
    BY <2>1, <2>2
<1> QED
  BY <1>2, <1>3 DEF UpdateInv

(* While one update is under way, no other is. *)
LEMMA OnlyOne ==
    ASSUME UpdateInv, NEW d \in Deliveries, Works(d) \/ Monitors(d)
    PROVE  \A e \in Deliveries \ {d} : task[e].at \in {"idle", "done"} /\ monitor[e].at \in {"idle", "done"}
BY DEF UpdateInv, OneUpdate, Works, Monitors

(* A new process of the unit runs the binary that is at its path, so that whatever was
   behind is no longer; the tasks that were under way are gone, and monitors may end. *)
LEMMA StartedInv ==
    ASSUME UpdateType, UpdateInv, StartUnit, UNCHANGED <<works, files, restartFailures>>,
           \A e \in Deliveries : monitor'[e].at = monitor[e].at \/ monitor'[e].at = "done"
    PROVE  UpdateInv'
<1>1. /\ service' = [runs |-> current, phase |-> "starting"]
      /\ \A d \in Deliveries : task'[d].at \in {"idle", "done"}
  BY StartedType
<1>2. current' = current /\ previous' = previous /\ staged' = staged /\ works' = works
  BY DEF files
<1>3. OneUpdate'
  BY <1>1 DEF UpdateInv, OneUpdate, Works, Monitors
<1>4. UnitInv'
  BY <1>1 DEF UnitInv, Works
<1>5. BinariesInv'
  BY <1>1, <1>2 DEF UpdateInv, BinariesInv
<1>6. ASSUME NEW d \in Deliveries PROVE TaskInv(d)' /\ MonitorInv(d)'
  <2>1. TaskInv(d)'
    BY <1>1 DEF TaskInv, BeforeSwap, AfterSwap
  <2>2. MonitorInv(d)'
    BY <1>1, <1>2 DEF UpdateInv, MonitorInv, Works, Restored
  <2> QED
    BY <2>1, <2>2
<1> QED
  BY <1>3, <1>4, <1>5, <1>6 DEF UpdateInv

(* A task that ends before the swap leaves the binary the process runs at its path. *)
LEMMA StoppedInv ==
    ASSUME UpdateType, UpdateInv, NEW d \in Deliveries, task[d].at \in BeforeSwap,
           Stop(d), UNCHANGED <<works, current, service, monitor, restartFailures>>
    PROVE  UpdateInv'
<1>1. /\ \A e \in Deliveries \ {d} : task'[e] = task[e]
      /\ task'[d].at = "done"
  BY DEF Stop, UpdateType
<1>2. \A e \in Deliveries \ {d} : task[e].at \in {"idle", "done"} /\ monitor[e].at \in {"idle", "done"}
  BY OnlyOne DEF Works, BeforeSwap
<1>3. monitor[d].at \in {"idle", "done"}
  BY DEF UpdateInv, TaskInv, Monitors
<1>4. UnitInv'
  BY <1>1, <1>2 DEF UpdateInv, UnitInv, Works, BeforeSwap
<1>5. BinariesInv'
  <2>1. ~Behind
    BY <1>2, <1>3 DEF Behind, BeforeSwap, AfterSwap, Restored
  <2>2. restartFailures = 0 => current \in works /\ service.runs = current
    BY <2>1 DEF UpdateInv, BinariesInv, TaskInv
  <2> QED
    BY <2>2 DEF UpdateInv, BinariesInv
<1>6. TaskInv(d)' /\ MonitorInv(d)'
  BY <1>1, <1>3 DEF TaskInv, MonitorInv, BeforeSwap, AfterSwap, Restored
<1> QED
  BY <1>1, <1>2, <1>4, <1>5, <1>6, OneMoves

(* An update keeps the invariant: what it puts at the binary's path is whole, and what
   works stays in the backup. *)
LEMMA UpdateStepInv ==
    ASSUME ~Overlapping, UpdateType, UpdateInv, NEW d \in Deliveries, UpdateStep(d)
    PROVE  UpdateInv'
<1> USE ContentsAre DEF files, unit, counters, BeforeSwap, AfterSwap, Restored
<1>0. task[d] \in TaskRecords /\ task \in [Deliveries -> TaskRecords] /\ monitor \in [Deliveries -> MonitorRecords]
  BY DEF UpdateType
<1>1. /\ TaskInv(d) /\ MonitorInv(d) /\ UnitInv /\ BinariesInv
      /\ Works(d) => \A e \in Deliveries \ {d} : task[e].at \in {"idle", "done"} /\ monitor[e].at \in {"idle", "done"}
  BY OnlyOne DEF UpdateInv
<1>2. ASSUME NEW p \in Pushes, ReceivePush(d, p) PROVE UpdateInv'
  <2>1. /\ service.phase = "up" /\ Settled /\ task[d].at = "idle"
        /\ UNCHANGED <<works, files, unit, monitor, restartFailures>>
    BY <1>2 DEF ReceivePush
  <2>2. /\ \A e \in Deliveries \ {d} : task'[e] = task[e]
        /\ task'[d].at \in {"done", "loading"}
    BY <1>0, <1>2 DEF ReceivePush, Stop
  <2>3. \A e \in Deliveries : task[e].at \in {"idle", "done"} /\ monitor[e].at \in {"idle", "done"}
    BY <2>1 DEF Settled
  <2>4. UnitInv' /\ BinariesInv'
    <3>1. ~Behind
      BY <2>3 DEF Behind
    <3> QED
      BY <1>1, <2>1, <3>1 DEF UnitInv, BinariesInv
  <2>5. restartFailures = 0 => current \in works
    BY <1>1, <2>1, <2>3 DEF UnitInv, BinariesInv, Behind
  <2>6. TaskInv(d)' /\ MonitorInv(d)'
    BY <2>1, <2>2, <2>3, <2>5 DEF TaskInv, MonitorInv, Monitors
  <2> QED
    BY <2>1, <2>2, <2>3, <2>4, <2>6, OneMoves
<1>3. CASE Download(d)
  <2>1. CASE Stop(d)
    BY <1>3, <2>1, StoppedInv DEF Download, At
  <2>2. CASE TaskTo(d, "fetched")
    <3>1. task'[d].at = "fetched" /\ \A e \in Deliveries \ {d} : task'[e] = task[e]
      BY <1>0, <1>3, <2>2, TaskGoesOn DEF Download, At
    <3>2. task[d].at = "loading" /\ UNCHANGED <<works, files, unit, monitor, restartFailures>>
      BY <1>3 DEF Download, At
    <3>3. UnitInv' /\ BinariesInv'
      BY <1>1, <3>1, <3>2 DEF UnitInv, BinariesInv, Works, Behind
    <3>4. TaskInv(d)' /\ MonitorInv(d)'
      BY <1>1, <3>1, <3>2 DEF TaskInv, MonitorInv, Monitors, Works
    <3> QED
      BY <1>1, <3>1, <3>2, <3>3, <3>4, OneMoves DEF Works
  <2> QED
    BY <1>3, <2>1, <2>2 DEF Download
<1>4. CASE StageNewBinary(d)
  <2>1. CASE Stop(d)
    BY <1>4, <2>1, StoppedInv DEF StageNewBinary, At
  <2>2. CASE staged' = Version(d) /\ TaskTo(d, "staged")
    <3>1. task'[d].at = "staged" /\ \A e \in Deliveries \ {d} : task'[e] = task[e]
      BY <1>0, <1>4, <2>2, TaskGoesOn DEF StageNewBinary, At
    <3>2. task[d].at = "fetched" /\ UNCHANGED <<works, current, previous, unit, monitor, restartFailures>>
      BY <1>4 DEF StageNewBinary, At
    <3>3. staged' \in Versions
      BY <1>0, <2>2, <3>2, RecordsAre DEF Version
    <3>4. UnitInv' /\ BinariesInv'
      BY <1>1, <3>1, <3>2 DEF UnitInv, BinariesInv, Works, Behind
    <3>5. TaskInv(d)' /\ MonitorInv(d)'
      BY <1>1, <3>1, <3>2, <3>3 DEF TaskInv, MonitorInv, Monitors, Works
    <3> QED
      BY <1>1, <3>1, <3>2, <3>4, <3>5, OneMoves DEF Works
  <2> QED
    BY <1>4, <2>1, <2>2 DEF StageNewBinary
<1>5. CASE BackupCurrent(d)
  <2>1. /\ task'[d].at = "copying" /\ task'[d].source = current
        /\ \A e \in Deliveries \ {d} : task'[e] = task[e]
    BY <1>0, <1>5 DEF BackupCurrent
  <2>2. /\ task[d].at = "staged" /\ UNCHANGED <<works, current, staged, unit, monitor, restartFailures>>
        /\ previous' = Partial
    BY <1>5 DEF BackupCurrent, At
  <2>3. UnitInv' /\ BinariesInv'
    BY <1>1, <2>1, <2>2 DEF UnitInv, BinariesInv, Works, Behind, TaskInv
  <2>4. TaskInv(d)' /\ MonitorInv(d)'
    BY <1>1, <2>1, <2>2 DEF TaskInv, MonitorInv, Monitors, Works
  <2> QED
    BY <1>1, <2>1, <2>2, <2>3, <2>4, OneMoves DEF Works
<1>6. CASE BackupDone(d)
  <2>1. task[d].at = "copying" /\ previous = Partial /\ task[d].source = current
    BY <1>1, <1>6 DEF BackupDone, At, TaskInv
  <2>2. CASE Stop(d) /\ UNCHANGED <<current, previous>>
    BY <1>6, <2>1, <2>2, StoppedInv DEF BackupDone
  <2>3. CASE TaskTo(d, "backedUp") /\ staged' = staged /\ current' = current /\ previous' = current
    <3>1. task'[d].at = "backedUp" /\ \A e \in Deliveries \ {d} : task'[e] = task[e]
      BY <1>0, <2>1, <2>3, TaskGoesOn
    <3>2. /\ UNCHANGED <<works, current, staged, unit, monitor, restartFailures>>
          /\ previous' = current
      BY <1>6, <2>1, <2>3 DEF BackupDone
    <3>3. UnitInv' /\ BinariesInv'
      BY <1>1, <2>1, <3>1, <3>2 DEF UnitInv, BinariesInv, Works, Behind, TaskInv
    <3>4. TaskInv(d)' /\ MonitorInv(d)'
      BY <1>1, <2>1, <3>1, <3>2 DEF TaskInv, MonitorInv, Monitors, Works
    <3> QED
      BY <1>1, <2>1, <3>1, <3>2, <3>3, <3>4, OneMoves DEF Works
  <2> QED
    BY <1>6, <2>1, <2>2, <2>3 DEF BackupDone
<1>7. CASE SwapIn(d)
  <2>1. task[d].at = "backedUp" /\ UNCHANGED <<works, previous, unit, monitor, restartFailures>>
    BY <1>7 DEF SwapIn, At
  <2>2. CASE Stop(d) /\ UNCHANGED current
    BY <2>1, <2>2, StoppedInv
  <2>3. CASE current' = staged /\ TaskTo(d, "swapped")
    <3>1. task'[d].at = "swapped" /\ \A e \in Deliveries \ {d} : task'[e] = task[e]
      BY <1>0, <2>1, <2>3, TaskGoesOn
    <3>2. current' \in Versions /\ previous' = current /\ (restartFailures = 0 => current \in works)
      BY <1>1, <2>1, <2>3 DEF TaskInv
    <3>3. UnitInv' /\ BinariesInv'
      BY <1>1, <2>1, <3>1, <3>2 DEF UnitInv, BinariesInv, Works, Behind
    <3>4. TaskInv(d)' /\ MonitorInv(d)'
      BY <1>1, <2>1, <3>1, <3>2 DEF TaskInv, MonitorInv, Monitors, Works
    <3> QED
      BY <1>1, <2>1, <3>1, <3>3, <3>4, OneMoves DEF Works
  <2> QED
    BY <1>7, <2>2, <2>3 DEF SwapIn
<1>8. CASE SaveHandled(d)
  <2>1. task'[d].at = "saved" /\ \A e \in Deliveries \ {d} : task'[e] = task[e]
    BY <1>0, <1>8, TaskGoesOn DEF SaveHandled, At
  <2>2. task[d].at = "swapped" /\ UNCHANGED <<works, files, unit, monitor, restartFailures>>
    BY <1>8 DEF SaveHandled, At
  <2>3. UnitInv' /\ BinariesInv'
    BY <1>1, <2>1, <2>2 DEF UnitInv, BinariesInv, Works, Behind
  <2>4. TaskInv(d)' /\ MonitorInv(d)'
    BY <1>1, <2>1, <2>2 DEF TaskInv, MonitorInv, Monitors, Works
  <2> QED
    BY <1>1, <2>1, <2>2, <2>3, <2>4, OneMoves DEF Works
<1>9. CASE SpawnMonitor(d)
  <2>1. task'[d].at = "restarting" /\ \A e \in Deliveries \ {d} : task'[e] = task[e]
    BY <1>0, <1>9, TaskGoesOn DEF SpawnMonitor, At
  <2>2. /\ task[d].at = "saved" /\ UNCHANGED <<works, files, unit, restartFailures>>
        /\ \A e \in Deliveries \ {d} : monitor'[e] = monitor[e]
        /\ monitor'[d].at = monitor[d].at \/ (monitor'[d].at = "watching" /\ previous \in works)
    BY <1>0, <1>9 DEF SpawnMonitor, At
  <2>3. monitor[d].at \in {"idle", "done"}
    BY <1>1, <2>2 DEF TaskInv, Monitors
  <2>4. UnitInv' /\ BinariesInv'
    BY <1>1, <2>1, <2>2 DEF UnitInv, BinariesInv, Works, Behind
  <2>5. TaskInv(d)' /\ MonitorInv(d)'
    BY <1>1, <2>1, <2>2, <2>3 DEF TaskInv, MonitorInv, Monitors, Works
  <2> QED
    BY <1>1, <2>1, <2>2, <2>4, <2>5, OneMoves DEF Works
<1>10. CASE RestartService(d)
  <2>1. CASE StartUnit /\ UNCHANGED restartFailures
    BY <1>10, <2>1, StartedInv DEF RestartService
  <2>2. CASE RestartFails /\ Stop(d) /\ UNCHANGED unit
    <3>1. /\ task'[d].at = "done" /\ \A e \in Deliveries \ {d} : task'[e] = task[e]
          /\ task[d].at = "restarting" /\ UNCHANGED <<works, files, monitor, unit>>
      BY <1>0, <1>10, <2>2 DEF RestartService, Stop, At
    <3>2. restartFailures' # 0
      BY <2>2 DEF RestartFails, UpdateType
    <3>3. UnitInv' /\ BinariesInv'
      BY <1>1, <3>1, <3>2 DEF UnitInv, BinariesInv, Works
    <3>4. TaskInv(d)' /\ MonitorInv(d)'
      BY <1>1, <3>1, <3>2 DEF TaskInv, MonitorInv, Monitors, Works
    <3> QED
      BY <1>1, <3>1, <3>3, <3>4, OneMoves DEF Works
  <2> QED
    BY <1>10, <2>1, <2>2 DEF RestartService
<1> QED
  BY <1>2, <1>3, <1>4, <1>5, <1>6, <1>7, <1>8, <1>9, <1>10 DEF UpdateStep

(* A monitor keeps it: the backup it restores works, and nobody else touches the binaries
   until it ends. *)
LEMMA MonitorStepInv ==
    ASSUME UpdateType, UpdateInv, NEW d \in Deliveries, MonitorStep(d)
    PROVE  UpdateInv'
<1> USE ContentsAre DEF files, unit, counters, BeforeSwap, AfterSwap, Restored
<1>0. monitor \in [Deliveries -> MonitorRecords]
  BY DEF UpdateType
<1>1. /\ TaskInv(d) /\ MonitorInv(d) /\ UnitInv /\ BinariesInv
      /\ Monitors(d) => \A e \in Deliveries \ {d} : task[e].at \in {"idle", "done"} /\ monitor[e].at \in {"idle", "done"}
  BY OnlyOne DEF UpdateInv
<1>2. ASSUME MonitorEnds(d)
      PROVE  monitor'[d].at = "done" /\ \A e \in Deliveries \ {d} : monitor'[e] = monitor[e]
  BY <1>0, <1>2 DEF MonitorEnds
<1>3. ASSUME NEW a, MonitorTo(d, a), "at" \in DOMAIN monitor[d]
      PROVE  monitor'[d].at = a /\ \A e \in Deliveries \ {d} : monitor'[e] = monitor[e]
  BY <1>0, <1>3 DEF MonitorTo
<1>4. "at" \in DOMAIN monitor[d]
  BY <1>0 DEF MonitorRecords
<1>5. CASE MonitorSeesHealth(d)
  <2>1. /\ monitor[d].at = "watching" /\ service.phase = "up"
        /\ UNCHANGED <<works, files, unit, task, restartFailures>>
        /\ monitor'[d].at = "done" /\ \A e \in Deliveries \ {d} : monitor'[e] = monitor[e]
    BY <1>2, <1>5 DEF MonitorSeesHealth, Watching
  <2>2. UnitInv' /\ BinariesInv'
    BY <1>1, <2>1 DEF UnitInv, BinariesInv, Works, Behind
  <2>3. TaskInv(d)' /\ MonitorInv(d)'
    BY <1>1, <2>1 DEF TaskInv, MonitorInv, Monitors, Works
  <2> QED
    BY <1>1, <2>1, <2>2, <2>3, OneMoves DEF Monitors
<1>6. CASE RollBack(d)
  <2>1. /\ monitor[d].at = "watching" /\ service.phase # "up"
        /\ UNCHANGED <<works, staged, unit, task, restartFailures>>
    BY <1>6 DEF RollBack, Watching
  <2>2. previous \in works /\ previous \in Versions
    BY <1>1, <2>1 DEF MonitorInv, UpdateType
  <2>3. /\ current' = previous /\ monitor'[d].at = "rolledBack"
        /\ \A e \in Deliveries \ {d} : monitor'[e] = monitor[e]
    BY <1>3, <1>4, <1>6, <2>2 DEF RollBack
  <2>4. \A e \in Deliveries : ~Works(e)
    BY <1>1, <2>1 DEF UnitInv
  <2>5. UnitInv' /\ BinariesInv'
    BY <1>1, <2>1, <2>2, <2>3 DEF UnitInv, BinariesInv, Works, Behind
  <2>6. TaskInv(d)' /\ MonitorInv(d)'
    BY <1>1, <2>1, <2>2, <2>3, <2>4 DEF TaskInv, MonitorInv, Monitors, Works
  <2> QED
    BY <1>1, <2>1, <2>3, <2>5, <2>6, OneMoves DEF Monitors
<1>7. ASSUME MarkFailedLoads(d) \/ MarkFailedSaves(d) PROVE UpdateInv'
  <2>1. /\ UNCHANGED <<works, files, unit, task, restartFailures>>
        /\ monitor[d].at \in {"rolledBack", "marking"} /\ monitor'[d].at \in {"marking", "restarting"}
        /\ \A e \in Deliveries \ {d} : monitor'[e] = monitor[e]
    <3>1. CASE MarkFailedLoads(d)
      BY <1>0, <1>1, <3>1 DEF MarkFailedLoads, MonitorInv
    <3>2. CASE MarkFailedSaves(d)
      BY <1>1, <1>3, <1>4, <3>2 DEF MarkFailedSaves, MonitorInv
    <3> QED
      BY <1>7, <3>1, <3>2
  <2>2. UnitInv' /\ BinariesInv'
    BY <1>1, <2>1 DEF UnitInv, BinariesInv, Works, Behind
  <2>3. TaskInv(d)' /\ MonitorInv(d)'
    BY <1>1, <2>1 DEF TaskInv, MonitorInv, Monitors, Works
  <2> QED
    BY <1>1, <2>1, <2>2, <2>3, OneMoves DEF Monitors
<1>8. CASE MonitorRestarts(d)
  <2>1. /\ monitor[d].at = "restarting" /\ UNCHANGED <<works, files>>
        /\ monitor'[d].at = "done" /\ \A e \in Deliveries \ {d} : monitor'[e] = monitor[e]
    BY <1>2, <1>8 DEF MonitorRestarts, Watching
  <2>2. CASE StartUnit /\ UNCHANGED restartFailures
    BY <2>1, <2>2, StartedInv
  <2>3. CASE RestartFails /\ UNCHANGED <<unit, task>>
    <3>1. restartFailures' # 0
      BY <2>3 DEF RestartFails, UpdateType
    <3>2. UnitInv' /\ BinariesInv'
      BY <1>1, <2>1, <2>3, <3>1 DEF UnitInv, BinariesInv, Works
    <3>3. TaskInv(d)' /\ MonitorInv(d)'
      BY <1>1, <2>1, <2>3, <3>1 DEF TaskInv, MonitorInv, Monitors, Works
    <3> QED
      BY <1>1, <2>1, <2>3, <3>2, <3>3, OneMoves DEF Monitors
  <2> QED
    BY <1>8, <2>2, <2>3 DEF MonitorRestarts
<1> QED
  BY <1>5, <1>6, <1>7, <1>8 DEF MonitorStep

(* The unit's process touches no binary. *)
LEMMA UnitStepInv == ASSUME UpdateType, UpdateInv, UnitStep \/ CrashUnit PROVE UpdateInv'
<1> USE DEF files, unit, counters
<1>1. CASE StartupLoads \/ StartupReports
  <2>1. /\ UNCHANGED <<works, files, task, monitor, restartFailures>>
        /\ service'.runs = service.runs /\ service.runs \in works /\ service.phase # "up"
    BY <1>1 DEF StartupLoads, StartupReports, UpdateType, UpdateInv, UnitInv
  <2>2. \A e \in Deliveries : ~Works(e)
    BY <2>1 DEF UpdateInv, UnitInv
  <2>3. UnitInv' /\ OneUpdate'
    BY <2>1, <2>2 DEF UpdateInv, UnitInv, OneUpdate, Works, Monitors
  <2>4. BinariesInv'
    BY <2>1 DEF UpdateInv, BinariesInv, Behind
  <2>5. \A d \in Deliveries : TaskInv(d)' /\ MonitorInv(d)'
    BY <2>1 DEF UpdateInv, TaskInv, MonitorInv, Works, Monitors
  <2> QED
    BY <2>3, <2>4, <2>5 DEF UpdateInv
<1>2. CASE Respawn
  BY <1>2, StartedInv DEF Respawn
<1>3. CASE CrashUnit
  BY <1>3, StartedInv DEF CrashUnit
<1> QED
  BY <1>1, <1>2, <1>3 DEF UnitStep

(* Where pushes wait until the last update has settled, the invariant holds. *)
LEMMA UpdateKept ==
    ASSUME ~Overlapping
    PROVE  SelfUpdateSpec => [](UpdateType /\ UpdateInv)
<1>1. UpdateType /\ UpdateInv /\ [SelfUpdateNext]_updateVars => (UpdateType /\ UpdateInv)'
  <2>1. UpdateType /\ UpdateInv /\ UNCHANGED updateVars => UpdateInv'
    BY DEF updateVars, files, unit, counters, UpdateInv, OneUpdate, UnitInv, BinariesInv, TaskInv, MonitorInv,
           Behind, Works, Monitors
  <2> QED
    BY <2>1, UpdateNextType, UpdateStepInv, MonitorStepInv, UnitStepInv DEF SelfUpdateNext
<1> QED
  BY <1>1, UpdateInit, PTL DEF SelfUpdateSpec

(* At the binary's path there is a whole binary at every instant, wherever an update, a
   rollback or the process is interrupted, if no push arrives before the last update has
   settled. *)
THEOREM CurrentWhole ==
    ASSUME ~Overlapping
    PROVE  SelfUpdateSpec => []CurrentIsWhole
<1>1. UpdateInv => CurrentIsWhole
  BY DEF UpdateInv, BinariesInv, CurrentIsWhole
<1> QED
  BY <1>1, UpdateKept, PTL

(* Under the same condition, and as long as the service manager has started what it was
   asked to, a binary that works is at the one path or the other. *)
THEOREM KnownGood ==
    ASSUME ~Overlapping
    PROVE  SelfUpdateSpec => []KnownGoodKept
<1>1. UpdateInv => KnownGoodKept
  BY DEF UpdateInv, BinariesInv, KnownGoodKept
<1> QED
  BY <1>1, UpdateKept, PTL
-------------------------------------------------------------------------------
(* The terminal.  What an operation draws on the screen it marks: a row that is   *)
(* not damaged after it is as it was, and was not damaged before.                 *)

TerminalFields == {"cols", "rows", "primary", "alt", "onAlt", "col", "row", "saved", "top", "bottom",
                   "autowrap", "panicked"}
ScreenFields == {"primary", "alt"}

SoundGrid(g, n) ==
    /\ DOMAIN g = {"cells", "dirty"}
    /\ g.cells = [r \in 1 .. n |-> g.cells[r]] /\ g.dirty \subseteq 1 .. n

\* A terminal whose cursor may stand below the last row.
Loose(t) ==
    /\ DOMAIN t = TerminalFields
    /\ t.rows \in Nat \ {0} /\ t.row \in Nat \ {0} /\ t.top \in Nat \ {0} /\ t.bottom \in 1 .. t.rows
    /\ t.saved[1] \in Nat \ {0} /\ t.onAlt \in BOOLEAN /\ t.panicked \in BOOLEAN
    /\ SoundGrid(t.primary, t.rows) /\ SoundGrid(t.alt, t.rows)
Sound(t) == Loose(t) /\ t.row <= t.rows

\* The undamaged rows of u are undamaged rows of t.
Marks(t, u) ==
    /\ u.cols = t.cols /\ u.rows = t.rows
    /\ \A r \in 1 .. t.rows :
          r \in Grid(u).dirty \/ (r \notin Grid(t).dirty /\ Grid(u).cells[r] = Grid(t).cells[r])
SameCursor(t, u) == \A f \in TerminalFields \ ScreenFields : u[f] = t[f]

(* What is made row by row is a sequence.                                          *)
LEMMA RowsAreSeq ==
    ASSUME NEW S, NEW n \in Nat, NEW f \in [1 .. n -> S]
    PROVE  f \in Seq(S) /\ Len(f) = n
<1>1. f \in Seq(S)
  BY SeqDef, Zenon
<1>2. DOMAIN f = 1 .. Len(f) /\ Len(f) \in Nat /\ DOMAIN f = 1 .. n
  BY <1>1, LenProperties
<1> QED
  BY <1>1, <1>2

(* Marking what is drawn is transitive.                                           *)
LEMMA MarksTwice ==
    ASSUME NEW t, NEW u, NEW v, Marks(t, u), Marks(u, v)
    PROVE  Marks(t, v)
BY DEF Marks

(* A step that leaves the screen alone.                                           *)
LEMMA MarksNothing ==
    ASSUME NEW t, NEW u, u.cols = t.cols, u.rows = t.rows, Grid(u) = Grid(t)
    PROVE  Marks(t, u)
BY DEF Marks

(* The screen that is shown is exchanged for another one, the rest stays.         *)
LEMMA GridReplaced ==
    ASSUME NEW t, Loose(t), NEW g, SoundGrid(g, t.rows)
    PROVE  /\ Loose(WithGrid(t, g)) /\ SameCursor(t, WithGrid(t, g)) /\ Grid(WithGrid(t, g)) = g
           /\ SoundGrid(Grid(t), t.rows)
BY DEF WithGrid, Loose, SameCursor, Grid, TerminalFields, ScreenFields

(* Rows that are set are marked.                                                  *)
LEMMA RowsSet ==
    ASSUME NEW t, Loose(t), NEW row, DOMAIN row \subseteq 1 .. t.rows
    PROVE  Loose(SetRows(t, row)) /\ SameCursor(t, SetRows(t, row)) /\ Marks(t, SetRows(t, row))
<1> DEFINE g == [cells |-> [r \in 1 .. t.rows |-> IF r \in DOMAIN row THEN row[r] ELSE Grid(t).cells[r]],
                 dirty |-> Grid(t).dirty \cup DOMAIN row]
<1>1. SoundGrid(Grid(t), t.rows)
  BY DEF Loose, Grid
<1>2. SoundGrid(g, t.rows)
  BY <1>1 DEF SoundGrid
<1>3. /\ Loose(WithGrid(t, g)) /\ SameCursor(t, WithGrid(t, g)) /\ Grid(WithGrid(t, g)) = g
  BY <1>2, GridReplaced
<1>4. SetRows(t, row) = WithGrid(t, g)
  BY DEF SetRows
<1>5. WithGrid(t, g).cols = t.cols /\ WithGrid(t, g).rows = t.rows
  BY <1>3 DEF SameCursor, TerminalFields, ScreenFields
<1>6. \A r \in 1 .. t.rows : r \in g.dirty \/ (r \notin Grid(t).dirty /\ g.cells[r] = Grid(t).cells[r])
  OBVIOUS
<1> HIDE DEF g
<1>7. Marks(t, WithGrid(t, g))
  BY <1>3, <1>5, <1>6 DEF Marks
<1> QED
  BY <1>3, <1>4, <1>7

(* A cell that is set is in a row that is marked.                                 *)
LEMMA CellSet ==
    ASSUME NEW t, Loose(t), NEW row \in Nat \ {0}, NEW col, NEW glyph
    PROVE  LET u == SetCell(t, row, col, glyph) IN Loose(u) /\ SameCursor(t, u) /\ Marks(t, u)
<1> DEFINE g == [Grid(t) EXCEPT !.cells[row][col] = glyph, !.dirty = @ \cup {row}]
           u == SetCell(t, row, col, glyph)
<1>1. SoundGrid(Grid(t), t.rows) /\ t.rows \in Nat \ {0}
  BY DEF Loose, Grid
<1>2. CASE row > t.rows \/ col > t.cols
  <2>1. u = t
    BY <1>2 DEF SetCell
  <2>2. SameCursor(t, t) /\ Marks(t, t)
    BY MarksNothing DEF SameCursor
  <2> QED
    BY <2>1, <2>2
<1>3. CASE ~(row > t.rows \/ col > t.cols)
  <2>1. u = WithGrid(t, g)
    BY <1>3 DEF SetCell
  <2>2. row \in 1 .. t.rows
    BY <1>1, <1>3
  <2>3. /\ DOMAIN g = {"cells", "dirty"} /\ g.cells = [Grid(t).cells EXCEPT ![row][col] = glyph]
        /\ g.dirty = Grid(t).dirty \cup {row}
    BY <1>1 DEF SoundGrid
  <2> HIDE DEF g
  <2>8. PICK c, k : c = Grid(t).cells /\ k = [c[row] EXCEPT ![col] = glyph]
    OBVIOUS
  <2>9. c = [r \in 1 .. t.rows |-> c[r]] /\ g.cells = [c EXCEPT ![row] = k]
    BY <1>1, <2>3, <2>8 DEF SoundGrid
  <2>10. DOMAIN c = 1 .. t.rows
    BY <2>9
  <2>11. /\ g.cells = [r \in 1 .. t.rows |-> g.cells[r]]
         /\ \A r \in 1 .. t.rows : r # row => g.cells[r] = Grid(t).cells[r]
    BY <2>2, <2>8, <2>9, <2>10
  <2> HIDE DEF g
  <2>4. SoundGrid(g, t.rows)
    BY <1>1, <2>2, <2>3, <2>11 DEF SoundGrid
  <2>5. Loose(WithGrid(t, g)) /\ SameCursor(t, WithGrid(t, g)) /\ Grid(WithGrid(t, g)) = g
    BY <2>4, GridReplaced
  <2>6. WithGrid(t, g).cols = t.cols /\ WithGrid(t, g).rows = t.rows
    BY <2>5 DEF SameCursor, TerminalFields, ScreenFields
  <2>7. Marks(t, WithGrid(t, g))
    BY <2>3, <2>5, <2>6, <2>11 DEF Marks
  <2> HIDE DEF u
  <2> QED
    BY <2>1, <2>5, <2>7 DEF u
<1> QED
  BY <1>2, <1>3

\* What every operation does: it leaves a terminal, and marks what it drew.
Draws(t, u) == Loose(u) /\ Marks(t, u)

(* An operation that only moves the cursor.                                       *)
LEMMA CursorMoved ==
    ASSUME NEW t, Loose(t), NEW row \in Nat \ {0}, NEW col
    PROVE  /\ Draws(t, MoveTo(t, row, col)) /\ MoveTo(t, row, col).row = row
           /\ \A f \in TerminalFields \ {"row", "col"} : MoveTo(t, row, col)[f] = t[f]
<1>1. /\ Loose(MoveTo(t, row, col)) /\ MoveTo(t, row, col).row = row
      /\ \A f \in TerminalFields \ {"row", "col"} : MoveTo(t, row, col)[f] = t[f]
  BY DEF Loose, MoveTo, TerminalFields
<1>2. /\ MoveTo(t, row, col).cols = t.cols /\ MoveTo(t, row, col).rows = t.rows
      /\ Grid(MoveTo(t, row, col)) = Grid(t)
  BY <1>1 DEF TerminalFields, Grid
<1> QED
  BY <1>1, <1>2, MarksNothing DEF Draws

(* The cursor is brought back to the last row.                                    *)
LEMMA Clamped ==
    ASSUME NEW t, Loose(t)
    PROVE  Draws(t, ClampCursor(t)) /\ Sound(ClampCursor(t)) /\ ClampCursor(t).panicked = t.panicked
<1>1. Smaller(t.row, t.rows) \in Nat \ {0} /\ Smaller(t.row, t.rows) <= t.rows
  BY DEF Loose, Smaller
<1>2. /\ Draws(t, ClampCursor(t)) /\ ClampCursor(t).row = Smaller(t.row, t.rows)
      /\ ClampCursor(t).rows = t.rows /\ ClampCursor(t).panicked = t.panicked
  BY <1>1, CursorMoved DEF ClampCursor, TerminalFields
<1> QED
  BY <1>1, <1>2 DEF Draws, Sound

(* Rows, a part of a row, or a cell: the cursor stays.                            *)
LEMMA DrawnInPlace ==
    ASSUME NEW t, Sound(t)
    PROVE  /\ \A row : DOMAIN row \subseteq 1 .. t.rows =>
                 Draws(t, SetRows(t, row)) /\ Sound(SetRows(t, row)) /\ SameCursor(t, SetRows(t, row))
           /\ \A from, to : LET u == ClearRowRange(t, t.row, from, to) IN
                 Draws(t, u) /\ Sound(u) /\ SameCursor(t, u)
           /\ \A col, glyph : LET u == SetCell(t, t.row, col, glyph) IN
                 Draws(t, u) /\ Sound(u) /\ SameCursor(t, u)
<1>1. Loose(t) /\ t.row \in 1 .. t.rows /\ t.row \in Nat \ {0}
  BY DEF Sound, Loose
<1>2. ASSUME NEW u, Loose(u), SameCursor(t, u) PROVE Sound(u)
  BY <1>1, <1>2 DEF Sound, SameCursor, TerminalFields, ScreenFields
<1>3. ASSUME NEW row, DOMAIN row \subseteq 1 .. t.rows
      PROVE  Draws(t, SetRows(t, row)) /\ Sound(SetRows(t, row)) /\ SameCursor(t, SetRows(t, row))
  BY <1>1, <1>2, <1>3, RowsSet DEF Draws
<1>4. ASSUME NEW from, NEW to
      PROVE  LET u == ClearRowRange(t, t.row, from, to) IN Draws(t, u) /\ Sound(u) /\ SameCursor(t, u)
  <2>1. CASE from > Smaller(to, t.cols)
    <3>1. ClearRowRange(t, t.row, from, to) = t
      BY <2>1 DEF ClearRowRange
    <3>2. Draws(t, t) /\ SameCursor(t, t)
      BY <1>1, MarksNothing DEF Draws, SameCursor
    <3> QED
      BY <3>1, <3>2
  <2>2. CASE ~(from > Smaller(to, t.cols))
    <3>1. PICK row : /\ row = [r \in {t.row} |-> [c \in 1 .. t.cols |->
                                 IF c \in from .. to THEN "blank" ELSE Grid(t).cells[t.row][c]]]
                     /\ ClearRowRange(t, t.row, from, to) = SetRows(t, row)
      BY <2>2 DEF ClearRowRange
    <3>2. DOMAIN row \subseteq 1 .. t.rows
      BY <1>1, <3>1
    <3> QED
      BY <1>3, <3>1, <3>2
  <2> QED
    BY <2>1, <2>2
<1>5. ASSUME NEW col, NEW glyph
      PROVE  LET u == SetCell(t, t.row, col, glyph) IN Draws(t, u) /\ Sound(u) /\ SameCursor(t, u)
  BY <1>1, <1>2, CellSet DEF Draws
<1> QED
  BY <1>3, <1>4, <1>5

(* Scrolling, a panic included.                                                   *)
LEMMA Scrolled ==
    ASSUME NEW t, Sound(t), NEW top \in Nat \ {0}, NEW bottom \in 1 .. t.rows, NEW n
    PROVE  /\ Draws(t, ScrollUp(t, top, bottom, n)) /\ Sound(ScrollUp(t, top, bottom, n))
           /\ Draws(t, ScrollDown(t, top, bottom, n)) /\ Sound(ScrollDown(t, top, bottom, n))
<1>1. t.rows \in Nat \ {0} /\ Loose(t)
  BY DEF Sound, Loose
<1>2. Draws(t, t)
  BY <1>1, MarksNothing DEF Draws
<1> DEFINE count == Smaller(n, bottom - top + 1)
<1>3. Draws(t, ScrollUp(t, top, bottom, n)) /\ Sound(ScrollUp(t, top, bottom, n))
  <2>1. CASE top >= bottom
    BY <1>2, <2>1 DEF ScrollUp
  <2>2. CASE ~(top >= bottom) /\ top = 1 /\ count = bottom
    <3>1. PICK row : /\ row = [r \in 1 .. t.rows - bottom |-> Grid(t).cells[r + bottom]]
                     /\ ScrollUp(t, top, bottom, n) = [SetRows(t, row) EXCEPT !.panicked = TRUE]
      BY <2>2 DEF ScrollUp
    <3>2. DOMAIN row \subseteq 1 .. t.rows
      BY <1>1, <3>1
    <3>3. Draws(t, SetRows(t, row)) /\ Sound(SetRows(t, row))
      BY <3>2, DrawnInPlace
    <3>4. PICK u : u = SetRows(t, row)
      OBVIOUS
    <3>5. /\ Sound([u EXCEPT !.panicked = TRUE]) /\ Grid([u EXCEPT !.panicked = TRUE]) = Grid(u)
          /\ [u EXCEPT !.panicked = TRUE].cols = u.cols /\ [u EXCEPT !.panicked = TRUE].rows = u.rows
      BY <3>3, <3>4 DEF Sound, Loose, TerminalFields, Grid
    <3> QED
      BY <3>1, <3>3, <3>4, <3>5 DEF Draws, Marks, Sound
  <2>3. CASE ~(top >= bottom) /\ ~(top = 1 /\ count = bottom)
    <3>1. PICK row : /\ row = [r \in top .. bottom |->
                                 IF r + count <= bottom THEN Grid(t).cells[r + count] ELSE BlankRow(t.cols)]
                     /\ ScrollUp(t, top, bottom, n) = SetRows(t, row)
      BY <2>3 DEF ScrollUp
    <3>2. DOMAIN row \subseteq 1 .. t.rows
      BY <1>1, <3>1
    <3> QED
      BY <3>1, <3>2, DrawnInPlace
  <2> QED
    BY <2>1, <2>2, <2>3
<1>4. Draws(t, ScrollDown(t, top, bottom, n)) /\ Sound(ScrollDown(t, top, bottom, n))
  <2>1. CASE top >= bottom
    BY <1>2, <2>1 DEF ScrollDown
  <2>2. CASE ~(top >= bottom)
    <3>1. PICK row : /\ row = [r \in top .. bottom |->
                                 IF r - count >= top THEN Grid(t).cells[r - count] ELSE BlankRow(t.cols)]
                     /\ ScrollDown(t, top, bottom, n) = SetRows(t, row)
      BY <2>2 DEF ScrollDown
    <3>2. DOMAIN row \subseteq 1 .. t.rows
      BY <1>1, <3>1
    <3> QED
      BY <3>1, <3>2, DrawnInPlace
  <2> QED
    BY <2>1, <2>2
<1> QED
  BY <1>3, <1>4

(* A move within the rows.                                                        *)
LEMMA MovedInside ==
    ASSUME NEW t, Sound(t), NEW row \in 1 .. t.rows, NEW col
    PROVE  Draws(t, MoveTo(t, row, col)) /\ Sound(MoveTo(t, row, col))
<1>1. Loose(t) /\ row \in Nat \ {0} /\ row <= t.rows
  BY DEF Sound, Loose
<1> QED
  BY <1>1, CursorMoved DEF Draws, Sound, TerminalFields

LEMMA DrawnTwice ==
    ASSUME NEW t, NEW u, NEW v, Draws(t, u), Draws(u, v)
    PROVE  Draws(t, v)
BY MarksTwice DEF Draws

(* The lines of a text.                                                           *)
LEMMA LinesFed ==
    ASSUME NEW t, Sound(t)
    PROVE  /\ Draws(t, LineFeed(t)) /\ Sound(LineFeed(t))
           /\ Draws(t, ReverseIndex(t)) /\ Sound(ReverseIndex(t))
           /\ Draws(t, CarriageReturn(t)) /\ Sound(CarriageReturn(t))
<1>1. /\ t.rows \in Nat \ {0} /\ t.row \in 1 .. t.rows /\ t.top \in Nat \ {0} /\ t.bottom \in 1 .. t.rows
      /\ Smaller(t.row + 1, t.rows) \in 1 .. t.rows /\ Larger(t.row - 1, 1) \in 1 .. t.rows
  BY DEF Sound, Loose, Smaller, Larger
<1>2. Draws(t, LineFeed(t)) /\ Sound(LineFeed(t))
  BY <1>1, Scrolled, MovedInside DEF LineFeed
<1>3. Draws(t, ReverseIndex(t)) /\ Sound(ReverseIndex(t))
  BY <1>1, Scrolled, MovedInside DEF ReverseIndex
<1>4. Draws(t, CarriageReturn(t)) /\ Sound(CarriageReturn(t))
  BY <1>1, MovedInside DEF CarriageReturn
<1> QED
  BY <1>2, <1>3, <1>4

(* A character, and a mark on the one before the cursor.                          *)
LEMMA CharsPut ==
    ASSUME NEW t, Sound(t)
    PROVE  /\ \A width : Draws(t, PutChar(t, width)) /\ Sound(PutChar(t, width))
           /\ Draws(t, Combine(t)) /\ Sound(Combine(t))
<1>1. Draws(t, t) /\ t.row \in 1 .. t.rows
  BY MarksNothing DEF Draws, Sound, Loose
<1>2. ASSUME NEW width PROVE Draws(t, PutChar(t, width)) /\ Sound(PutChar(t, width))
  <2>1. PICK w : w = IF t.col <= t.cols THEN t
                     ELSE IF t.autowrap THEN LineFeed(CarriageReturn(t)) ELSE MoveTo(t, t.row, t.cols)
    OBVIOUS
  <2>2. Draws(t, w) /\ Sound(w)
    <3>1. Draws(t, LineFeed(CarriageReturn(t))) /\ Sound(LineFeed(CarriageReturn(t)))
      BY LinesFed, DrawnTwice
    <3>2. Draws(t, MoveTo(t, t.row, t.cols)) /\ Sound(MoveTo(t, t.row, t.cols))
      BY <1>1, MovedInside
    <3> QED
      BY <1>1, <2>1, <3>1, <3>2
  <2>3. PICK put : put = SetCell(w, w.row, w.col, IF width = 2 THEN "wide" ELSE "glyph")
    OBVIOUS
  <2>4. Draws(w, put) /\ Sound(put)
    BY <2>2, <2>3, DrawnInPlace
  <2>5. PICK whole : whole = IF width = 2 THEN SetCell(put, put.row, put.col + 1, "continuation") ELSE put
    OBVIOUS
  <2>6. Draws(put, whole) /\ Sound(whole)
    <3>1. Draws(put, SetCell(put, put.row, put.col + 1, "continuation")) /\ Sound(SetCell(put, put.row, put.col + 1, "continuation"))
      BY <2>4, DrawnInPlace
    <3>2. Draws(put, put)
      BY <2>4, MarksNothing DEF Draws, Sound
    <3> QED
      BY <2>4, <2>5, <3>1, <3>2
  <2>7. Draws(whole, MoveTo(whole, whole.row, whole.col + width)) /\ Sound(MoveTo(whole, whole.row, whole.col + width))
    <3>1. whole.row \in 1 .. whole.rows
      BY <2>6 DEF Sound, Loose
    <3> QED
      BY <2>6, <3>1, MovedInside
  <2>8. PutChar(t, width) = MoveTo(whole, whole.row, whole.col + width)
    BY <2>1, <2>3, <2>5 DEF PutChar
  <2>9. Draws(t, put) /\ Draws(t, whole)
    BY <2>2, <2>4, <2>6, DrawnTwice
  <2> QED
    BY <2>7, <2>8, <2>9, DrawnTwice
<1>3. Draws(t, Combine(t)) /\ Sound(Combine(t))
  <2>1. Combine(t) = t \/ \E col, glyph : Combine(t) = SetCell(t, t.row, col, glyph)
    BY DEF Combine
  <2> QED
    BY <1>1, <2>1, DrawnInPlace
<1> QED
  BY <1>2, <1>3

(* A new screen, and one that was hidden, are damaged all over.                   *)
LEMMA ScreensSwitched ==
    ASSUME NEW t, Sound(t)
    PROVE  /\ Draws(t, NewTerminal(t.cols, t.rows)) /\ Sound(NewTerminal(t.cols, t.rows))
           /\ \A on \in BOOLEAN, save \in BOOLEAN :
                 Draws(t, SwitchAltScreen(t, on, save)) /\ Sound(SwitchAltScreen(t, on, save))
<1>1. /\ Loose(t) /\ t.rows \in Nat \ {0} /\ t.row \in 1 .. t.rows /\ t.saved[1] \in Nat \ {0}
      /\ DOMAIN t = TerminalFields /\ t.onAlt \in BOOLEAN
      /\ SoundGrid(t.primary, t.rows) /\ SoundGrid(t.alt, t.rows)
  BY DEF Sound, Loose
<1>2. PICK n : n = t.rows
  OBVIOUS
<1>3. PICK g : g = NewGrid(t.cols, n)
  OBVIOUS
<1>4. SoundGrid(g, n) /\ g.dirty = 1 .. n
  BY <1>3 DEF NewGrid, SoundGrid
<1>5. Draws(t, NewTerminal(t.cols, t.rows)) /\ Sound(NewTerminal(t.cols, t.rows))
  BY <1>1, <1>2, <1>3, <1>4 DEF NewTerminal, Draws, Marks, Sound, Loose, TerminalFields, Grid
<1>6. ASSUME NEW on \in BOOLEAN, NEW save \in BOOLEAN
      PROVE  Draws(t, SwitchAltScreen(t, on, save)) /\ Sound(SwitchAltScreen(t, on, save))
  <2>1. CASE on = t.onAlt
    <3>1. SwitchAltScreen(t, on, save) = t
      BY <2>1 DEF SwitchAltScreen
    <3> QED
      BY <1>1, <3>1, MarksNothing DEF Draws
  <2>2. CASE on # t.onAlt /\ on
    <3>1. PICK m : m = MoveTo(t, 1, 1)
      OBVIOUS
    <3>2. Loose(m) /\ m.row = 1 /\ m.cols = t.cols /\ m.rows = t.rows /\ m.saved = t.saved
      BY <1>1, <3>1, CursorMoved DEF Draws, TerminalFields
    <3>3. PICK saved : /\ saved = IF save THEN <<t.row, t.col>> ELSE m.saved
                       /\ SwitchAltScreen(t, on, save) = [m EXCEPT !.alt = g, !.onAlt = TRUE, !.saved = saved]
      BY <1>2, <1>3, <2>2, <3>1 DEF SwitchAltScreen
    <3>4. saved[1] \in Nat \ {0}
      BY <1>1, <3>2, <3>3
    <3>5. PICK u : u = [m EXCEPT !.alt = g, !.onAlt = TRUE, !.saved = saved]
      OBVIOUS
    <3>6. Sound(u) /\ u.cols = t.cols /\ u.rows = t.rows /\ Grid(u) = g
      BY <1>1, <1>2, <1>4, <3>2, <3>4, <3>5 DEF Sound, Loose, TerminalFields, Grid
    <3> QED
      BY <1>2, <1>4, <3>3, <3>5, <3>6 DEF Draws, Marks, Sound
  <2>3. CASE on # t.onAlt /\ ~on
    <3>1. PICK m : m = IF save THEN MoveTo(t, t.saved[1], t.saved[2]) ELSE t
      OBVIOUS
    <3>2. Loose(m) /\ m.cols = t.cols /\ m.rows = t.rows
      BY <1>1, <3>1, CursorMoved DEF Draws, TerminalFields
    <3>3. PICK u : u = [m EXCEPT !.onAlt = FALSE, !.primary.dirty = 1 .. n]
      OBVIOUS
    <3>4. SwitchAltScreen(t, on, save) = ClampCursor(u)
      BY <1>2, <2>3, <3>1, <3>3 DEF SwitchAltScreen
    <3>5. Loose(u) /\ u.cols = t.cols /\ u.rows = t.rows /\ Grid(u).dirty = 1 .. n
      BY <1>2, <3>2, <3>3 DEF Loose, TerminalFields, Grid, SoundGrid
    <3>6. Draws(t, u)
      BY <1>2, <3>5 DEF Draws, Marks
    <3> QED
      BY <3>4, <3>5, <3>6, Clamped, DrawnTwice
  <2> QED
    BY <2>1, <2>2, <2>3
<1> QED
  BY <1>5, <1>6

(* What is erased or deleted.                                                     *)
LEMMA Erased ==
    ASSUME NEW t, Sound(t)
    PROVE  /\ \A mode \in 0 .. 2 : /\ Draws(t, EraseDisplay(t, mode)) /\ Sound(EraseDisplay(t, mode))
                                   /\ Draws(t, EraseLine(t, mode)) /\ Sound(EraseLine(t, mode))
           /\ \A n : Draws(t, DeleteChars(t, n)) /\ Sound(DeleteChars(t, n))
<1>1. t.rows \in Nat \ {0} /\ t.row \in 1 .. t.rows
  BY DEF Sound, Loose
<1>2. ASSUME NEW u, Sound(u), u.rows = t.rows, NEW rows, rows \subseteq 1 .. t.rows
      PROVE  Draws(u, ClearRows(u, rows)) /\ Sound(ClearRows(u, rows)) /\ SameCursor(u, ClearRows(u, rows))
  <2>1. PICK row : row = [r \in rows |-> BlankRow(u.cols)] /\ ClearRows(u, rows) = SetRows(u, row)
    BY DEF ClearRows
  <2> QED
    BY <1>2, <2>1, DrawnInPlace
<1>3. ASSUME NEW from, NEW to
      PROVE  LET u == ClearRowRange(t, t.row, from, to) IN Draws(t, u) /\ Sound(u) /\ u.rows = t.rows
  <2>1. LET u == ClearRowRange(t, t.row, from, to) IN Draws(t, u) /\ Sound(u)
    BY DrawnInPlace
  <2> QED
    BY <2>1 DEF Draws, Marks
<1>4. /\ t.row + 1 .. t.rows \subseteq 1 .. t.rows /\ 1 .. t.row - 1 \subseteq 1 .. t.rows
      /\ 1 .. t.rows \subseteq 1 .. t.rows /\ {t.row} \subseteq 1 .. t.rows
  BY <1>1
<1>5. Draws(t, EraseDisplay(t, 0)) /\ Sound(EraseDisplay(t, 0))
  <2>1. PICK u : u = ClearRowRange(t, t.row, t.col, t.cols)
    OBVIOUS
  <2>2. Draws(t, u) /\ Sound(u) /\ u.rows = t.rows
    BY <1>3, <2>1
  <2>3. EraseDisplay(t, 0) = ClearRows(u, t.row + 1 .. t.rows)
    BY <2>1 DEF EraseDisplay
  <2> QED
    BY <1>2, <1>4, <2>2, <2>3, DrawnTwice
<1>6. Draws(t, EraseDisplay(t, 1)) /\ Sound(EraseDisplay(t, 1))
  <2>1. PICK u : u = ClearRows(t, 1 .. t.row - 1)
    OBVIOUS
  <2>2. Draws(t, u) /\ Sound(u) /\ u.row = t.row
    BY <1>2, <1>4, <2>1 DEF SameCursor, TerminalFields, ScreenFields
  <2>3. EraseDisplay(t, 1) = ClearRowRange(u, u.row, 1, t.col)
    BY <2>1, <2>2 DEF EraseDisplay
  <2> QED
    BY <2>2, <2>3, DrawnInPlace, DrawnTwice
<1>7. Draws(t, EraseDisplay(t, 2)) /\ Sound(EraseDisplay(t, 2))
  <2>1. EraseDisplay(t, 2) = ClearRows(t, 1 .. t.rows)
    BY DEF EraseDisplay
  <2> QED
    BY <1>2, <1>4, <2>1
<1>8. /\ Draws(t, EraseLine(t, 0)) /\ Sound(EraseLine(t, 0))
      /\ Draws(t, EraseLine(t, 1)) /\ Sound(EraseLine(t, 1))
      /\ Draws(t, EraseLine(t, 2)) /\ Sound(EraseLine(t, 2))
  BY <1>2, <1>3, <1>4 DEF EraseLine
<1>9. ASSUME NEW n PROVE Draws(t, DeleteChars(t, n)) /\ Sound(DeleteChars(t, n))
  <2>1. PICK row : /\ row = [r \in {t.row} |-> [c \in 1 .. t.cols |->
                               IF c > t.cols - n THEN "blank"
                               ELSE IF c >= t.col THEN Grid(t).cells[r][c + n]
                               ELSE Grid(t).cells[r][c]]]
                   /\ DeleteChars(t, n) = SetRows(t, row)
    BY DEF DeleteChars
  <2> QED
    BY <1>4, <2>1, DrawnInPlace
<1>10. \A mode \in 0 .. 2 : mode = 0 \/ mode = 1 \/ mode = 2
  OBVIOUS
<1> QED
  BY <1>5, <1>6, <1>7, <1>8, <1>9, <1>10

(* What a control sequence can make of a terminal: the cursor is brought back,
   unless the task has panicked. *)
LEMMA ControlDraws ==
    ASSUME NEW t, Sound(t), ~t.panicked, NEW counts \in SUBSET (Nat \ {0}), NEW v \in Csi(t, counts)
    PROVE  Draws(t, v) /\ Sound(v)
<1>1. /\ Loose(t) /\ t.rows \in Nat \ {0} /\ t.row \in 1 .. t.rows /\ t.top \in Nat \ {0} /\ t.bottom \in 1 .. t.rows
      /\ t.panicked = FALSE /\ Draws(t, t) /\ DOMAIN t = TerminalFields
  BY MarksNothing DEF Sound, Loose, Draws
<1> DEFINE moves == UNION {CursorMoves(t, n) \cup LineMoves(t, n) : n \in counts}
           places == {MoveTo(t, a, b) : a, b \in counts}
           displays == {EraseDisplay(t, mode) : mode \in 0 .. 2}
           lines == {EraseLine(t, mode) : mode \in 0 .. 2}
           regions == {SetScrollRegion(t, a, b) : a, b \in counts}
           wraps == {[t EXCEPT !.autowrap = on] : on \in BOOLEAN}
           switches == {SwitchAltScreen(t, on, save) : on, save \in BOOLEAN}
           sequences == moves \cup places \cup displays \cup lines \cup regions \cup wraps \cup switches
<1>12. PICK w \in sequences : v = IF w.panicked THEN w ELSE ClampCursor(w)
  BY DEF Csi
<1>13. /\ w \in moves => \E n \in counts : w \in CursorMoves(t, n) \cup LineMoves(t, n)
       /\ w \in places => \E a, b \in counts : w = MoveTo(t, a, b)
       /\ w \in displays \cup lines => \E mode \in 0 .. 2 : w = EraseDisplay(t, mode) \/ w = EraseLine(t, mode)
       /\ w \in regions => \E a, b \in counts : w = SetScrollRegion(t, a, b)
       /\ w \in wraps => \E on \in BOOLEAN : w = [t EXCEPT !.autowrap = on]
       /\ w \in switches => \E on, save \in BOOLEAN : w = SwitchAltScreen(t, on, save)
  OBVIOUS
<1>14. \/ w \in moves \/ w \in places \/ w \in displays \cup lines
       \/ w \in regions \/ w \in wraps \/ w \in switches
  <2> HIDE DEF moves, places, displays, lines, regions, wraps, switches
  <2> QED
    OBVIOUS
<1> HIDE DEF moves, places, displays, lines, regions, wraps, switches, sequences
<1>2. PICK u : /\ v = IF u.panicked THEN u ELSE ClampCursor(u)
               /\ \/ \E n \in counts : u \in CursorMoves(t, n) \cup LineMoves(t, n)
                  \/ \E a, b \in counts : u = MoveTo(t, a, b)
                  \/ \E mode \in 0 .. 2 : u = EraseDisplay(t, mode) \/ u = EraseLine(t, mode)
                  \/ \E a, b \in counts : u = SetScrollRegion(t, a, b)
                  \/ \E on \in BOOLEAN : u = [t EXCEPT !.autowrap = on]
                  \/ \E on, save \in BOOLEAN : u = SwitchAltScreen(t, on, save)
  BY <1>12, <1>13, <1>14
<1>3. ASSUME Draws(t, u), Sound(u) PROVE Draws(t, v) /\ Sound(v)
  <2>1. Draws(u, ClampCursor(u)) /\ Sound(ClampCursor(u))
    BY <1>3, Clamped DEF Sound
  <2> QED
    BY <1>2, <1>3, <2>1, DrawnTwice
<1>4. ASSUME NEW row \in Nat \ {0}, NEW col, u = MoveTo(t, row, col) PROVE Draws(t, v) /\ Sound(v)
  <2>1. Draws(t, u) /\ u.panicked = FALSE
    BY <1>1, <1>4, CursorMoved DEF TerminalFields
  <2>2. Draws(u, ClampCursor(u)) /\ Sound(ClampCursor(u))
    BY <2>1, Clamped DEF Draws
  <2> QED
    BY <1>2, <2>1, <2>2, DrawnTwice
<1>5. ASSUME NEW n \in counts, u \in CursorMoves(t, n) PROVE Draws(t, v) /\ Sound(v)
  <2>1. n \in Nat \ {0} /\ t.row \in Nat \ {0}
    BY <1>1
  <2>2. Larger(t.row - n, 1) \in Nat \ {0} /\ t.row + n \in Nat \ {0}
    BY <2>1 DEF Larger
  <2>3. \E row \in Nat \ {0} : \E col : u = MoveTo(t, row, col)
    BY <1>5, <2>1, <2>2 DEF CursorMoves
  <2> QED
    BY <1>4, <2>3
<1>6. ASSUME NEW n \in counts, u \in LineMoves(t, n) PROVE Draws(t, v) /\ Sound(v)
  <2>1. t.row \in Nat \ {0}
    BY <1>1
  <2>2. \/ u = ScrollDown(t, t.row, t.bottom, n) \/ u = ScrollUp(t, t.row, t.bottom, n) \/ u = DeleteChars(t, n)
        \/ u = ScrollUp(t, t.top, t.bottom, n) \/ u = ScrollDown(t, t.top, t.bottom, n)
        \/ u = ClearRowRange(t, t.row, t.col, t.col + n - 1)
    BY <1>6 DEF LineMoves
  <2>3. Draws(t, u) /\ Sound(u)
    BY <1>1, <2>1, <2>2, Scrolled, Erased, DrawnInPlace
  <2> QED
    BY <1>3, <2>3
<1>7. ASSUME NEW mode \in 0 .. 2, u = EraseDisplay(t, mode) \/ u = EraseLine(t, mode) PROVE Draws(t, v) /\ Sound(v)
  BY <1>3, <1>7, Erased
<1>8. ASSUME NEW a \in counts, NEW b \in counts, u = SetScrollRegion(t, a, b) PROVE Draws(t, v) /\ Sound(v)
  <2>1. \E top \in Nat \ {0}, bottom \in 1 .. t.rows : u = [t EXCEPT !.top = top, !.bottom = bottom]
    <3>1. a \in Nat \ {0} /\ b \in Nat \ {0} /\ Smaller(b, t.rows) \in 1 .. t.rows
      BY <1>1 DEF Smaller
    <3>2. u = [t EXCEPT !.top = 1, !.bottom = t.rows] \/ u = [t EXCEPT !.top = a, !.bottom = Smaller(b, t.rows)]
      BY <1>8 DEF SetScrollRegion
    <3>3. 1 \in Nat \ {0} /\ t.rows \in 1 .. t.rows
      BY <1>1
    <3> QED
      BY <3>1, <3>2, <3>3
  <2>2. Sound(u) /\ u.cols = t.cols /\ u.rows = t.rows /\ Grid(u) = Grid(t)
    BY <1>1, <2>1 DEF Sound, Loose, TerminalFields, Grid
  <2> QED
    BY <1>3, <2>2, MarksNothing DEF Draws, Sound
<1>9. ASSUME NEW on \in BOOLEAN, u = [t EXCEPT !.autowrap = on] PROVE Draws(t, v) /\ Sound(v)
  <2>1. Sound(u) /\ u.cols = t.cols /\ u.rows = t.rows /\ Grid(u) = Grid(t)
    BY <1>1, <1>9 DEF Sound, Loose, TerminalFields, Grid
  <2> QED
    BY <1>3, <2>1, MarksNothing DEF Draws, Sound
<1>10. ASSUME NEW on \in BOOLEAN, NEW save \in BOOLEAN, u = SwitchAltScreen(t, on, save) PROVE Draws(t, v) /\ Sound(v)
  BY <1>3, <1>10, ScreensSwitched
<1>11. ASSUME NEW a \in counts, NEW b \in counts, u = MoveTo(t, a, b) PROVE Draws(t, v) /\ Sound(v)
  BY <1>4, <1>11
<1> QED
  BY <1>2, <1>5, <1>6, <1>7, <1>8, <1>9, <1>10, <1>11

(* What any piece of output can make of a terminal.                               *)
LEMMA OutputDraws ==
    ASSUME NEW t, Sound(t), ~t.panicked, NEW counts \in SUBSET (Nat \ {0}), NEW v \in Written(t, counts)
    PROVE  Draws(t, v) /\ Sound(v)
<1>1. /\ Loose(t) /\ t.rows \in Nat \ {0} /\ t.row \in 1 .. t.rows /\ t.saved[1] \in Nat \ {0}
      /\ DOMAIN t = TerminalFields
  BY DEF Sound, Loose
<1>2. \/ \E width \in {1, 2} : v = PutChar(t, width)
      \/ v = Combine(t)
      \/ v \in Execute(t) \/ v \in Csi(t, counts) \/ v \in Esc(t)
  BY DEF Written
<1>3. ASSUME NEW width \in {1, 2}, v = PutChar(t, width) PROVE Draws(t, v) /\ Sound(v)
  BY <1>3, CharsPut
<1>4. CASE v = Combine(t)
  BY <1>4, CharsPut
<1>5. CASE v \in Execute(t)
  <2>1. v = LineFeed(t) \/ v = CarriageReturn(t) \/ \E col : v = MoveTo(t, t.row, col)
    BY <1>5 DEF Execute
  <2> QED
    BY <1>1, <2>1, LinesFed, MovedInside
<1>6. CASE v \in Csi(t, counts)
  BY <1>6, ControlDraws
<1>7. CASE v \in Esc(t)
  <2>1. \/ v = LineFeed(t) \/ v = LineFeed(CarriageReturn(t)) \/ v = ReverseIndex(t)
        \/ v = [t EXCEPT !.saved = <<t.row, t.col>>]
        \/ v = ClampCursor(MoveTo(t, t.saved[1], t.saved[2])) \/ v = NewTerminal(t.cols, t.rows)
    BY <1>7 DEF Esc
  <2>2. CASE v = LineFeed(CarriageReturn(t))
    BY <2>2, LinesFed, DrawnTwice
  <2>3. CASE v = [t EXCEPT !.saved = <<t.row, t.col>>]
    <3>1. Sound(v) /\ v.cols = t.cols /\ v.rows = t.rows /\ Grid(v) = Grid(t)
      BY <1>1, <2>3 DEF Sound, Loose, TerminalFields, Grid
    <3> QED
      BY <3>1, MarksNothing DEF Draws, Sound
  <2>4. CASE v = ClampCursor(MoveTo(t, t.saved[1], t.saved[2]))
    <3>1. Draws(t, MoveTo(t, t.saved[1], t.saved[2]))
      BY <1>1, CursorMoved
    <3> QED
      BY <2>4, <3>1, Clamped, DrawnTwice DEF Draws
  <2> QED
    BY <2>1, <2>2, <2>3, <2>4, LinesFed, ScreensSwitched
<1> QED
  BY <1>2, <1>3, <1>4, <1>5, <1>6, <1>7

\* The rows the renderer keeps, against the screen.
Cached(rows, t) ==
    \A r \in 1 .. Smaller(Len(rows), t.rows) :
        r \in Grid(t).dirty \/ rows[r] \in {NoRuns, BuildRowRuns(Grid(t).cells[r])}

RendererFields == {"on", "surface", "config", "pending", "rows", "formatFits"}
Renders(r, t) == DOMAIN r = RendererFields /\ r.on = TRUE /\ Len(r.rows) \in Nat /\ Cached(r.rows, t)
RendererOK(r, t) == r = NoRenderer \/ Renders(r, t)

TerminalInv ==
    /\ Sound(terminal) /\ terminal.panicked = FALSE /\ RendererOK(renderer, terminal)
    /\ pendingSize \in Pixels \cup {None}
    /\ DOMAIN opening = Surfaces
    /\ \A s \in Surfaces : opening[s] \in {"ready", "opened"} => renderer # NoRenderer

(* The rows kept stay current if what is drawn is marked.                         *)
LEMMA CachedStays ==
    ASSUME NEW t, Loose(t), NEW u, Marks(t, u), NEW rows, Len(rows) \in Nat, Cached(rows, t)
    PROVE  Cached(rows, u)
<1>1. t.rows \in Nat /\ u.rows = t.rows
  BY DEF Loose, Marks
<1>2. \A r \in 1 .. Smaller(Len(rows), t.rows) : r \in 1 .. t.rows
  BY <1>1 DEF Smaller
<1> QED
  BY <1>1, <1>2 DEF Cached, Marks

LEMMA RendererStays ==
    ASSUME NEW t, Loose(t), NEW u, Marks(t, u), NEW r, RendererOK(r, t)
    PROVE  RendererOK(r, u)
BY CachedStays DEF RendererOK, Renders

Orders == INSTANCE WellFoundedInduction

(* A set of numbers up to n, if not empty, has a greatest one.                    *)
LEMMA GreatestIn ==
    ASSUME NEW n \in Nat, NEW S \in SUBSET (1 .. n), S # {}
    PROVE  Max(S) \in S
<1> DEFINE T == {n - x : x \in S}
           R == Orders!OpToRel(<, Nat)
<1>1. T \subseteq Nat /\ T # {}
  <2>1. \A x \in S : x \in 1 .. n /\ n - x \in Nat
    OBVIOUS
  <2>2. PICK x \in S : TRUE
    OBVIOUS
  <2>3. n - x \in T
    OBVIOUS
  <2> QED
    BY <2>1, <2>3
<1>2. Orders!IsWellFoundedOn(R, Nat)
  BY Orders!NatLessThanWellFounded
<1>3. PICK y \in T : \A z \in T : ~(z < y)
  <2> HIDE DEF T, R
  <2>1. PICK y \in T : \A z \in T : ~(<<z, y>> \in R)
    BY <1>1, <1>2, Orders!WFMin
  <2> QED
    BY <1>1, <2>1 DEF R, Orders!OpToRel
<1>4. PICK x \in S : y = n - x
  OBVIOUS
<1>5. \A z \in S : x >= z
  <2> SUFFICES ASSUME NEW z \in S PROVE x >= z
    OBVIOUS
  <2>1. ~(n - z < n - x)
    BY <1>3, <1>4
  <2>2. z \in Nat /\ x \in Nat
    OBVIOUS
  <2> QED
    BY <2>1, <2>2
<1> QED
  BY <1>5 DEF Max

(* A drawing brings the rows kept up to date and marks nothing as damaged any more.  *)
LEMMA RowsDrawn ==
    ASSUME NEW t, Sound(t), NEW rows, Len(rows) \in Nat, Cached(rows, t)
    PROVE  LET u == ClearRowDirty(t, Grid(t).dirty) IN
           /\ Sound(u) /\ SameCursor(t, u)
           /\ Len(CachedRows(rows, t)) \in Nat /\ Len(CachedRows(rows, t)) <= t.rows
           /\ Cached(CachedRows(rows, t), u)
<1> DEFINE u == ClearRowDirty(t, Grid(t).dirty)
           d == Grid(t).dirty
           n == IF d = {} THEN Smaller(Len(rows), t.rows) ELSE Smaller(Larger(Len(rows), Max(d)), t.rows)
           row(r) == IF r \in d THEN BuildRowRuns(Grid(t).cells[r]) ELSE IF r <= Len(rows) THEN rows[r] ELSE NoRuns
           f == CachedRows(rows, t)
<1>1. Loose(t) /\ SoundGrid(Grid(t), t.rows) /\ t.rows \in Nat /\ t.row <= t.rows
  BY DEF Sound, Loose, Grid
<1>2. /\ Sound(u) /\ SameCursor(t, u) /\ Grid(u).cells = Grid(t).cells /\ u.rows = t.rows
  <2> DEFINE g == [Grid(t) EXCEPT !.dirty = @ \ d]
  <2>1. SoundGrid(g, t.rows) /\ g.cells = Grid(t).cells
    BY <1>1 DEF SoundGrid
  <2>2. u = WithGrid(t, g)
    BY DEF ClearRowDirty
  <2> HIDE DEF g, u
  <2>3. Loose(u) /\ SameCursor(t, u) /\ Grid(u) = g
    BY <1>1, <2>1, <2>2, GridReplaced
  <2> QED
    BY <1>1, <2>1, <2>3 DEF Sound, SameCursor, TerminalFields, ScreenFields
<1>3. n \in Nat /\ n <= t.rows /\ (d = {} => n <= Len(rows))
  <2>1. d # {} => Max(d) \in Nat
    <3>1. d \subseteq 1 .. t.rows
      BY <1>1 DEF SoundGrid
    <3>2. d # {} => Max(d) \in d
      BY <1>1, <3>1, GreatestIn
    <3> QED
      BY <3>1, <3>2
  <2> HIDE DEF d
  <2> QED
    BY <1>1, <2>1 DEF Smaller, Larger
<1>4. f = [r \in 1 .. n |-> row(r)]
  BY DEF CachedRows
<1> HIDE DEF n, f, u, d
<1>5. Len(f) = n
  <2>1. f \in [1 .. n -> {row(r) : r \in 1 .. n}]
    BY <1>4
  <2> HIDE DEF row
  <2> QED
    BY <1>3, <2>1, RowsAreSeq
<1>6. ASSUME NEW r \in 1 .. n PROVE f[r] \in {NoRuns, BuildRowRuns(Grid(t).cells[r])}
  <2>1. f[r] = row(r)
    BY <1>4
  <2>2. CASE r \in d
    BY <2>1, <2>2
  <2>3. CASE r \notin d /\ r <= Len(rows)
    <3>1. r \in 1 .. Smaller(Len(rows), t.rows)
      BY <1>1, <1>3, <2>3 DEF Smaller
    <3> QED
      BY <2>1, <2>3, <3>1 DEF Cached, d
  <2>4. CASE r \notin d /\ ~(r <= Len(rows))
    BY <2>1, <2>4
  <2> QED
    BY <2>2, <2>3, <2>4
<1>7. Cached(f, u)
  <2>1. Smaller(Len(f), u.rows) = n
    BY <1>1, <1>2, <1>3, <1>5 DEF Smaller
  <2> QED
    BY <1>2, <1>6, <2>1 DEF Cached
<1> QED
  BY <1>2, <1>3, <1>5, <1>7 DEF f, u

(* The same, for what Draw does.                                                  *)
LEMMA Drawn ==
    ASSUME NEW r, NEW t, Sound(t), t.panicked = FALSE, RendererOK(r, t), Draw(r, t)
    PROVE  /\ Sound(terminal') /\ terminal'.panicked = FALSE /\ RendererOK(renderer', terminal')
           /\ terminal'.cols = t.cols /\ terminal'.rows = t.rows
           /\ (renderer' = NoRenderer <=> r = NoRenderer)
           /\ Renders(r, t) => /\ Renders(renderer', terminal') /\ renderer'.surface = r.surface
                               /\ renderer'.config = r.config /\ renderer'.pending = r.pending
                               /\ Len(renderer'.rows) <= t.rows
<1>1. CASE r = NoRenderer
  <2>1. renderer' = r /\ terminal' = t
    BY <1>1 DEF Draw, NoRenderer
  <2>2. ~Renders(r, t)
    BY <1>1 DEF Renders, NoRenderer
  <2> QED
    BY <1>1, <2>1, <2>2
<1>2. CASE Renders(r, t)
  <2>1. PICK u : u = ClearRowDirty(t, Grid(t).dirty)
    OBVIOUS
  <2>2. PICK rows : rows = CachedRows(r.rows, t)
    OBVIOUS
  <2>3. renderer' = [r EXCEPT !.rows = rows] /\ terminal' = u
    BY <1>2, <2>1, <2>2 DEF Draw, Renders
  <2>4. Sound(u) /\ SameCursor(t, u) /\ Len(rows) \in Nat /\ Cached(rows, u) /\ Len(rows) <= t.rows
    BY <1>2, <2>1, <2>2, RowsDrawn DEF Renders
  <2>5. u.panicked = FALSE /\ u.cols = t.cols /\ u.rows = t.rows
    BY <2>4 DEF SameCursor, TerminalFields, ScreenFields
  <2>6. /\ Renders(renderer', terminal') /\ renderer'.surface = r.surface
        /\ renderer'.config = r.config /\ renderer'.pending = r.pending /\ Len(renderer'.rows) <= t.rows
    BY <1>2, <2>3, <2>4 DEF Renders, RendererFields
  <2>7. renderer' # NoRenderer /\ r # NoRenderer
    BY <1>2, <2>6 DEF Renders, NoRenderer
  <2> QED
    BY <2>3, <2>4, <2>5, <2>6, <2>7 DEF RendererOK
<1> QED
  BY <1>1, <1>2 DEF RendererOK

(* A grid of another size is damaged all over.                                    *)
LEMMA GridResized ==
    ASSUME NEW n \in Nat, NEW g, SoundGrid(g, n), NEW cols, NEW rows \in Nat
    PROVE  /\ SoundGrid(ResizeGrid(g, cols, rows), rows)
           /\ (rows = n /\ ResizeGrid(g, cols, rows) = g) \/ ResizeGrid(g, cols, rows).dirty = 1 .. rows
<1>1. Len(g.cells) = n
  <2>1. PICK c : c = g.cells /\ DOMAIN c = 1 .. n
    BY DEF SoundGrid
  <2>2. \E S : g.cells \in [1 .. n -> S]
    <3> SUFFICES g.cells \in [1 .. n -> {g.cells[r] : r \in 1 .. n}]
      OBVIOUS
    <3> QED
      BY DEF SoundGrid
  <2> QED
    BY <2>2, RowsAreSeq
<1>2. CASE Len(g.cells) = rows /\ Len(g.cells[1]) = cols
  BY <1>1, <1>2 DEF ResizeGrid
<1>3. CASE ~(Len(g.cells) = rows /\ Len(g.cells[1]) = cols)
  BY <1>3 DEF ResizeGrid, NewGrid, SoundGrid
<1> QED
  BY <1>2, <1>3

(* A terminal that takes the size of a surface: every grid is as it was or is      *)
(* damaged all over, so the rows kept stay current.                                *)
LEMMA TerminalResized ==
    ASSUME NEW t, Sound(t), NEW px \in Pixels, NEW u, u = Resize(t, CellsForSize(px)[1], CellsForSize(px)[2])
    PROVE  /\ Sound(u) /\ u.panicked = t.panicked /\ <<u.cols, u.rows>> = CellsForSize(px)
           /\ \A r : RendererOK(r, t) => RendererOK(r, u)
<1>1. PICK cols, rows : cols = CellsForSize(px)[1] /\ rows = CellsForSize(px)[2]
  OBVIOUS
<1>2. cols \in Nat \ {0} /\ rows \in Nat \ {0} /\ CellsForSize(px) = <<cols, rows>>
  <2>1. px[1] \in Nat \ {0} /\ px[2] \in Nat \ {0} /\ CellSize \in Nat \ {0}
    BY TerminalSurfaceAssumption DEF Pixels
  <2>2. px[1] \div CellSize \in Nat /\ px[2] \div CellSize \in Nat
    BY <2>1
  <2>3. Larger(px[1] \div CellSize, 1) \in Nat \ {0} /\ Larger(px[2] \div CellSize, 1) \in Nat \ {0}
    BY <2>2 DEF Larger
  <2> QED
    BY <1>1, <2>3 DEF CellsForSize
<1>3. /\ Loose(t) /\ t.rows \in Nat \ {0} /\ t.row \in Nat \ {0} /\ DOMAIN t = TerminalFields
      /\ SoundGrid(t.primary, t.rows) /\ SoundGrid(t.alt, t.rows)
  BY DEF Sound, Loose
<1>4. PICK p, a : p = ResizeGrid(t.primary, cols, rows) /\ a = ResizeGrid(t.alt, cols, rows)
  OBVIOUS
<1>5. /\ SoundGrid(p, rows) /\ SoundGrid(a, rows)
      /\ (rows = t.rows /\ p = t.primary) \/ p.dirty = 1 .. rows
      /\ (rows = t.rows /\ a = t.alt) \/ a.dirty = 1 .. rows
  BY <1>2, <1>3, <1>4, GridResized
<1>6. PICK row, col : row = Smaller(t.row, rows) /\ col = Smaller(t.col, cols)
  OBVIOUS
<1>7. row \in 1 .. rows
  BY <1>2, <1>3, <1>6 DEF Smaller
<1>8. u = [t EXCEPT !.cols = cols, !.rows = rows, !.top = 1, !.bottom = rows, !.row = row, !.col = col,
                    !.primary = p, !.alt = a]
  BY <1>1, <1>3, <1>4, <1>6 DEF Resize, ClampCursor, MoveTo, TerminalFields
<1>9. /\ DOMAIN u = TerminalFields /\ u.cols = cols /\ u.rows = rows /\ u.row = row /\ u.top = 1 /\ u.bottom = rows
      /\ u.primary = p /\ u.alt = a /\ u.saved = t.saved /\ u.onAlt = t.onAlt /\ u.panicked = t.panicked
  BY <1>3, <1>8 DEF TerminalFields
<1>10. Sound(u)
  BY <1>2, <1>3, <1>5, <1>7, <1>9 DEF Sound, Loose
<1>11. (u.rows = t.rows /\ Grid(u) = Grid(t)) \/ Grid(u).dirty = 1 .. u.rows
  BY <1>5, <1>9 DEF Grid
<1>12. ASSUME NEW r, RendererOK(r, t) PROVE RendererOK(r, u)
  <2>1. CASE u.rows = t.rows /\ Grid(u) = Grid(t)
    BY <1>12, <2>1 DEF RendererOK, Renders, Cached
  <2>2. CASE Grid(u).dirty = 1 .. u.rows
    <3>1. ASSUME NEW n \in Nat, NEW x \in 1 .. Smaller(n, u.rows) PROVE x \in Grid(u).dirty
      BY <1>2, <1>9, <2>2 DEF Smaller
    <3> QED
      BY <1>12, <3>1 DEF RendererOK, Renders, Cached
  <2> QED
    BY <1>11, <2>1, <2>2
<1> QED
  BY <1>2, <1>9, <1>10, <1>12

(* A renderer that takes a size keeps its rows or drops them all.                 *)
LEMMA RendererResized ==
    ASSUME NEW t, Sound(t), NEW r, Renders(r, t), NEW px, NEW v, v = ResizeRenderer(r, px)
    PROVE  /\ Renders(v, t) /\ v.surface = r.surface
           /\ r.surface = None => v.config = r.config /\ v.pending = px
           /\ r.surface # None => v.config = px /\ v.pending = r.pending
<1>1. Cached(<<>>, t) /\ Len(<<>>) = 0
  BY DEF Cached, Smaller, Sound, Loose
<1> QED
  BY <1>1 DEF Renders, ResizeRenderer, RendererFields

(* So does one that gets its surface; a size that was deferred is applied.        *)
LEMMA SurfaceTaken ==
    ASSUME NEW t, Sound(t), NEW r, Renders(r, t), NEW s, s # None, NEW v, v = SetSurfaceOf(r, s)
    PROVE  /\ Renders(v, t) /\ v.surface = s /\ v.pending = None
           /\ r.pending # None => v.config = r.pending
<1>1. PICK rows : rows = IF r.formatFits THEN r.rows ELSE <<>>
  OBVIOUS
<1>2. PICK bare : bare = [r EXCEPT !.surface = s, !.config = <<1, 1>>, !.formatFits = TRUE, !.pending = None,
                                   !.rows = rows]
  OBVIOUS
<1>3. Cached(<<>>, t) /\ Len(<<>>) = 0
  BY DEF Cached, Smaller, Sound, Loose
<1>4. Len(rows) \in Nat /\ Cached(rows, t)
  BY <1>1, <1>3 DEF Renders
<1>5. Renders(bare, t) /\ bare.surface = s /\ bare.pending = None
  BY <1>2, <1>4 DEF Renders, RendererFields
<1>6. v = IF r.pending = None THEN bare ELSE ResizeRenderer(bare, r.pending)
  BY <1>1, <1>2 DEF SetSurfaceOf
<1>7. PICK w : w = ResizeRenderer(bare, r.pending)
  OBVIOUS
<1>8. Renders(w, t) /\ w.surface = s /\ w.config = r.pending /\ w.pending = None
  BY <1>5, <1>7, RendererResized
<1> QED
  BY <1>5, <1>6, <1>7, <1>8

(* A new terminal is damaged all over.                                            *)
LEMMA NewTerminalSound == Sound(NewTerminal(2, 2)) /\ NewTerminal(2, 2).panicked = FALSE
<1>1. PICK g : g = NewGrid(2, 2)
  OBVIOUS
<1>2. SoundGrid(g, 2)
  BY <1>1 DEF NewGrid, SoundGrid
<1>3. PICK t : t = [cols |-> 2, rows |-> 2, primary |-> g, alt |-> g, onAlt |-> FALSE, col |-> 1, row |-> 1,
                    saved |-> <<1, 1>>, top |-> 1, bottom |-> 2, autowrap |-> TRUE, panicked |-> FALSE]
  OBVIOUS
<1>4. Loose(t)
  BY <1>2, <1>3 DEF Loose, TerminalFields
<1>5. t.row <= t.rows /\ t.panicked = FALSE
  BY <1>3
<1>6. NewTerminal(2, 2) = t
  BY <1>1, <1>3 DEF NewTerminal
<1> QED
  BY <1>4, <1>5, <1>6 DEF Sound

(* The rows kept are current in every state.                                      *)
LEMMA TerminalInvInit == TerminalInit => TerminalInv
BY NewTerminalSound DEF TerminalInit, TerminalInv, RendererOK

\* What a step of the renderer does besides changing its rows.
Shown(r, t) == Sound(t) /\ t.panicked = FALSE /\ RendererOK(r, t)

LEMMA RendererIsOn ==
    ASSUME NEW r, NEW t, RendererOK(r, t)
    PROVE  (r.on <=> r # NoRenderer) /\ (r # NoRenderer => Renders(r, t))
BY DEF RendererOK, Renders, NoRenderer

(* Android changes the size of a surface while there is a renderer.               *)
LEMMA SurfaceSized ==
    ASSUME NEW px \in Pixels, Shown(renderer, terminal), renderer # NoRenderer,
           Draw(ResizeRenderer(renderer, px), ResizeTerminal(px))
    PROVE  /\ Shown(renderer', terminal') /\ renderer' # NoRenderer /\ renderer'.surface = renderer.surface
           /\ <<terminal'.cols, terminal'.rows>> = CellsForSize(px)
           /\ renderer.surface = None => renderer'.config = renderer.config /\ renderer'.pending = px
           /\ renderer.surface # None => renderer'.config = px /\ renderer'.pending = renderer.pending
<1>1. PICK u : u = Resize(terminal, CellsForSize(px)[1], CellsForSize(px)[2])
  OBVIOUS
<1>2. Sound(terminal) /\ RendererOK(renderer, terminal) /\ terminal.panicked = FALSE
  BY DEF Shown
<1>3. /\ Sound(u) /\ u.panicked = FALSE /\ <<u.cols, u.rows>> = CellsForSize(px) /\ RendererOK(renderer, u)
  BY <1>1, <1>2, TerminalResized
<1>4. Renders(renderer, u)
  BY <1>3 DEF RendererOK
<1>5. PICK v : v = ResizeRenderer(renderer, px)
  OBVIOUS
<1>6. /\ Renders(v, u) /\ v.surface = renderer.surface
      /\ renderer.surface = None => v.config = renderer.config /\ v.pending = px
      /\ renderer.surface # None => v.config = px /\ v.pending = renderer.pending
  BY <1>3, <1>4, <1>5, RendererResized
<1>7. Draw(v, u)
  BY <1>1, <1>5 DEF ResizeTerminal
<1>8. RendererOK(v, u) /\ v # NoRenderer
  BY <1>6 DEF RendererOK, Renders, NoRenderer
<1>9. /\ Shown(renderer', terminal') /\ renderer' # NoRenderer /\ renderer'.surface = v.surface
      /\ renderer'.config = v.config /\ renderer'.pending = v.pending
      /\ terminal'.cols = u.cols /\ terminal'.rows = u.rows
  BY <1>3, <1>6, <1>7, <1>8, Drawn DEF Shown
<1> QED
  BY <1>3, <1>6, <1>9

(* The task of a surface hands it to the renderer, with the size that waits.      *)
LEMMA SurfaceSet ==
    ASSUME NEW s \in Surfaces, Shown(renderer, terminal), renderer # NoRenderer,
           pendingSize \in Pixels \cup {None}, SetSurface(s)
    PROVE  /\ Shown(renderer', terminal') /\ renderer' # NoRenderer
           /\ renderer'.surface = s /\ renderer'.pending = None
           /\ pendingSize = None => /\ terminal' = terminal
                                    /\ renderer.pending # None => renderer'.config = renderer.pending
           /\ pendingSize # None => /\ renderer'.config = pendingSize
                                    /\ <<terminal'.cols, terminal'.rows>> = CellsForSize(pendingSize)
<1>1. Sound(terminal) /\ terminal.panicked = FALSE /\ Renders(renderer, terminal)
  BY DEF Shown, RendererOK
<1>2. s # None
  BY TerminalSurfaceAssumption DEF Surfaces
<1>3. PICK v : v = SetSurfaceOf(renderer, s)
  OBVIOUS
<1>4. /\ Renders(v, terminal) /\ v.surface = s /\ v.pending = None
      /\ renderer.pending # None => v.config = renderer.pending
  BY <1>1, <1>2, <1>3, SurfaceTaken
<1>5. CASE pendingSize = None
  <2>1. renderer' = v /\ terminal' = terminal
    BY <1>3, <1>5 DEF SetSurface
  <2> QED
    BY <1>1, <1>4, <1>5, <2>1 DEF Shown, RendererOK, Renders, NoRenderer
<1>6. CASE pendingSize # None
  <2>1. renderer' = ResizeRenderer(v, pendingSize) /\ terminal' = ResizeTerminal(pendingSize)
    BY <1>3, <1>6 DEF SetSurface
  <2>2. PICK u : u = Resize(terminal, CellsForSize(pendingSize)[1], CellsForSize(pendingSize)[2])
    OBVIOUS
  <2>3. RendererOK(v, terminal) /\ pendingSize \in Pixels
    BY <1>4, <1>6 DEF RendererOK
  <2>4. Sound(u) /\ u.panicked = FALSE /\ <<u.cols, u.rows>> = CellsForSize(pendingSize) /\ RendererOK(v, u)
    BY <1>1, <2>2, <2>3, TerminalResized
  <2>5. Renders(v, u)
    BY <1>4, <2>4 DEF RendererOK, Renders, NoRenderer
  <2>6. PICK w : w = ResizeRenderer(v, pendingSize)
    OBVIOUS
  <2>7. Renders(w, u) /\ w.surface = s /\ w.config = pendingSize /\ w.pending = None
    BY <1>2, <1>4, <2>4, <2>5, <2>6, RendererResized
  <2>8. renderer' = w /\ terminal' = u
    BY <2>1, <2>2, <2>6 DEF ResizeTerminal
  <2> QED
    BY <1>6, <2>4, <2>7, <2>8 DEF Shown, RendererOK, Renders, NoRenderer
<1> QED
  BY <1>5, <1>6

(* The tunnel's task writes output: the cells it changes are marked, also when the  *)
(* operation panics half way.                                                       *)
LEMMA OutputWritten ==
    ASSUME Shown(renderer, terminal), WriteOutput
    PROVE  /\ Shown(renderer, terminal') /\ terminal'.cols = terminal.cols /\ terminal'.rows = terminal.rows
<1>1. Sound(terminal) /\ ~terminal.panicked /\ RendererOK(renderer, terminal) /\ Loose(terminal)
  BY DEF Shown, Sound
<1>2. PICK v \in Written(terminal, Counts) : terminal' = [v EXCEPT !.panicked = FALSE]
  BY DEF WriteOutput
<1>3. Draws(terminal, v) /\ Sound(v)
  BY <1>1, <1>2, OutputDraws, TerminalSurfaceAssumption
<1>4. Marks(terminal, v)
  BY <1>3 DEF Draws
<1>5. /\ Loose(terminal') /\ terminal'.row = v.row /\ terminal'.rows = v.rows /\ terminal'.cols = v.cols
      /\ terminal'.panicked = FALSE /\ Grid(terminal') = Grid(v)
  BY <1>2, <1>3 DEF Sound, Loose, TerminalFields, Grid
<1>6. Sound(terminal')
  BY <1>3, <1>5 DEF Sound
<1>7. Marks(terminal, terminal')
  BY <1>4, <1>5 DEF Marks
<1> QED
  BY <1>1, <1>5, <1>6, <1>7, RendererStays DEF Shown, Marks

(* A step keeps the rows current.                                                 *)
LEMMA TerminalInvStep == TerminalInv /\ [TerminalNext]_terminalVars => TerminalInv'
<1> SUFFICES ASSUME TerminalInv, [TerminalNext]_terminalVars PROVE TerminalInv'
  OBVIOUS
<1>1. /\ Shown(renderer, terminal) /\ Sound(terminal) /\ terminal.panicked = FALSE
      /\ RendererOK(renderer, terminal) /\ pendingSize \in Pixels \cup {None} /\ DOMAIN opening = Surfaces
      /\ \A s \in Surfaces : opening[s] \in {"ready", "opened"} => renderer # NoRenderer
  BY DEF TerminalInv, Shown
<1>2. (renderer.on <=> renderer # NoRenderer) /\ (renderer # NoRenderer => Renders(renderer, terminal))
  BY <1>1, RendererIsOn
<1>3. ASSUME UNCHANGED <<terminal, renderer, pendingSize, opening>> PROVE TerminalInv'
  BY <1>1, <1>3 DEF TerminalInv
<1>4. CASE SurfaceCreated
  <2>1. PICK s \in Surfaces : opening' = [opening EXCEPT ![s] = "started"]
    BY <1>4 DEF SurfaceCreated
  <2>2. \A o \in Surfaces : opening'[o] \in {"ready", "opened"} => opening[o] \in {"ready", "opened"}
    BY <1>1, <2>1
  <2>3. UNCHANGED <<terminal, renderer, pendingSize>>
    BY <1>4 DEF SurfaceCreated
  <2> QED
    BY <1>1, <2>1, <2>2, <2>3 DEF TerminalInv
<1>5. CASE SurfaceChanged
  <2>1. opening' = opening
    BY <1>5 DEF SurfaceChanged
  <2>2. PICK px \in Pixels :
           IF renderer.on
           THEN pendingSize' = None /\ Draw(ResizeRenderer(renderer, px), ResizeTerminal(px))
           ELSE pendingSize' = px /\ UNCHANGED <<renderer, terminal>>
    BY <1>5 DEF SurfaceChanged
  <2>3. CASE renderer.on
    <3>1. Shown(renderer', terminal') /\ renderer' # NoRenderer
      BY <1>1, <1>2, <2>2, <2>3, SurfaceSized
    <3> QED
      BY <1>1, <2>1, <2>2, <2>3, <3>1 DEF TerminalInv, Shown
  <2>4. CASE ~renderer.on
    BY <1>1, <2>1, <2>2, <2>4 DEF TerminalInv
  <2> QED
    BY <2>3, <2>4
<1>6. CASE SurfaceDestroyed
  <2>1. UNCHANGED <<terminal, pendingSize, opening>>
    BY <1>6 DEF SurfaceDestroyed
  <2>2. renderer' = IF renderer.on THEN [renderer EXCEPT !.surface = None, !.config = None] ELSE renderer
    BY <1>6 DEF SurfaceDestroyed
  <2>3. CASE renderer.on
    <3>1. Renders(renderer', terminal)
      BY <1>2, <2>2, <2>3 DEF Renders, RendererFields
    <3> QED
      BY <1>1, <2>1, <3>1 DEF TerminalInv, RendererOK, Renders, NoRenderer
  <2>4. CASE ~renderer.on
    BY <1>3, <2>1, <2>2, <2>4
  <2> QED
    BY <2>3, <2>4
<1>7. ASSUME NEW s \in Surfaces, NeedsInit(s) PROVE TerminalInv'
  <2>1. /\ UNCHANGED <<terminal, renderer, pendingSize>>
        /\ opening' = [opening EXCEPT ![s] = IF renderer.on THEN "ready" ELSE "waits"]
    BY <1>7 DEF NeedsInit
  <2>2. \A o \in Surfaces : opening'[o] \in {"ready", "opened"} => renderer' # NoRenderer
    BY <1>1, <1>2, <2>1
  <2> QED
    BY <1>1, <2>1, <2>2 DEF TerminalInv
<1>8. ASSUME NEW s \in Surfaces, InitRenderer(s) PROVE TerminalInv'
  <2>1. UNCHANGED <<terminal, pendingSize>>
    BY <1>8 DEF InitRenderer
  <2>2. CASE opening' = [opening EXCEPT ![s] = "done"] /\ UNCHANGED renderer
    <3>1. \A o \in Surfaces : opening'[o] \in {"ready", "opened"} => renderer' # NoRenderer
      BY <1>1, <2>2
    <3> QED
      BY <1>1, <2>1, <2>2, <3>1 DEF TerminalInv
  <2>3. CASE (\E fits \in BOOLEAN : renderer' = Renderer(fits)) /\ opening' = [opening EXCEPT ![s] = "ready"]
    <3>1. Cached(<<>>, terminal) /\ Len(<<>>) = 0
      BY <1>1 DEF Cached, Smaller, Sound, Loose
    <3>2. Renders(renderer', terminal)
      BY <2>3, <3>1 DEF Renderer, Renders, RendererFields
    <3>3. renderer' # NoRenderer
      BY <3>2 DEF Renders, NoRenderer
    <3> QED
      BY <1>1, <2>1, <2>3, <3>2, <3>3 DEF TerminalInv, RendererOK
  <2> QED
    BY <1>8, <2>2, <2>3 DEF InitRenderer
<1>9. ASSUME NEW s \in Surfaces, SetSurface(s) PROVE TerminalInv'
  <2>1. opening[s] = "ready" /\ opening' = [opening EXCEPT ![s] = "opened"] /\ pendingSize' = None
    BY <1>9 DEF SetSurface
  <2>2. Shown(renderer', terminal') /\ renderer' # NoRenderer
    BY <1>1, <1>9, <2>1, SurfaceSet
  <2> QED
    BY <1>1, <2>1, <2>2 DEF TerminalInv, Shown
<1>10. ASSUME NEW s \in Surfaces, Redraw(s) PROVE TerminalInv'
  <2>1. /\ opening[s] = "opened" /\ opening' = [opening EXCEPT ![s] = "done"] /\ UNCHANGED pendingSize
        /\ Draw(renderer, terminal)
    BY <1>10 DEF Redraw
  <2>2. Shown(renderer', terminal') /\ renderer' # NoRenderer
    BY <1>1, <2>1, Drawn DEF Shown
  <2> QED
    BY <1>1, <2>1, <2>2 DEF TerminalInv, Shown
<1>11. CASE WriteOutput
  <2>1. UNCHANGED <<renderer, pendingSize, opening>>
    BY <1>11 DEF WriteOutput, openings
  <2>2. Shown(renderer, terminal')
    BY <1>1, <1>11, OutputWritten
  <2> QED
    BY <1>1, <2>1, <2>2 DEF TerminalInv, Shown
<1>12. CASE RedrawOutput
  <2>1. UNCHANGED <<pendingSize, opening>> /\ Draw(renderer, terminal)
    BY <1>12 DEF RedrawOutput, openings
  <2>2. Shown(renderer', terminal') /\ (renderer' = NoRenderer <=> renderer = NoRenderer)
    BY <1>1, <2>1, Drawn DEF Shown
  <2> QED
    BY <1>1, <2>1, <2>2 DEF TerminalInv, Shown
<1>13. CASE AttachPty \/ PtyEnds \/ SendInput \/ WriteInput
  BY <1>3, <1>13 DEF AttachPty, PtyEnds, SendInput, WriteInput, openings
<1>14. CASE UNCHANGED terminalVars
  BY <1>3, <1>14 DEF terminalVars, openings
<1> QED
  BY <1>4, <1>5, <1>6, <1>7, <1>8, <1>9, <1>10, <1>11, <1>12, <1>13, <1>14 DEF TerminalNext, OpenSurface

(* CachedRowsAreCurrent: a row of the cache that is not marked as damaged shows the  *)
(* cells of the screen, whatever scrolls, resizes, clears or switches the screens,   *)
(* also when surfaces come and go while their tasks still wait.                      *)
THEOREM RowsAreCurrent == TerminalSpec => []CachedRowsAreCurrent
<1>1. TerminalInv => CachedRowsAreCurrent
  BY RendererIsOn DEF TerminalInv, CachedRowsAreCurrent, Renders, Cached
<1> QED
  BY <1>1, TerminalInvInit, TerminalInvStep, PTL DEF TerminalSpec

-------------------------------------------------------------------------------
(* One surface is opened at a time, and none goes while its task opens it: what a   *)
(* task does not know yet is in pendingSize until there is a renderer, in the      *)
(* renderer's deferred size until it has the surface, and in its configuration      *)
(* from then on.                                                                    *)

Waiting(s) == opening[s] \in {"started", "waits", "ready"}
Opened(s) == opening[s] \in {"opened", "done"}
HasRenderer == renderer # NoRenderer
CellsOfSize == <<terminal.cols, terminal.rows>> = CellsForSize(size)

\* The size that Android gave is where the task that opens the surface finds it.
SizeIsKept ==
    IF HasRenderer
    THEN \/ pendingSize = size /\ renderer.pending = None
         \/ pendingSize = None /\ renderer.pending = size /\ CellsOfSize
    ELSE pendingSize = size

SurfaceInv ==
    /\ opening \in [Surfaces -> {"idle", "started", "waits", "ready", "opened", "done"}]
    /\ live \in Surfaces \cup {None}
    /\ \A s \in Surfaces : opening[s] \notin {"idle", "done"} => live = s
    /\ \A s \in Surfaces : opening[s] = "waits" => ~HasRenderer
    /\ live = None => size = None /\ (HasRenderer => renderer.surface = None /\ renderer.pending = None)
    /\ live # None => opening[live] # "idle"
    /\ live # None => (Waiting(live) /\ HasRenderer => renderer.surface = None)
    /\ live # None => (Waiting(live) /\ size # None => SizeIsKept)
    /\ live # None => (Opened(live) /\ HasRenderer => renderer.surface = live /\ renderer.pending = None)
    /\ live # None => (Opened(live) /\ HasRenderer /\ size # None => renderer.config = size /\ CellsOfSize)

LEMMA SurfaceInvInit == TerminalInit => SurfaceInv
BY TerminalSurfaceAssumption DEF TerminalInit, SurfaceInv, HasRenderer, Waiting, Opened

(* A step keeps the size where it is found.                                       *)
LEMMA SurfaceInvStep ==
    ASSUME ~Hasty PROVE TerminalInv /\ SurfaceInv /\ [TerminalNext]_terminalVars => SurfaceInv'
<1> SUFFICES ASSUME TerminalInv, SurfaceInv, [TerminalNext]_terminalVars PROVE SurfaceInv'
  OBVIOUS
<1>1. /\ Shown(renderer, terminal) /\ pendingSize \in Pixels \cup {None}
      /\ Sound(terminal) /\ terminal.panicked = FALSE /\ RendererOK(renderer, terminal)
  BY DEF TerminalInv, Shown
<1>2. (renderer.on <=> HasRenderer) /\ (HasRenderer => Renders(renderer, terminal))
  BY <1>1, RendererIsOn DEF HasRenderer
<1>3. ASSUME UNCHANGED <<renderer, pendingSize, live, size, opening>>, terminal'.cols = terminal.cols,
             terminal'.rows = terminal.rows
      PROVE  SurfaceInv'
  BY <1>3 DEF SurfaceInv, HasRenderer, Waiting, Opened, SizeIsKept, CellsOfSize
<1>4. CASE SurfaceCreated
  <2>1. live = None /\ size = None /\ ~Opens
    BY <1>4 DEF SurfaceCreated, SurfaceInv
  <2>2. PICK s \in Surfaces : live' = s /\ opening' = [opening EXCEPT ![s] = "started"]
    BY <1>4 DEF SurfaceCreated
  <2>3. UNCHANGED <<renderer, size>>
    BY <1>4 DEF SurfaceCreated
  <2> QED
    BY <2>1, <2>2, <2>3, TerminalSurfaceAssumption DEF SurfaceInv, HasRenderer, Waiting, Opened, Opens
<1>5. CASE SurfaceChanged
  <2>1. UNCHANGED <<live, opening>> /\ live # None
    BY <1>5 DEF SurfaceChanged
  <2>2. PICK px \in Pixels :
           /\ size' = px
           /\ IF renderer.on
              THEN pendingSize' = None /\ Draw(ResizeRenderer(renderer, px), ResizeTerminal(px))
              ELSE pendingSize' = px /\ UNCHANGED <<renderer, terminal>>
    BY <1>5 DEF SurfaceChanged
  <2>3. CASE renderer.on
    <3>1. /\ renderer' # NoRenderer /\ renderer'.surface = renderer.surface
          /\ <<terminal'.cols, terminal'.rows>> = CellsForSize(px)
          /\ renderer.surface = None => renderer'.config = renderer.config /\ renderer'.pending = px
          /\ renderer.surface # None => renderer'.config = px /\ renderer'.pending = renderer.pending
      BY <1>1, <1>2, <2>2, <2>3, SurfaceSized DEF HasRenderer
    <3> QED
      BY <1>2, <2>1, <2>2, <2>3, <3>1 DEF SurfaceInv, HasRenderer, Waiting, Opened, SizeIsKept, CellsOfSize
  <2>4. CASE ~renderer.on
    BY <1>2, <2>1, <2>2, <2>4 DEF SurfaceInv, HasRenderer, Waiting, Opened, SizeIsKept, CellsOfSize
  <2> QED
    BY <2>3, <2>4
<1>6. CASE SurfaceDestroyed
  <2>1. live # None /\ ~Opens /\ live' = None /\ size' = None /\ UNCHANGED opening
    BY <1>6 DEF SurfaceDestroyed
  <2>2. renderer' = IF renderer.on THEN [renderer EXCEPT !.surface = None, !.config = None] ELSE renderer
    BY <1>6 DEF SurfaceDestroyed
  <2>3. opening[live] = "done"
    BY <2>1 DEF SurfaceInv, Opens
  <2>4. HasRenderer => renderer'.surface = None /\ renderer'.pending = None
    <3>1. HasRenderer => renderer.pending = None
      BY <2>1, <2>3 DEF SurfaceInv, Opened
    <3> QED
      BY <1>2, <2>2, <3>1 DEF Renders, RendererFields
  <2>5. ~HasRenderer => renderer' = renderer
    BY <1>2, <2>2
  <2> QED
    BY <1>2, <2>1, <2>4, <2>5 DEF SurfaceInv, HasRenderer, Opens
<1>7. ASSUME NEW s \in Surfaces, NeedsInit(s) PROVE SurfaceInv'
  <2>1. /\ UNCHANGED <<terminal, renderer, pendingSize, live, size>> /\ opening[s] = "started"
        /\ opening' = [opening EXCEPT ![s] = IF renderer.on THEN "ready" ELSE "waits"]
    BY <1>7 DEF NeedsInit
  <2>2. live = s
    BY <2>1 DEF SurfaceInv
  <2> QED
    BY <1>2, <2>1, <2>2 DEF SurfaceInv, HasRenderer, Waiting, Opened, SizeIsKept, CellsOfSize
<1>8. ASSUME NEW s \in Surfaces, InitRenderer(s) PROVE SurfaceInv'
  <2>1. UNCHANGED <<terminal, pendingSize, live, size>> /\ opening[s] = "waits"
    BY <1>8 DEF InitRenderer
  <2>2. live = s /\ ~HasRenderer /\ live # None
    BY <2>1, TerminalSurfaceAssumption DEF SurfaceInv, Surfaces
  <2>3. CASE opening' = [opening EXCEPT ![s] = "done"] /\ UNCHANGED renderer
    BY <2>1, <2>2, <2>3 DEF SurfaceInv, HasRenderer, Waiting, Opened, SizeIsKept, CellsOfSize
  <2>4. CASE (\E fits \in BOOLEAN : renderer' = Renderer(fits)) /\ opening' = [opening EXCEPT ![s] = "ready"]
    <3>1. renderer'.surface = None /\ renderer'.pending = None /\ renderer' # NoRenderer
      BY <2>4 DEF Renderer, NoRenderer
    <3>2. size # None => pendingSize = size
      BY <2>1, <2>2 DEF SurfaceInv, Waiting, SizeIsKept
    <3>3. \A o \in Surfaces : opening'[o] # "waits"
      BY <2>1, <2>2, <2>4 DEF SurfaceInv
    <3> QED
      BY <2>1, <2>2, <2>4, <3>1, <3>2, <3>3 DEF SurfaceInv, HasRenderer, Waiting, Opened, SizeIsKept, CellsOfSize
  <2> QED
    BY <1>8, <2>3, <2>4 DEF InitRenderer
<1>9. ASSUME NEW s \in Surfaces, SetSurface(s) PROVE SurfaceInv'
  <2>1. /\ UNCHANGED <<live, size>> /\ opening[s] = "ready" /\ pendingSize' = None
        /\ opening' = [opening EXCEPT ![s] = "opened"]
    BY <1>9 DEF SetSurface
  <2>2. live = s /\ live # None /\ HasRenderer
    BY <2>1, TerminalSurfaceAssumption DEF SurfaceInv, Surfaces, TerminalInv, HasRenderer
  <2>3. /\ renderer' # NoRenderer /\ renderer'.surface = s /\ renderer'.pending = None
        /\ pendingSize = None => /\ terminal' = terminal
                                 /\ renderer.pending # None => renderer'.config = renderer.pending
        /\ pendingSize # None => /\ renderer'.config = pendingSize
                                 /\ <<terminal'.cols, terminal'.rows>> = CellsForSize(pendingSize)
    BY <1>1, <1>9, <2>2, SurfaceSet DEF HasRenderer
  <2>4. size # None => SizeIsKept
    BY <2>1, <2>2 DEF SurfaceInv, Waiting
  <2>5. size # None => renderer'.config = size /\ <<terminal'.cols, terminal'.rows>> = CellsForSize(size)
    BY <2>2, <2>3, <2>4 DEF SizeIsKept, CellsOfSize
  <2>6. \A o \in Surfaces : opening'[o] # "waits"
    BY <2>1, <2>2 DEF SurfaceInv
  <2> QED
    BY <2>1, <2>2, <2>3, <2>5, <2>6 DEF SurfaceInv, HasRenderer, Waiting, Opened, CellsOfSize
<1>10. ASSUME NEW s \in Surfaces, Redraw(s) PROVE SurfaceInv'
  <2>1. /\ opening[s] = "opened" /\ opening' = [opening EXCEPT ![s] = "done"] /\ UNCHANGED <<live, size>>
        /\ Draw(renderer, terminal)
    BY <1>10 DEF Redraw
  <2>2. live = s /\ HasRenderer
    BY <2>1 DEF SurfaceInv, TerminalInv, HasRenderer
  <2>3. /\ renderer' # NoRenderer /\ renderer'.surface = renderer.surface /\ renderer'.config = renderer.config
        /\ renderer'.pending = renderer.pending /\ terminal'.cols = terminal.cols /\ terminal'.rows = terminal.rows
    <3>1. /\ (renderer' = NoRenderer <=> renderer = NoRenderer)
          /\ terminal'.cols = terminal.cols /\ terminal'.rows = terminal.rows
          /\ Renders(renderer, terminal) => /\ renderer'.surface = renderer.surface
                                            /\ renderer'.config = renderer.config
                                            /\ renderer'.pending = renderer.pending
      BY <1>1, <2>1, Drawn
    <3> QED
      BY <1>2, <2>2, <3>1 DEF HasRenderer
  <2> QED
    BY <2>1, <2>2, <2>3 DEF SurfaceInv, HasRenderer, Waiting, Opened, CellsOfSize
<1>11. CASE WriteOutput
  <2>1. UNCHANGED <<renderer, pendingSize, live, size, opening>>
    BY <1>11 DEF WriteOutput, openings
  <2> QED
    BY <1>1, <1>3, <1>11, <2>1, OutputWritten
<1>12. CASE RedrawOutput
  <2>1. UNCHANGED <<pendingSize, live, size, opening>> /\ Draw(renderer, terminal)
    BY <1>12 DEF RedrawOutput, openings
  <2>2. /\ terminal'.cols = terminal.cols /\ terminal'.rows = terminal.rows
        /\ (renderer' = NoRenderer <=> renderer = NoRenderer)
        /\ Renders(renderer, terminal) => /\ renderer'.surface = renderer.surface
                                          /\ renderer'.config = renderer.config
                                          /\ renderer'.pending = renderer.pending
    BY <1>1, <2>1, Drawn
  <2> QED
    BY <1>2, <2>1, <2>2 DEF SurfaceInv, HasRenderer, Waiting, Opened, SizeIsKept, CellsOfSize
<1>13. CASE AttachPty \/ PtyEnds \/ SendInput \/ WriteInput
  BY <1>3, <1>13 DEF AttachPty, PtyEnds, SendInput, WriteInput, openings
<1>14. CASE UNCHANGED terminalVars
  BY <1>3, <1>14 DEF terminalVars, openings
<1> QED
  BY <1>4, <1>5, <1>6, <1>7, <1>8, <1>9, <1>10, <1>11, <1>12, <1>13, <1>14 DEF TerminalNext, OpenSurface

(* SizeReachesSurface: once the task of the surface on the screen is done, the        *)
(* renderer has the size that Android gave last and the terminal the cells that fit,  *)
(* whether the size came before the renderer, before the surface was set or after,    *)
(* as long as no surface goes while its task opens it.                                *)
THEOREM SizeIsTaken == ASSUME ~Hasty PROVE TerminalSpec => []SizeReachesSurface
<1>1. TerminalInv /\ SurfaceInv => SizeReachesSurface
  <2> SUFFICES ASSUME TerminalInv, SurfaceInv, live # None, size # None, renderer.on, ~Opens
               PROVE  /\ renderer.surface = live /\ renderer.config = size
                      /\ <<terminal.cols, terminal.rows>> = CellsForSize(size)
    BY DEF SizeReachesSurface
  <2>1. HasRenderer
    BY RendererIsOn DEF TerminalInv, HasRenderer
  <2>2. opening[live] = "done"
    BY DEF SurfaceInv, Opens
  <2> QED
    BY <2>1, <2>2 DEF SurfaceInv, Opened, CellsOfSize
<1>2. TerminalInv /\ SurfaceInv /\ [TerminalNext]_terminalVars => TerminalInv' /\ SurfaceInv'
  BY TerminalInvStep, SurfaceInvStep
<1>3. TerminalInit => TerminalInv /\ SurfaceInv
  BY TerminalInvInit, SurfaceInvInit
<1> QED
  BY <1>1, <1>2, <1>3, PTL DEF TerminalSpec

(* The types of the screens: rows of the terminal's width, made of cells, whatever  *)
(* an operation copies, clears or shifts, and a cursor at most two columns behind   *)
(* the last one.                                                                    *)
GridFits(g, cols, rows) == \A r \in 1 .. rows : g.cells[r] \in [1 .. cols -> CellKinds]
Fit(t) ==
    /\ t.cols \in Nat \ {0} /\ t.col \in Nat \ {0} /\ t.saved[2] \in Nat \ {0}
    /\ t.top <= t.bottom /\ t.autowrap \in BOOLEAN
    /\ GridFits(t.primary, t.cols, t.rows) /\ GridFits(t.alt, t.cols, t.rows)
Inside(t) == Fit(t) /\ t.col <= t.cols + 2

\* What an operation on the cells keeps.
Keeps(t, u) == Fit(u) /\ (Inside(t) => Inside(u)) /\ SameCursor(t, u)

LEMMA GridHasCells ==
    ASSUME NEW t, Sound(t), Fit(t)
    PROVE  GridFits(Grid(t), t.cols, t.rows) /\ SoundGrid(Grid(t), t.rows)
BY DEF Sound, Loose, Fit, Grid

LEMMA ScreenFits ==
    ASSUME NEW t, Sound(t), Fit(t), NEW g, SoundGrid(g, t.rows), GridFits(g, t.cols, t.rows)
    PROVE  Keeps(t, WithGrid(t, g))
<1>1. Loose(t)
  BY DEF Sound
<1>2. SameCursor(t, WithGrid(t, g))
  BY <1>1, GridReplaced
<1>3. /\ WithGrid(t, g).primary \in {g, t.primary} /\ WithGrid(t, g).alt \in {g, t.alt}
  BY <1>1 DEF WithGrid, Loose, TerminalFields
<1>4. PICK u : u = WithGrid(t, g)
  OBVIOUS
<1>5. /\ u.cols = t.cols /\ u.rows = t.rows /\ u.col = t.col /\ u.saved = t.saved /\ u.top = t.top
      /\ u.bottom = t.bottom /\ u.autowrap = t.autowrap
  BY <1>2, <1>4 DEF SameCursor, TerminalFields, ScreenFields
<1>6. GridFits(u.primary, u.cols, u.rows) /\ GridFits(u.alt, u.cols, u.rows)
  BY <1>3, <1>4, <1>5 DEF Fit
<1> QED
  BY <1>2, <1>4, <1>5, <1>6 DEF Keeps, Fit, Inside

(* Rows that are set keep the screen whole if each is as wide as the screen.      *)
LEMMA RowsFit ==
    ASSUME NEW t, Sound(t), Fit(t), NEW row, DOMAIN row \subseteq 1 .. t.rows,
           \A r \in DOMAIN row : row[r] \in [1 .. t.cols -> CellKinds]
    PROVE  Keeps(t, SetRows(t, row)) /\ Sound(SetRows(t, row))
<1> DEFINE g == [cells |-> [r \in 1 .. t.rows |-> IF r \in DOMAIN row THEN row[r] ELSE Grid(t).cells[r]],
                 dirty |-> Grid(t).dirty \cup DOMAIN row]
<1>1. SoundGrid(Grid(t), t.rows) /\ GridFits(Grid(t), t.cols, t.rows)
  BY GridHasCells
<1>2. SoundGrid(g, t.rows)
  BY <1>1 DEF SoundGrid
<1>3. GridFits(g, t.cols, t.rows)
  BY <1>1 DEF GridFits
<1>4. SetRows(t, row) = WithGrid(t, g)
  BY DEF SetRows
<1> HIDE DEF g
<1> QED
  BY <1>2, <1>3, <1>4, ScreenFits, DrawnInPlace

LEMMA CellFits ==
    ASSUME NEW t, Sound(t), Fit(t), NEW col \in Nat \ {0}, NEW glyph \in CellKinds
    PROVE  Keeps(t, SetCell(t, t.row, col, glyph)) /\ Sound(SetCell(t, t.row, col, glyph))
<1>1. t.row \in 1 .. t.rows /\ t.cols \in Nat \ {0}
  BY DEF Sound, Loose, Fit
<1>2. Sound(SetCell(t, t.row, col, glyph))
  BY DrawnInPlace
<1>3. CASE t.row > t.rows \/ col > t.cols
  <2>1. SetCell(t, t.row, col, glyph) = t
    BY <1>3 DEF SetCell
  <2> QED
    BY <1>2, <2>1 DEF Keeps, SameCursor
<1>4. CASE ~(t.row > t.rows \/ col > t.cols)
  <2> DEFINE g == [Grid(t) EXCEPT !.cells[t.row][col] = glyph, !.dirty = @ \cup {t.row}]
  <2>1. SetCell(t, t.row, col, glyph) = WithGrid(t, g)
    BY <1>4 DEF SetCell
  <2>2. SoundGrid(Grid(t), t.rows) /\ GridFits(Grid(t), t.cols, t.rows)
    BY GridHasCells
  <2>3. /\ DOMAIN g = {"cells", "dirty"} /\ g.cells = [Grid(t).cells EXCEPT ![t.row][col] = glyph]
        /\ g.dirty = Grid(t).dirty \cup {t.row}
    BY <2>2 DEF SoundGrid
  <2> HIDE DEF g
  <2>4. PICK c, k : c = Grid(t).cells /\ k = [c[t.row] EXCEPT ![col] = glyph]
    OBVIOUS
  <2>5. k \in [1 .. t.cols -> CellKinds]
    BY <1>1, <1>4, <2>2, <2>4 DEF GridFits
  <2>6. c = [r \in 1 .. t.rows |-> c[r]] /\ g.cells = [c EXCEPT ![t.row] = k]
    BY <2>2, <2>3, <2>4 DEF SoundGrid
  <2>7. DOMAIN c = 1 .. t.rows
    BY <2>6
  <2>8. SoundGrid(g, t.rows)
    <3>1. g.cells = [r \in 1 .. t.rows |-> g.cells[r]]
      BY <2>6, <2>7
    <3> QED
      BY <1>1, <2>2, <2>3, <3>1 DEF SoundGrid
  <2>9. GridFits(g, t.cols, t.rows)
    BY <2>2, <2>4, <2>5, <2>6, <2>7 DEF GridFits
  <2> QED
    BY <1>2, <2>1, <2>8, <2>9, ScreenFits
<1> QED
  BY <1>3, <1>4

(* A part of a row.                                                               *)
LEMMA RangeFits ==
    ASSUME NEW t, Sound(t), Fit(t), NEW from, NEW to
    PROVE  Keeps(t, ClearRowRange(t, t.row, from, to)) /\ Sound(ClearRowRange(t, t.row, from, to))
<1>1. CASE from > Smaller(to, t.cols)
  <2>1. ClearRowRange(t, t.row, from, to) = t
    BY <1>1 DEF ClearRowRange
  <2> QED
    BY <2>1 DEF Keeps, SameCursor
<1>2. CASE ~(from > Smaller(to, t.cols))
  <2>1. PICK row : /\ row = [r \in {t.row} |-> [c \in 1 .. t.cols |->
                               IF c \in from .. to THEN "blank" ELSE Grid(t).cells[t.row][c]]]
                   /\ ClearRowRange(t, t.row, from, to) = SetRows(t, row)
    BY <1>2 DEF ClearRowRange
  <2>2. t.row \in 1 .. t.rows /\ Grid(t).cells[t.row] \in [1 .. t.cols -> CellKinds]
    BY GridHasCells DEF Sound, Loose, GridFits
  <2>3. [c \in 1 .. t.cols |-> IF c \in from .. to THEN "blank" ELSE Grid(t).cells[t.row][c]]
            \in [1 .. t.cols -> CellKinds]
    BY <2>2 DEF CellKinds
  <2>4. DOMAIN row \subseteq 1 .. t.rows /\ \A r \in DOMAIN row : row[r] \in [1 .. t.cols -> CellKinds]
    BY <2>1, <2>2, <2>3
  <2>5. Keeps(t, SetRows(t, row)) /\ Sound(SetRows(t, row))
    BY <2>4, RowsFit
  <2> QED
    BY <2>1, <2>5
<1> QED
  BY <1>1, <1>2

LEMMA BlankFits == \A cols : BlankRow(cols) \in [1 .. cols -> CellKinds]
BY DEF BlankRow, CellKinds

(* What scrolls comes from within the screen.                                     *)
LEMMA ScrollsFit ==
    ASSUME NEW t, Sound(t), Fit(t), NEW top \in Nat \ {0}, NEW bottom \in 1 .. t.rows, NEW n \in Nat
    PROVE  /\ Fit(ScrollUp(t, top, bottom, n)) /\ (Inside(t) => Inside(ScrollUp(t, top, bottom, n)))
           /\ ScrollUp(t, top, bottom, n).col = t.col
           /\ Keeps(t, ScrollDown(t, top, bottom, n))
<1>1. t.rows \in Nat \ {0} /\ GridFits(Grid(t), t.cols, t.rows)
  BY GridHasCells DEF Sound, Loose
<1>2. Keeps(t, t)
  BY DEF Keeps, SameCursor
<1>3. ASSUME NEW u, Keeps(t, u) PROVE u.col = t.col
  BY <1>3 DEF Keeps, SameCursor, TerminalFields, ScreenFields
<1>4. BlankRow(t.cols) \in [1 .. t.cols -> CellKinds]
  BY BlankFits
<1> DEFINE count == Smaller(n, bottom - top + 1)
<1>5. CASE top >= bottom
  BY <1>2, <1>3, <1>5 DEF ScrollUp, ScrollDown, Keeps
<1>6. CASE ~(top >= bottom)
  <2>1. count \in Nat /\ count <= bottom - top + 1
    BY <1>6 DEF Smaller
  <2> HIDE DEF count
  <2>2. PICK down : /\ down = [r \in top .. bottom |->
                                 IF r - count >= top THEN Grid(t).cells[r - count] ELSE BlankRow(t.cols)]
                    /\ ScrollDown(t, top, bottom, n) = SetRows(t, down)
    BY <1>6 DEF ScrollDown, count
  <2>3. DOMAIN down = top .. bottom /\ top .. bottom \subseteq 1 .. t.rows
    BY <1>1, <2>2
  <2>4. ASSUME NEW r \in top .. bottom PROVE down[r] \in [1 .. t.cols -> CellKinds]
    <3>1. r - count >= top => r - count \in 1 .. t.rows
      BY <1>1, <2>1
    <3> QED
      BY <1>1, <1>4, <2>2, <3>1 DEF GridFits
  <2>5. Keeps(t, ScrollDown(t, top, bottom, n))
    BY <2>2, <2>3, <2>4, RowsFit
  <2>6. CASE top = 1 /\ count = bottom
    <3>1. PICK row : /\ row = [r \in 1 .. t.rows - bottom |-> Grid(t).cells[r + bottom]]
                     /\ ScrollUp(t, top, bottom, n) = [SetRows(t, row) EXCEPT !.panicked = TRUE]
      BY <1>6, <2>6 DEF ScrollUp, count
    <3>2. ASSUME NEW r \in 1 .. t.rows - bottom PROVE r \in 1 .. t.rows /\ r + bottom \in 1 .. t.rows
      BY <1>1
    <3>3. DOMAIN row \subseteq 1 .. t.rows /\ \A r \in DOMAIN row : row[r] \in [1 .. t.cols -> CellKinds]
      BY <1>1, <3>1, <3>2 DEF GridFits
    <3>4. PICK u : u = SetRows(t, row)
      OBVIOUS
    <3>5. Keeps(t, u) /\ Sound(u)
      BY <3>3, <3>4, RowsFit
    <3>6. PICK v : v = [u EXCEPT !.panicked = TRUE]
      OBVIOUS
    <3>7. \A f \in TerminalFields \ {"panicked"} : v[f] = u[f]
      BY <3>5, <3>6 DEF Sound, Loose
    <3>8. /\ v.cols = u.cols /\ v.rows = u.rows /\ v.col = u.col /\ v.saved = u.saved /\ v.top = u.top
          /\ v.bottom = u.bottom /\ v.autowrap = u.autowrap /\ v.primary = u.primary /\ v.alt = u.alt
      BY <3>7 DEF TerminalFields
    <3>9. Fit(v) /\ (Inside(t) => Inside(v)) /\ v.col = t.col
      BY <1>3, <3>5, <3>8 DEF Keeps, Fit, Inside
    <3> QED
      BY <2>5, <3>1, <3>4, <3>6, <3>9
  <2>7. CASE ~(top = 1 /\ count = bottom)
    <3>1. PICK up : /\ up = [r \in top .. bottom |->
                               IF r + count <= bottom THEN Grid(t).cells[r + count] ELSE BlankRow(t.cols)]
                    /\ ScrollUp(t, top, bottom, n) = SetRows(t, up)
      BY <1>6, <2>7 DEF ScrollUp, count
    <3>2. ASSUME NEW r \in top .. bottom PROVE up[r] \in [1 .. t.cols -> CellKinds]
      <4>1. r + count <= bottom => r + count \in 1 .. t.rows
        BY <1>1, <2>1
      <4> QED
        BY <1>1, <1>4, <3>1, <4>1 DEF GridFits
    <3>3. DOMAIN up = top .. bottom
      BY <3>1
    <3>4. Keeps(t, ScrollUp(t, top, bottom, n))
      BY <2>3, <3>1, <3>2, <3>3, RowsFit
    <3> QED
      BY <1>3, <2>5, <3>4 DEF Keeps
  <2> QED
    BY <2>6, <2>7
<1> QED
  BY <1>5, <1>6

(* A move of the cursor, and its way back to the screen.                          *)
LEMMA MoveFits ==
    ASSUME NEW t, Sound(t), Fit(t), NEW row \in Nat \ {0}, NEW col \in Nat \ {0}
    PROVE  LET u == MoveTo(t, row, col) IN
           /\ Fit(u) /\ Loose(u) /\ u.row = row /\ u.col = col
           /\ \A f \in TerminalFields \ {"row", "col"} : u[f] = t[f]
<1>1. Loose(t) /\ DOMAIN t = TerminalFields
  BY DEF Sound, Loose
<1>2. PICK u : u = MoveTo(t, row, col)
  OBVIOUS
<1>3. Loose(u) /\ u.row = row /\ \A f \in TerminalFields \ {"row", "col"} : u[f] = t[f]
  BY <1>1, <1>2, CursorMoved DEF Draws
<1>4. u.col = col
  BY <1>1, <1>2 DEF MoveTo, TerminalFields
<1>5. /\ u.cols = t.cols /\ u.rows = t.rows /\ u.saved = t.saved /\ u.top = t.top
      /\ u.bottom = t.bottom /\ u.autowrap = t.autowrap /\ u.primary = t.primary /\ u.alt = t.alt
  BY <1>3 DEF TerminalFields
<1> QED
  BY <1>2, <1>3, <1>4, <1>5 DEF Fit

LEMMA ClampFits ==
    ASSUME NEW t, Loose(t), Fit(t)
    PROVE  Inside(ClampCursor(t)) /\ Sound(ClampCursor(t))
<1>1. PICK u, row, col : row = Smaller(t.row, t.rows) /\ col = Smaller(t.col, t.cols) /\ u = MoveTo(t, row, col)
  OBVIOUS
<1>2. row \in Nat \ {0} /\ col \in Nat \ {0} /\ col <= t.cols
  BY <1>1 DEF Smaller, Loose, Fit
<1>3. u = ClampCursor(t)
  BY <1>1 DEF ClampCursor
<1>4. /\ u.cols = t.cols /\ u.rows = t.rows /\ u.saved = t.saved /\ u.top = t.top /\ u.col = col
      /\ u.bottom = t.bottom /\ u.autowrap = t.autowrap /\ u.primary = t.primary /\ u.alt = t.alt
  BY <1>1 DEF MoveTo, Loose, TerminalFields
<1>5. Inside(u)
  BY <1>2, <1>4 DEF Inside, Fit
<1> QED
  BY <1>3, <1>5, Clamped

\* What an operation leaves that ends inside the screen.
Stays(u) == Inside(u) /\ Sound(u)

LEMMA ShortMove ==
    ASSUME NEW t, Sound(t), Fit(t), NEW row \in 1 .. t.rows, NEW col \in Nat \ {0}, col <= t.cols + 2
    PROVE  Stays(MoveTo(t, row, col)) /\ MoveTo(t, row, col).col = col /\ MoveTo(t, row, col).cols = t.cols
<1>1. row \in Nat \ {0} /\ row <= t.rows
  BY DEF Sound, Loose
<1>2. PICK u : u = MoveTo(t, row, col)
  OBVIOUS
<1>3. /\ Fit(u) /\ Loose(u) /\ u.row = row /\ u.col = col
      /\ \A f \in TerminalFields \ {"row", "col"} : u[f] = t[f]
  BY <1>1, <1>2, MoveFits
<1>4. u.cols = t.cols /\ u.rows = t.rows
  BY <1>3 DEF TerminalFields
<1> QED
  BY <1>1, <1>2, <1>3, <1>4 DEF Stays, Inside, Sound

LEMMA LinesFit ==
    ASSUME NEW t, Stays(t)
    PROVE  /\ Stays(LineFeed(t)) /\ LineFeed(t).col = t.col /\ LineFeed(t).cols = t.cols
           /\ Stays(ReverseIndex(t))
           /\ Stays(CarriageReturn(t)) /\ CarriageReturn(t).col = 1 /\ CarriageReturn(t).cols = t.cols
<1>1. /\ t.rows \in Nat \ {0} /\ t.row \in 1 .. t.rows /\ t.top \in Nat \ {0} /\ t.bottom \in 1 .. t.rows
      /\ Smaller(t.row + 1, t.rows) \in 1 .. t.rows /\ Larger(t.row - 1, 1) \in 1 .. t.rows
      /\ t.cols \in Nat \ {0} /\ t.col \in Nat \ {0} /\ t.col <= t.cols + 2 /\ 1 \in Nat
      /\ Sound(t) /\ Fit(t) /\ Inside(t)
  BY DEF Stays, Inside, Fit, Sound, Loose, Smaller, Larger
<1>2. Stays(LineFeed(t)) /\ LineFeed(t).col = t.col /\ LineFeed(t).cols = t.cols
  <2>1. CASE t.row = t.bottom
    <3>1. PICK u : u = ScrollUp(t, t.top, t.bottom, 1)
      OBVIOUS
    <3>2. Stays(u) /\ u.col = t.col
      BY <1>1, <3>1, ScrollsFit, Scrolled DEF Stays
    <3>3. Draws(t, u)
      BY <1>1, <3>1, Scrolled
    <3> QED
      BY <2>1, <3>1, <3>2, <3>3 DEF LineFeed, Draws, Marks
  <2>2. CASE t.row # t.bottom
    BY <1>1, <2>2, ShortMove DEF LineFeed
  <2> QED
    BY <2>1, <2>2
<1>3. Stays(ReverseIndex(t))
  <2>1. CASE t.row = t.top
    <3>1. PICK u : u = ScrollDown(t, t.top, t.bottom, 1)
      OBVIOUS
    <3>2. Keeps(t, u) /\ Sound(u)
      BY <1>1, <3>1, ScrollsFit, Scrolled
    <3> QED
      BY <1>1, <2>1, <3>1, <3>2 DEF ReverseIndex, Keeps, Stays
  <2>2. CASE t.row # t.top
    BY <1>1, <2>2, ShortMove DEF ReverseIndex
  <2> QED
    BY <2>1, <2>2
<1>4. Stays(CarriageReturn(t)) /\ CarriageReturn(t).col = 1 /\ CarriageReturn(t).cols = t.cols
  BY <1>1, ShortMove DEF CarriageReturn
<1> QED
  BY <1>2, <1>3, <1>4

(* A character ends one or two columns behind where it starts, and it starts on     *)
(* the screen.                                                                      *)
LEMMA CharsFit ==
    ASSUME NEW t, Stays(t)
    PROVE  (\A width \in {1, 2} : Stays(PutChar(t, width))) /\ Stays(Combine(t))
<1>1. /\ t.row \in 1 .. t.rows /\ t.cols \in Nat \ {0} /\ t.col \in Nat \ {0} /\ t.col <= t.cols + 2
      /\ Sound(t) /\ Fit(t) /\ Inside(t)
  BY DEF Stays, Inside, Fit, Sound, Loose
<1>2. ASSUME NEW u, NEW v, Stays(u), Keeps(u, v), Sound(v)
      PROVE  Stays(v) /\ v.col = u.col /\ v.cols = u.cols /\ v.row = u.row
  BY <1>2 DEF Stays, Keeps, SameCursor, TerminalFields, ScreenFields
<1>3. ASSUME NEW width \in {1, 2} PROVE Stays(PutChar(t, width))
  <2>1. PICK w : w = IF t.col <= t.cols THEN t
                     ELSE IF t.autowrap THEN LineFeed(CarriageReturn(t)) ELSE MoveTo(t, t.row, t.cols)
    OBVIOUS
  <2>2. Stays(w) /\ w.col <= w.cols
    <3>1. Stays(CarriageReturn(t)) /\ CarriageReturn(t).col = 1 /\ CarriageReturn(t).cols = t.cols
      BY LinesFit
    <3>2. PICK r : r = CarriageReturn(t)
      OBVIOUS
    <3>3. Stays(LineFeed(r)) /\ LineFeed(r).col = 1 /\ LineFeed(r).cols = t.cols
      BY <3>1, <3>2, LinesFit
    <3>4. Stays(MoveTo(t, t.row, t.cols)) /\ MoveTo(t, t.row, t.cols).col = t.cols /\ MoveTo(t, t.row, t.cols).cols = t.cols
      BY <1>1, ShortMove
    <3> QED
      BY <1>1, <2>1, <3>2, <3>3, <3>4
  <2>3. /\ w.row \in 1 .. w.rows /\ w.cols \in Nat \ {0} /\ w.col \in Nat \ {0} /\ w.col + 1 \in Nat \ {0}
        /\ Sound(w) /\ Fit(w)
    BY <2>2 DEF Stays, Inside, Fit, Sound, Loose
  <2>4. PICK put : put = SetCell(w, w.row, w.col, IF width = 2 THEN "wide" ELSE "glyph")
    OBVIOUS
  <2>5. Stays(put) /\ put.col = w.col /\ put.cols = w.cols
    <3>1. Keeps(w, put) /\ Sound(put)
      BY <2>3, <2>4, CellFits DEF CellKinds
    <3> QED
      BY <1>2, <2>2, <3>1
  <2>6. PICK whole : whole = IF width = 2 THEN SetCell(put, put.row, put.col + 1, "continuation") ELSE put
    OBVIOUS
  <2>7. Stays(whole) /\ whole.col = w.col /\ whole.cols = w.cols
    <3>1. PICK next : next = SetCell(put, put.row, put.col + 1, "continuation")
      OBVIOUS
    <3>2. "continuation" \in CellKinds /\ put.col + 1 \in Nat \ {0} /\ Sound(put) /\ Fit(put)
      BY <2>3, <2>5 DEF CellKinds, Stays, Inside
    <3>3. Keeps(put, next) /\ Sound(next)
      BY <3>1, <3>2, CellFits
    <3>4. Stays(next) /\ next.col = put.col /\ next.cols = put.cols
      BY <1>2, <2>5, <3>3
    <3> QED
      BY <2>5, <2>6, <3>1, <3>4
  <2>8. /\ whole.row \in 1 .. whole.rows /\ whole.col + width \in Nat \ {0} /\ whole.col + width <= whole.cols + 2
        /\ Sound(whole) /\ Fit(whole)
    BY <2>2, <2>3, <2>7 DEF Stays, Inside, Sound, Loose
  <2>9. PutChar(t, width) = MoveTo(whole, whole.row, whole.col + width)
    BY <2>1, <2>4, <2>6 DEF PutChar
  <2> QED
    BY <2>8, <2>9, ShortMove
<1>4. Stays(Combine(t))
  <2>1. PICK before, col, kind :
           /\ before = Larger(t.col - 1, 1)
           /\ col = IF before <= t.cols /\ Grid(t).cells[t.row][before] = "continuation"
                    THEN Larger(before - 1, 1) ELSE before
           /\ kind = Grid(t).cells[t.row][col]
    OBVIOUS
  <2>2. before \in Nat \ {0} /\ col \in Nat \ {0}
    BY <1>1, <2>1 DEF Larger
  <2>3. CASE col > t.cols
    <3>1. Combine(t) = t
      BY <2>1, <2>3 DEF Combine
    <3> QED
      BY <3>1
  <2>4. CASE ~(col > t.cols)
    <3>1. kind \in CellKinds
      BY <1>1, <2>1, <2>2, <2>4, GridHasCells DEF GridFits
    <3>2. PICK glyph : glyph = CASE kind = "wide" -> "wide marked"
                                 [] kind \in {"glyph", "blank"} -> "marked"
                                 [] OTHER -> kind
      OBVIOUS
    <3>3. Combine(t) = SetCell(t, t.row, col, glyph)
      BY <2>1, <2>4, <3>2 DEF Combine
    <3>4. glyph \in CellKinds
      BY <3>1, <3>2 DEF CellKinds
    <3>5. Keeps(t, Combine(t)) /\ Sound(Combine(t))
      BY <1>1, <2>2, <3>3, <3>4, CellFits
    <3> QED
      BY <1>2, <3>5
  <2> QED
    BY <2>3, <2>4
<1> QED
  BY <1>3, <1>4

LEMMA NewGridFits == \A cols, rows : GridFits(NewGrid(cols, rows), cols, rows)
BY BlankFits DEF GridFits, NewGrid

(* A new screen, and a change of screens.                                         *)
LEMMA ScreensFit ==
    ASSUME NEW t, Stays(t)
    PROVE  /\ Stays(NewTerminal(t.cols, t.rows))
           /\ \A on \in BOOLEAN, save \in BOOLEAN : Stays(SwitchAltScreen(t, on, save))
<1>1. /\ Sound(t) /\ Loose(t) /\ Fit(t) /\ Inside(t) /\ t.rows \in Nat \ {0} /\ t.row \in 1 .. t.rows
      /\ t.saved[1] \in Nat \ {0} /\ t.saved[2] \in Nat \ {0} /\ t.col \in Nat \ {0} /\ t.cols \in Nat \ {0}
      /\ DOMAIN t = TerminalFields
  BY DEF Stays, Inside, Fit, Sound, Loose
<1>2. PICK g : g = NewGrid(t.cols, t.rows)
  OBVIOUS
<1>3. GridFits(g, t.cols, t.rows)
  BY <1>2, NewGridFits
<1>4. Stays(NewTerminal(t.cols, t.rows))
  <2>1. PICK u : u = NewTerminal(t.cols, t.rows)
    OBVIOUS
  <2>2. /\ u.cols = t.cols /\ u.rows = t.rows /\ u.primary = g /\ u.alt = g /\ u.col = 1 /\ u.saved = <<1, 1>>
        /\ u.top = 1 /\ u.bottom = t.rows /\ u.autowrap = TRUE
    BY <1>2, <2>1 DEF NewTerminal
  <2>3. Inside(u)
    <3>1. /\ u.cols \in Nat \ {0} /\ u.col \in Nat \ {0} /\ u.saved[2] \in Nat \ {0} /\ u.col <= u.cols + 2
          /\ u.top <= u.bottom
      BY <1>1, <2>2
    <3>3. u.autowrap \in BOOLEAN
      BY <2>2, Zenon
    <3>2. GridFits(u.primary, u.cols, u.rows) /\ GridFits(u.alt, u.cols, u.rows)
      BY <1>3, <2>2
    <3> QED
      BY <3>1, <3>2, <3>3 DEF Inside, Fit
  <2> QED
    BY <1>1, <2>1, <2>3, ScreensSwitched DEF Stays
<1>5. ASSUME NEW on \in BOOLEAN, NEW save \in BOOLEAN PROVE Stays(SwitchAltScreen(t, on, save))
  <2>1. Sound(SwitchAltScreen(t, on, save))
    BY <1>1, ScreensSwitched
  <2>2. CASE on = t.onAlt
    BY <2>2 DEF SwitchAltScreen
  <2>3. CASE on # t.onAlt /\ on
    <3>1. PICK m : m = MoveTo(t, 1, 1)
      OBVIOUS
    <3>8. m.col = 1 /\ m.cols = t.cols /\ DOMAIN m = TerminalFields /\ m.rows = t.rows /\ m.saved = t.saved
      BY <1>1, <3>1 DEF MoveTo, TerminalFields
    <3>9. Stays(m)
      BY <1>1, <3>1, ShortMove
    <3>2. Stays(m) /\ m.col = 1 /\ m.cols = t.cols /\ DOMAIN m = TerminalFields /\ m.rows = t.rows /\ m.saved = t.saved
      BY <3>8, <3>9
    <3>3. PICK saved : /\ saved = IF save THEN <<t.row, t.col>> ELSE m.saved
                       /\ SwitchAltScreen(t, on, save) = [m EXCEPT !.alt = g, !.onAlt = TRUE, !.saved = saved]
      BY <1>2, <2>3, <3>1 DEF SwitchAltScreen
    <3>4. saved[2] \in Nat \ {0}
      BY <1>1, <3>2, <3>3
    <3>5. PICK u : u = [m EXCEPT !.alt = g, !.onAlt = TRUE, !.saved = saved]
      OBVIOUS
    <3>6. /\ u.cols = m.cols /\ u.rows = m.rows /\ u.primary = m.primary /\ u.alt = g /\ u.col = m.col
          /\ u.saved = saved /\ u.top = m.top /\ u.bottom = m.bottom /\ u.autowrap = m.autowrap
      BY <3>2, <3>5 DEF TerminalFields
    <3>7. Inside(u)
      BY <1>3, <3>2, <3>4, <3>6 DEF Stays, Inside, Fit
    <3> QED
      BY <2>1, <3>3, <3>5, <3>7 DEF Stays
  <2>4. CASE on # t.onAlt /\ ~on
    <3>1. PICK m : m = IF save THEN MoveTo(t, t.saved[1], t.saved[2]) ELSE t
      OBVIOUS
    <3>2. Loose(m) /\ Fit(m)
      BY <1>1, <3>1, MoveFits
    <3>3. PICK u : u = [m EXCEPT !.onAlt = FALSE, !.primary.dirty = 1 .. t.rows]
      OBVIOUS
    <3>4. SwitchAltScreen(t, on, save) = ClampCursor(u)
      BY <2>4, <3>1, <3>3 DEF SwitchAltScreen
    <3>5. m.rows = t.rows
      BY <1>1, <3>1, MoveFits DEF TerminalFields
    <3>6. DOMAIN m = TerminalFields /\ DOMAIN m.primary = {"cells", "dirty"}
      BY <3>2 DEF Loose, SoundGrid
    <3>7. /\ u.cols = m.cols /\ u.rows = m.rows /\ u.primary.cells = m.primary.cells /\ u.alt = m.alt /\ u.col = m.col
          /\ u.saved = m.saved /\ u.top = m.top /\ u.bottom = m.bottom /\ u.autowrap = m.autowrap
      BY <3>3, <3>6 DEF TerminalFields
    <3>8. Fit(u)
      BY <3>2, <3>7 DEF Fit, GridFits
    <3>9. Loose(u)
      BY <3>2, <3>3, <3>5 DEF Loose, TerminalFields, SoundGrid
    <3> QED
      BY <3>4, <3>8, <3>9, ClampFits DEF Stays
  <2> QED
    BY <2>2, <2>3, <2>4
<1> QED
  BY <1>4, <1>5

(* What is erased is blank, and what is deleted moves up within its row.           *)
LEMMA EraseFits ==
    ASSUME NEW t, Stays(t)
    PROVE  /\ \A mode \in 0 .. 2 : Stays(EraseDisplay(t, mode)) /\ Stays(EraseLine(t, mode))
           /\ \A n \in Nat : Stays(DeleteChars(t, n))
           /\ \A from, to : Stays(ClearRowRange(t, t.row, from, to))
<1>1. /\ Sound(t) /\ Fit(t) /\ t.rows \in Nat \ {0} /\ t.row \in 1 .. t.rows /\ t.cols \in Nat \ {0}
      /\ t.col \in Nat \ {0}
  BY DEF Stays, Inside, Fit, Sound, Loose
<1>2. ASSUME NEW u, NEW v, Stays(u), Keeps(u, v), Sound(v)
      PROVE  Stays(v) /\ v.row = u.row /\ v.rows = u.rows /\ v.cols = u.cols
  BY <1>2 DEF Stays, Keeps, SameCursor, TerminalFields, ScreenFields
<1>3. ASSUME NEW u, Stays(u), u.rows = t.rows, NEW rows, rows \subseteq 1 .. t.rows
      PROVE  Stays(ClearRows(u, rows)) /\ ClearRows(u, rows).row = u.row
  <2>1. PICK row : row = [r \in rows |-> BlankRow(u.cols)] /\ ClearRows(u, rows) = SetRows(u, row)
    BY DEF ClearRows
  <2>2. DOMAIN row \subseteq 1 .. u.rows /\ \A r \in DOMAIN row : row[r] \in [1 .. u.cols -> CellKinds]
    BY <1>3, <2>1, BlankFits
  <2>3. Keeps(u, SetRows(u, row)) /\ Sound(SetRows(u, row))
    BY <1>3, <2>2, RowsFit DEF Stays, Inside
  <2> QED
    BY <1>2, <1>3, <2>1, <2>3
<1>4. ASSUME NEW u, Stays(u), NEW from, NEW to
      PROVE  Stays(ClearRowRange(u, u.row, from, to)) /\ ClearRowRange(u, u.row, from, to).rows = u.rows
  BY <1>2, <1>4, RangeFits DEF Stays, Inside
<1>5. /\ t.row + 1 .. t.rows \subseteq 1 .. t.rows /\ 1 .. t.row - 1 \subseteq 1 .. t.rows
      /\ 1 .. t.rows \subseteq 1 .. t.rows /\ {t.row} \subseteq 1 .. t.rows
  BY <1>1
<1>6. Stays(EraseDisplay(t, 0))
  <2>1. PICK u : u = ClearRowRange(t, t.row, t.col, t.cols)
    OBVIOUS
  <2>2. EraseDisplay(t, 0) = ClearRows(u, t.row + 1 .. t.rows)
    BY <2>1 DEF EraseDisplay
  <2> QED
    BY <1>3, <1>4, <1>5, <2>1, <2>2
<1>7. Stays(EraseDisplay(t, 1))
  <2>1. PICK u : u = ClearRows(t, 1 .. t.row - 1)
    OBVIOUS
  <2>2. Stays(u) /\ u.row = t.row
    BY <1>3, <1>5, <2>1
  <2>3. EraseDisplay(t, 1) = ClearRowRange(u, u.row, 1, t.col)
    BY <2>1, <2>2 DEF EraseDisplay
  <2> QED
    BY <1>4, <2>2, <2>3
<1>8. EraseDisplay(t, 2) = ClearRows(t, 1 .. t.rows)
  BY DEF EraseDisplay
<1>9. Stays(EraseLine(t, 0)) /\ Stays(EraseLine(t, 1)) /\ Stays(EraseLine(t, 2))
  BY <1>3, <1>4, <1>5 DEF EraseLine
<1>10. ASSUME NEW n \in Nat PROVE Stays(DeleteChars(t, n))
  <2>1. PICK row : /\ row = [r \in {t.row} |-> [c \in 1 .. t.cols |->
                               IF c > t.cols - n THEN "blank"
                               ELSE IF c >= t.col THEN Grid(t).cells[r][c + n]
                               ELSE Grid(t).cells[r][c]]]
                   /\ DeleteChars(t, n) = SetRows(t, row)
    BY DEF DeleteChars
  <2>2. Grid(t).cells[t.row] \in [1 .. t.cols -> CellKinds]
    BY <1>1, GridHasCells DEF GridFits
  <2>3. ASSUME NEW c \in 1 .. t.cols, ~(c > t.cols - n) PROVE c + n \in 1 .. t.cols
    BY <1>1, <2>3
  <2>4. row[t.row] \in [1 .. t.cols -> CellKinds] /\ DOMAIN row = {t.row}
    BY <2>1, <2>2, <2>3 DEF CellKinds
  <2>5. Keeps(t, SetRows(t, row)) /\ Sound(SetRows(t, row))
    BY <1>1, <2>4, RowsFit
  <2> QED
    BY <1>2, <2>1, <2>5
<1>11. \A mode \in 0 .. 2 : mode = 0 \/ mode = 1 \/ mode = 2
  OBVIOUS
<1> QED
  BY <1>3, <1>4, <1>5, <1>6, <1>7, <1>8, <1>9, <1>10, <1>11

(* A control sequence that does not panic leaves the cursor on the screen.         *)
LEMMA ControlFits ==
    ASSUME NEW t, Stays(t), ~t.panicked, NEW counts \in SUBSET (Nat \ {0}), NEW v \in Csi(t, counts)
    PROVE  Stays(v)
<1>1. /\ Sound(t) /\ Fit(t) /\ Loose(t) /\ t.rows \in Nat \ {0} /\ t.row \in 1 .. t.rows /\ t.top \in Nat \ {0}
      /\ t.bottom \in 1 .. t.rows /\ t.cols \in Nat \ {0} /\ t.col \in Nat \ {0} /\ DOMAIN t = TerminalFields
  BY DEF Stays, Inside, Fit, Sound, Loose
<1> DEFINE moves == UNION {CursorMoves(t, n) \cup LineMoves(t, n) : n \in counts}
           places == {MoveTo(t, a, b) : a, b \in counts}
           displays == {EraseDisplay(t, mode) : mode \in 0 .. 2}
           lines == {EraseLine(t, mode) : mode \in 0 .. 2}
           regions == {SetScrollRegion(t, a, b) : a, b \in counts}
           wraps == {[t EXCEPT !.autowrap = on] : on \in BOOLEAN}
           switches == {SwitchAltScreen(t, on, save) : on, save \in BOOLEAN}
           sequences == moves \cup places \cup displays \cup lines \cup regions \cup wraps \cup switches
<1>12. PICK u \in sequences : v = IF u.panicked THEN u ELSE ClampCursor(u)
  BY DEF Csi
<1>13. /\ u \in moves => \E n \in counts : u \in CursorMoves(t, n) \cup LineMoves(t, n)
       /\ u \in places => \E a, b \in counts : u = MoveTo(t, a, b)
       /\ u \in displays \cup lines => \E mode \in 0 .. 2 : u = EraseDisplay(t, mode) \/ u = EraseLine(t, mode)
       /\ u \in regions => \E a, b \in counts : u = SetScrollRegion(t, a, b)
       /\ u \in wraps => \E on \in BOOLEAN : u = [t EXCEPT !.autowrap = on]
       /\ u \in switches => \E on, save \in BOOLEAN : u = SwitchAltScreen(t, on, save)
  OBVIOUS
<1>14. \/ u \in moves \/ u \in places \/ u \in displays \cup lines
       \/ u \in regions \/ u \in wraps \/ u \in switches
  <2> HIDE DEF moves, places, displays, lines, regions, wraps, switches
  <2> QED
    OBVIOUS
<1> HIDE DEF moves, places, displays, lines, regions, wraps, switches, sequences
<1>3. ASSUME Stays(u) PROVE Stays(v)
  <2>1. Loose(u) /\ Fit(u)
    BY <1>3 DEF Stays, Inside, Sound
  <2> QED
    BY <1>3, <1>12, <2>1, ClampFits DEF Stays
<1>4. ASSUME NEW row \in Nat \ {0}, NEW col \in Nat \ {0}, u = MoveTo(t, row, col) PROVE Stays(v)
  <2>1. Fit(u) /\ Loose(u) /\ u.panicked = t.panicked
    BY <1>1, <1>4, MoveFits DEF TerminalFields
  <2> QED
    BY <1>12, <2>1, ClampFits DEF Stays
<1>5. ASSUME NEW n \in counts, u \in CursorMoves(t, n) PROVE Stays(v)
  <2>1. n \in Nat \ {0}
    OBVIOUS
  <2>2. /\ Larger(t.row - n, 1) \in Nat \ {0} /\ t.row + n \in Nat \ {0} /\ t.row \in Nat \ {0}
        /\ Larger(t.col - n, 1) \in Nat \ {0} /\ t.col + n \in Nat \ {0} /\ 1 \in Nat \ {0}
    BY <1>1, <2>1 DEF Larger
  <2>3. \E row \in Nat \ {0}, col \in Nat \ {0} : u = MoveTo(t, row, col)
    BY <1>1, <1>5, <2>1, <2>2 DEF CursorMoves
  <2> QED
    BY <1>4, <2>3
<1>6. ASSUME NEW n \in counts, u \in LineMoves(t, n) PROVE Stays(v)
  <2>1. t.row \in Nat \ {0} /\ n \in Nat
    BY <1>1
  <2>2. \/ u = ScrollDown(t, t.row, t.bottom, n) \/ u = ScrollUp(t, t.row, t.bottom, n) \/ u = DeleteChars(t, n)
        \/ u = ScrollUp(t, t.top, t.bottom, n) \/ u = ScrollDown(t, t.top, t.bottom, n)
        \/ u = ClearRowRange(t, t.row, t.col, t.col + n - 1)
    BY <1>6 DEF LineMoves
  <2>3. Inside(t)
    BY DEF Stays
  <2>4. ASSUME NEW top \in Nat \ {0} PROVE Stays(ScrollUp(t, top, t.bottom, n)) /\ Stays(ScrollDown(t, top, t.bottom, n))
    BY <1>1, <2>1, <2>3, ScrollsFit, Scrolled DEF Stays, Keeps
  <2>5. Stays(u)
    BY <1>1, <2>1, <2>2, <2>4, EraseFits
  <2> QED
    BY <1>3, <2>5
<1>7. ASSUME NEW mode \in 0 .. 2, u = EraseDisplay(t, mode) \/ u = EraseLine(t, mode) PROVE Stays(v)
  BY <1>3, <1>7, EraseFits
<1>8. ASSUME NEW a \in counts, NEW b \in counts, u = SetScrollRegion(t, a, b) PROVE Stays(v)
  <2>1. PICK top, bottom : top \in Nat \ {0} /\ bottom \in 1 .. t.rows /\ top <= bottom /\ u = [t EXCEPT !.top = top, !.bottom = bottom]
    <3>1. a \in Nat \ {0} /\ b \in Nat \ {0} /\ Smaller(b, t.rows) \in 1 .. t.rows
      BY <1>1 DEF Smaller
    <3>2. \/ u = [t EXCEPT !.top = 1, !.bottom = t.rows]
          \/ u = [t EXCEPT !.top = a, !.bottom = Smaller(b, t.rows)] /\ ~(Smaller(a, t.rows) >= Smaller(b, t.rows))
      BY <1>8 DEF SetScrollRegion
    <3>3. ~(Smaller(a, t.rows) >= Smaller(b, t.rows)) => a <= Smaller(b, t.rows)
      BY <1>1, <3>1 DEF Smaller
    <3>4. 1 \in Nat \ {0} /\ t.rows \in 1 .. t.rows /\ 1 <= t.rows
      BY <1>1
    <3> QED
      BY <3>1, <3>2, <3>3, <3>4
  <2>2. /\ u.cols = t.cols /\ u.rows = t.rows /\ u.primary = t.primary /\ u.alt = t.alt /\ u.col = t.col
        /\ u.row = t.row /\ u.saved = t.saved /\ u.top = top /\ u.bottom = bottom /\ u.autowrap = t.autowrap
        /\ u.onAlt = t.onAlt /\ u.panicked = t.panicked /\ DOMAIN u = TerminalFields
    BY <1>1, <2>1 DEF TerminalFields
  <2>3. Stays(u)
    BY <1>1, <2>1, <2>2 DEF Stays, Inside, Fit, Sound, Loose
  <2> QED
    BY <1>3, <2>3
<1>9. ASSUME NEW on \in BOOLEAN, u = [t EXCEPT !.autowrap = on] PROVE Stays(v)
  <2>1. /\ u.cols = t.cols /\ u.rows = t.rows /\ u.primary = t.primary /\ u.alt = t.alt /\ u.col = t.col
        /\ u.row = t.row /\ u.saved = t.saved /\ u.top = t.top /\ u.bottom = t.bottom /\ u.autowrap = on
        /\ u.onAlt = t.onAlt /\ u.panicked = t.panicked /\ DOMAIN u = TerminalFields
    BY <1>1, <1>9 DEF TerminalFields
  <2>2. Stays(u)
    BY <1>1, <2>1 DEF Stays, Inside, Fit, Sound, Loose
  <2> QED
    BY <1>3, <2>2
<1>10. ASSUME NEW on \in BOOLEAN, NEW save \in BOOLEAN, u = SwitchAltScreen(t, on, save) PROVE Stays(v)
  BY <1>3, <1>10, ScreensFit
<1>11. ASSUME NEW a \in counts, NEW b \in counts, u = MoveTo(t, a, b) PROVE Stays(v)
  BY <1>4, <1>11
<1> QED
  BY <1>5, <1>6, <1>7, <1>8, <1>9, <1>10, <1>11, <1>13, <1>14

(* So does any piece of output.                                                   *)
LEMMA OutputFits ==
    ASSUME NEW t, Stays(t), ~t.panicked, NEW counts \in SUBSET (Nat \ {0}), NEW v \in Written(t, counts)
    PROVE  Stays(v)
<1>1. /\ Sound(t) /\ Fit(t) /\ Loose(t) /\ t.rows \in Nat \ {0} /\ t.row \in 1 .. t.rows /\ t.saved[1] \in Nat \ {0}
      /\ t.saved[2] \in Nat \ {0} /\ t.cols \in Nat \ {0} /\ t.col \in Nat \ {0} /\ t.col <= t.cols + 2
      /\ DOMAIN t = TerminalFields
  BY DEF Stays, Inside, Fit, Sound, Loose
<1>2. \/ \E width \in {1, 2} : v = PutChar(t, width)
      \/ v = Combine(t)
      \/ v \in Execute(t) \/ v \in Csi(t, counts) \/ v \in Esc(t)
  BY DEF Written
<1>3. CASE (\E width \in {1, 2} : v = PutChar(t, width)) \/ v = Combine(t)
  BY <1>3, CharsFit
<1>5. CASE v \in Execute(t)
  <2>1. PICK tab : tab = ((t.col - 1) \div 8 + 1) * 8 + 1
    OBVIOUS
  <2>2. tab \in Nat \ {0}
    <3>1. t.col - 1 \in Nat
      BY <1>1
    <3>2. (t.col - 1) \div 8 \in Nat
      BY <3>1
    <3> QED
      BY <2>1, <3>2
  <2>3. /\ Larger(t.col - 1, 1) \in Nat \ {0} /\ Larger(t.col - 1, 1) <= t.cols + 2
        /\ Smaller(tab, t.cols) \in Nat \ {0} /\ Smaller(tab, t.cols) <= t.cols + 2
    BY <1>1, <2>2 DEF Larger, Smaller
  <2>4. \/ v = LineFeed(t) \/ v = CarriageReturn(t)
        \/ v = MoveTo(t, t.row, Larger(t.col - 1, 1)) \/ v = MoveTo(t, t.row, Smaller(tab, t.cols))
    BY <1>5, <2>1 DEF Execute
  <2> QED
    BY <1>1, <2>3, <2>4, LinesFit, ShortMove
<1>6. CASE v \in Csi(t, counts)
  BY <1>6, ControlFits
<1>7. CASE v \in Esc(t)
  <2>1. \/ v = LineFeed(t) \/ v = LineFeed(CarriageReturn(t)) \/ v = ReverseIndex(t)
        \/ v = [t EXCEPT !.saved = <<t.row, t.col>>]
        \/ v = ClampCursor(MoveTo(t, t.saved[1], t.saved[2])) \/ v = NewTerminal(t.cols, t.rows)
    BY <1>7 DEF Esc
  <2>2. CASE v = LineFeed(CarriageReturn(t))
    <3>1. PICK r : r = CarriageReturn(t)
      OBVIOUS
    <3> QED
      BY <2>2, <3>1, LinesFit
  <2>3. CASE v = [t EXCEPT !.saved = <<t.row, t.col>>]
    <3>1. /\ v.cols = t.cols /\ v.rows = t.rows /\ v.primary = t.primary /\ v.alt = t.alt /\ v.col = t.col
          /\ v.row = t.row /\ v.saved = <<t.row, t.col>> /\ v.top = t.top /\ v.bottom = t.bottom
          /\ v.autowrap = t.autowrap /\ v.onAlt = t.onAlt /\ v.panicked = t.panicked /\ DOMAIN v = TerminalFields
      BY <1>1, <2>3 DEF TerminalFields
    <3> QED
      BY <1>1, <3>1 DEF Stays, Inside, Fit, Sound, Loose
  <2>4. CASE v = ClampCursor(MoveTo(t, t.saved[1], t.saved[2]))
    <3>1. Loose(MoveTo(t, t.saved[1], t.saved[2])) /\ Fit(MoveTo(t, t.saved[1], t.saved[2]))
      BY <1>1, MoveFits
    <3> QED
      BY <2>4, <3>1, ClampFits DEF Stays
  <2> QED
    BY <2>1, <2>2, <2>3, <2>4, LinesFit, ScreensFit
<1> QED
  BY <1>2, <1>3, <1>5, <1>6, <1>7

(* A resized screen keeps the cells that are on both, and blanks are new.          *)
LEMMA ResizeFits ==
    ASSUME NEW t, Stays(t), NEW px \in Pixels, NEW u, u = Resize(t, CellsForSize(px)[1], CellsForSize(px)[2])
    PROVE  Stays(u)
<1>1. /\ Sound(t) /\ Fit(t) /\ Loose(t) /\ t.rows \in Nat \ {0} /\ t.cols \in Nat \ {0} /\ t.col \in Nat \ {0}
      /\ t.row \in Nat \ {0} /\ DOMAIN t = TerminalFields
  BY DEF Stays, Inside, Fit, Sound, Loose
<1>2. PICK cols, rows : cols = CellsForSize(px)[1] /\ rows = CellsForSize(px)[2]
  OBVIOUS
<1>3. cols \in Nat \ {0} /\ rows \in Nat \ {0}
  <2>1. px[1] \in Nat \ {0} /\ px[2] \in Nat \ {0} /\ CellSize \in Nat \ {0}
    BY TerminalSurfaceAssumption DEF Pixels
  <2>2. px[1] \div CellSize \in Nat /\ px[2] \div CellSize \in Nat
    BY <2>1
  <2>3. Larger(px[1] \div CellSize, 1) \in Nat \ {0} /\ Larger(px[2] \div CellSize, 1) \in Nat \ {0}
    BY <2>2 DEF Larger
  <2> QED
    BY <1>2, <2>3 DEF CellsForSize
<1>4. ASSUME NEW g, SoundGrid(g, t.rows), GridFits(g, t.cols, t.rows)
      PROVE  GridFits(ResizeGrid(g, cols, rows), cols, rows)
  <2>1. Len(g.cells) = t.rows
    <3>1. g.cells \in [1 .. t.rows -> {g.cells[r] : r \in 1 .. t.rows}]
      BY <1>4 DEF SoundGrid
    <3> QED
      BY <1>1, <3>1, RowsAreSeq
  <2>2. Len(g.cells[1]) = t.cols
    <3>1. g.cells[1] \in [1 .. t.cols -> CellKinds]
      BY <1>1, <1>4 DEF GridFits
    <3> QED
      BY <1>1, <3>1, RowsAreSeq
  <2>3. CASE Len(g.cells) = rows /\ Len(g.cells[1]) = cols
    BY <1>4, <2>1, <2>2, <2>3 DEF ResizeGrid
  <2>4. CASE ~(Len(g.cells) = rows /\ Len(g.cells[1]) = cols)
    <3>1. PICK n : n = NewGrid(cols, rows)
      OBVIOUS
    <3>2. PICK cells : cells = [r \in 1 .. rows |-> [c \in 1 .. cols |->
                                  IF r <= t.rows /\ c <= t.cols THEN g.cells[r][c] ELSE "blank"]]
      OBVIOUS
    <3>3. ResizeGrid(g, cols, rows) = [n EXCEPT !.cells = cells]
      BY <2>1, <2>2, <2>4, <3>1, <3>2 DEF ResizeGrid
    <3>4. [n EXCEPT !.cells = cells].cells = cells
      BY <3>1 DEF NewGrid
    <3>5. ASSUME NEW r \in 1 .. rows, NEW c \in 1 .. cols
          PROVE  (IF r <= t.rows /\ c <= t.cols THEN g.cells[r][c] ELSE "blank") \in CellKinds
      <4>1. CASE r <= t.rows /\ c <= t.cols
        <5>1. r \in 1 .. t.rows /\ c \in 1 .. t.cols
          BY <1>1, <4>1
        <5> QED
          BY <1>4, <4>1, <5>1 DEF GridFits
      <4> QED
        BY <4>1 DEF CellKinds
    <3>6. \A r \in 1 .. rows : cells[r] \in [1 .. cols -> CellKinds]
      BY <3>2, <3>5
    <3> QED
      BY <3>3, <3>4, <3>6 DEF GridFits
  <2> QED
    BY <2>3, <2>4
<1>5. PICK p, a : p = ResizeGrid(t.primary, cols, rows) /\ a = ResizeGrid(t.alt, cols, rows)
  OBVIOUS
<1>6. GridFits(p, cols, rows) /\ GridFits(a, cols, rows)
  BY <1>1, <1>4, <1>5 DEF Loose, Fit
<1>7. PICK row, col : row = Smaller(t.row, rows) /\ col = Smaller(t.col, cols)
  OBVIOUS
<1>8. col \in Nat \ {0} /\ col <= cols
  BY <1>1, <1>3, <1>7 DEF Smaller
<1>9. u = [t EXCEPT !.cols = cols, !.rows = rows, !.top = 1, !.bottom = rows, !.row = row, !.col = col,
                    !.primary = p, !.alt = a]
  BY <1>1, <1>2, <1>5, <1>7 DEF Resize, ClampCursor, MoveTo, TerminalFields
<1>10. /\ u.cols = cols /\ u.rows = rows /\ u.col = col /\ u.top = 1 /\ u.bottom = rows
       /\ u.primary = p /\ u.alt = a /\ u.saved = t.saved /\ u.autowrap = t.autowrap
  BY <1>1, <1>9 DEF TerminalFields
<1>11. Inside(u)
  BY <1>1, <1>3, <1>6, <1>8, <1>10 DEF Inside, Fit
<1> QED
  BY <1>1, <1>11, TerminalResized DEF Stays

(* The types of the session: the renderer has a size exactly as long as it has a   *)
(* surface, and caches no row that the screen does not have.                       *)
RendererTyped(r) ==
    /\ r.surface \in Surfaces \cup {None} /\ r.pending \in Pixels \cup {None}
    /\ r.surface = None <=> r.config = None
ScreenTypes ==
    /\ Stays(terminal)
    /\ renderer # NoRenderer => RendererTyped(renderer) /\ Len(renderer.rows) <= terminal.rows
PtyTypes ==
    /\ reader \in {"none", "reads", "draws", "ended", "panicked"}
    /\ ptyOpen <=> reader \in {"reads", "draws", "panicked"}
    /\ terminalSteps \in Nat /\ terminalSteps <= MaxTerminalSteps /\ input \in Nat /\ input <= terminalSteps
    /\ live \in Surfaces \cup {None} /\ size \in Pixels \cup {None}
    /\ DOMAIN opening = Surfaces
    /\ \A s \in Surfaces : opening[s] \in {"idle", "started", "waits", "ready", "opened", "done"}

LEMMA NotNone == (\A px \in Pixels : px # None) /\ <<1, 1>> # None /\ \A s \in Surfaces : s # None
<1>1. None \notin Nat \cup (Nat \X Nat) /\ Widths \cup Heights \subseteq Nat \ {0}
  BY TerminalSurfaceAssumption
<1>2. Pixels \subseteq Nat \X Nat /\ <<1, 1>> \in Nat \X Nat /\ Surfaces \subseteq Nat
  BY <1>1 DEF Pixels, Surfaces
<1> QED
  BY <1>1, <1>2

(* A drawing changes no cell.                                                     *)
LEMMA DrawingTyped ==
    ASSUME NEW r, NEW t, Stays(t), t.panicked = FALSE, RendererOK(r, t), Draw(r, t),
           r # NoRenderer => RendererTyped(r)
    PROVE  ScreenTypes'
<1>1. /\ (renderer' = NoRenderer <=> r = NoRenderer) /\ terminal'.rows = t.rows /\ Sound(terminal')
      /\ Renders(r, t) => /\ renderer'.surface = r.surface /\ renderer'.config = r.config
                          /\ renderer'.pending = r.pending /\ Len(renderer'.rows) <= t.rows
  BY Drawn DEF Stays
<1>2. (r.on <=> r # NoRenderer) /\ (r # NoRenderer => Renders(r, t))
  BY RendererIsOn
<1>3. Stays(terminal')
  <2>1. CASE ~r.on
    BY <2>1 DEF Draw
  <2>2. CASE r.on
    <3> DEFINE g == [Grid(t) EXCEPT !.dirty = @ \ Grid(t).dirty]
    <3>1. terminal' = WithGrid(t, g)
      BY <2>2 DEF Draw, ClearRowDirty
    <3>2. SoundGrid(Grid(t), t.rows) /\ GridFits(Grid(t), t.cols, t.rows) /\ Sound(t) /\ Fit(t) /\ Inside(t)
      BY GridHasCells DEF Stays, Inside
    <3>3. SoundGrid(g, t.rows) /\ GridFits(g, t.cols, t.rows)
      BY <3>2 DEF SoundGrid, GridFits
    <3> HIDE DEF g
    <3>4. Keeps(t, terminal')
      BY <3>1, <3>2, <3>3, ScreenFits
    <3> QED
      BY <1>1, <3>2, <3>4 DEF Keeps, Stays
  <2> QED
    BY <2>1, <2>2
<1> QED
  BY <1>1, <1>2, <1>3 DEF ScreenTypes, RendererTyped

LEMMA SurfaceTyped ==
    ASSUME NEW s \in Surfaces, TerminalInv, ScreenTypes, SetSurface(s) PROVE ScreenTypes'
<1>1. /\ Renders(renderer, terminal) /\ RendererTyped(renderer) /\ Len(renderer.rows) <= terminal.rows
      /\ Stays(terminal) /\ pendingSize \in Pixels \cup {None} /\ DOMAIN renderer = RendererFields
      /\ Shown(renderer, terminal) /\ renderer # NoRenderer
  BY DEF SetSurface, TerminalInv, RendererOK, Renders, ScreenTypes, Shown
<1>2. PICK v : v = SetSurfaceOf(renderer, s)
  OBVIOUS
<1>3. s # None /\ <<1, 1>> # None /\ \A px \in Pixels : px # None
  BY NotNone
<1>4. Len(<<>>) = 0 /\ terminal.rows \in Nat
  BY <1>1 DEF Stays, Sound, Loose
<1>5. PICK rows : rows = IF renderer.formatFits THEN renderer.rows ELSE <<>>
  OBVIOUS
<1>6. PICK bare : bare = [renderer EXCEPT !.surface = s, !.config = <<1, 1>>, !.formatFits = TRUE, !.pending = None,
                                          !.rows = rows]
  OBVIOUS
<1>7. /\ DOMAIN bare = RendererFields /\ bare.surface = s /\ bare.config = <<1, 1>> /\ bare.pending = None
      /\ bare.rows = rows /\ Len(rows) <= terminal.rows
  BY <1>1, <1>4, <1>5, <1>6 DEF RendererFields
<1>8. v = IF renderer.pending = None THEN bare ELSE [bare EXCEPT !.config = renderer.pending, !.rows = <<>>]
  BY <1>2, <1>3, <1>5, <1>6, <1>7 DEF SetSurfaceOf, ResizeRenderer
<1>9. /\ DOMAIN v = RendererFields /\ v.surface = s /\ v.config # None /\ v.pending = None
      /\ Len(v.rows) <= terminal.rows
  <2>1. CASE renderer.pending = None
    BY <1>3, <1>7, <1>8, <2>1
  <2>2. CASE renderer.pending # None
    <3>1. PICK w : w = [bare EXCEPT !.config = renderer.pending, !.rows = <<>>]
      OBVIOUS
    <3>2. /\ DOMAIN w = RendererFields /\ w.surface = s /\ w.config = renderer.pending /\ w.pending = None
          /\ w.rows = <<>>
      BY <1>7, <3>1 DEF RendererFields
    <3>3. 0 <= terminal.rows
      BY <1>4
    <3> QED
      BY <1>4, <1>8, <2>2, <3>1, <3>2, <3>3
  <2> QED
    BY <2>1, <2>2
<1>10. CASE pendingSize = None
  <2>1. renderer' = v /\ terminal' = terminal
    BY <1>2, <1>10 DEF SetSurface
  <2> QED
    BY <1>1, <1>3, <1>9, <2>1 DEF ScreenTypes, RendererTyped
<1>11. CASE pendingSize # None
  <2>1. renderer' = [v EXCEPT !.config = pendingSize, !.rows = <<>>] /\ terminal' = ResizeTerminal(pendingSize)
    BY <1>2, <1>3, <1>9, <1>11 DEF SetSurface, ResizeRenderer
  <2>2. Stays(terminal')
    BY <1>1, <1>11, <2>1, ResizeFits DEF ResizeTerminal
  <2>3. /\ renderer'.surface = s /\ renderer'.config = pendingSize /\ renderer'.pending = None
        /\ renderer'.rows = <<>> /\ terminal'.rows \in Nat
    BY <1>9, <2>1, <2>2 DEF RendererFields, Stays, Sound, Loose
  <2> QED
    BY <1>3, <1>4, <1>11, <2>2, <2>3 DEF ScreenTypes, RendererTyped
<1> QED
  BY <1>10, <1>11

LEMMA ScreenTypesStep == TerminalInv /\ ScreenTypes /\ [TerminalNext]_terminalVars => ScreenTypes'
<1> SUFFICES ASSUME TerminalInv, ScreenTypes, [TerminalNext]_terminalVars PROVE ScreenTypes'
  OBVIOUS
<1>1. /\ Stays(terminal) /\ terminal.panicked = FALSE /\ RendererOK(renderer, terminal)
      /\ pendingSize \in Pixels \cup {None}
      /\ renderer # NoRenderer => RendererTyped(renderer)
  BY DEF TerminalInv, ScreenTypes
<1>2. (renderer.on <=> renderer # NoRenderer) /\ (renderer # NoRenderer => Renders(renderer, terminal))
  BY <1>1, RendererIsOn
<1>3. ASSUME UNCHANGED <<terminal, renderer>> PROVE ScreenTypes'
  BY <1>3 DEF ScreenTypes
<1>4. CASE SurfaceChanged
  <2>1. CASE ~renderer.on
    BY <1>3, <1>4, <2>1 DEF SurfaceChanged
  <2>2. CASE renderer.on
    <3>1. PICK px \in Pixels : Draw(ResizeRenderer(renderer, px), ResizeTerminal(px))
      BY <1>4, <2>2 DEF SurfaceChanged
    <3>2. PICK u, v : u = ResizeTerminal(px) /\ v = ResizeRenderer(renderer, px)
      OBVIOUS
    <3>3. Stays(u) /\ Sound(terminal) /\ Sound(u)
      BY <1>1, <3>2, ResizeFits DEF ResizeTerminal, Stays
    <3>4. u.panicked = FALSE /\ RendererOK(renderer, u)
      BY <1>1, <3>2, <3>3, TerminalResized DEF ResizeTerminal
    <3>5. Renders(renderer, u)
      BY <1>2, <2>2, <3>4 DEF RendererOK
    <3>6. /\ Renders(v, u) /\ v.surface = renderer.surface
          /\ renderer.surface = None => v.config = renderer.config /\ v.pending = px
          /\ renderer.surface # None => v.config = px /\ v.pending = renderer.pending
      BY <3>2, <3>3, <3>5, RendererResized
    <3>7. RendererTyped(v)
      <4>1. RendererTyped(renderer) /\ px # None
        BY <1>1, <1>2, <2>2, NotNone
      <4>2. CASE renderer.surface = None
        BY <3>6, <4>1, <4>2 DEF RendererTyped
      <4>3. CASE renderer.surface # None
        BY <3>6, <4>1, <4>3 DEF RendererTyped
      <4> QED
        BY <4>2, <4>3
    <3>8. RendererOK(v, u)
      BY <3>6 DEF RendererOK
    <3> QED
      BY <3>1, <3>2, <3>3, <3>4, <3>7, <3>8, DrawingTyped
  <2> QED
    BY <2>1, <2>2
<1>5. CASE SurfaceDestroyed
  <2>1. CASE ~renderer.on
    BY <1>3, <1>5, <2>1 DEF SurfaceDestroyed
  <2>2. CASE renderer.on
    <3>1. renderer' = [renderer EXCEPT !.surface = None, !.config = None] /\ terminal' = terminal
      BY <1>5, <2>2 DEF SurfaceDestroyed
    <3>2. /\ renderer'.surface = None /\ renderer'.config = None /\ renderer'.pending = renderer.pending
          /\ renderer'.rows = renderer.rows
      BY <1>2, <2>2, <3>1 DEF Renders, RendererFields
    <3> QED
      BY <1>1, <1>2, <2>2, <3>1, <3>2 DEF ScreenTypes, RendererTyped
  <2> QED
    BY <2>1, <2>2
<1>6. ASSUME NEW s \in Surfaces, OpenSurface(s) PROVE ScreenTypes'
  <2>1. CASE NeedsInit(s)
    BY <1>3, <2>1 DEF NeedsInit
  <2>2. CASE InitRenderer(s)
    <3>1. CASE UNCHANGED renderer
      BY <1>3, <2>2, <3>1 DEF InitRenderer
    <3>2. CASE \E fits \in BOOLEAN : renderer' = Renderer(fits)
      <4>1. /\ renderer'.surface = None /\ renderer'.config = None /\ renderer'.pending = None
            /\ renderer'.rows = <<>> /\ Len(<<>>) = 0
        BY <3>2 DEF Renderer
      <4>2. terminal' = terminal /\ terminal.rows \in Nat
        BY <1>1, <2>2 DEF InitRenderer, Stays, Sound, Loose
      <4> QED
        BY <1>1, <4>1, <4>2 DEF ScreenTypes, RendererTyped
    <3> QED
      BY <2>2, <3>1, <3>2 DEF InitRenderer
  <2>3. CASE SetSurface(s)
    BY <2>3, SurfaceTyped
  <2>4. CASE Redraw(s)
    <3>1. Draw(renderer, terminal)
      BY <2>4 DEF Redraw
    <3> QED
      BY <1>1, <3>1, DrawingTyped
  <2> QED
    BY <1>6, <2>1, <2>2, <2>3, <2>4 DEF OpenSurface
<1>7. CASE WriteOutput
  <2>1. PICK v \in Written(terminal, Counts) : terminal' = [v EXCEPT !.panicked = FALSE]
    BY <1>7 DEF WriteOutput
  <2>2. Stays(v)
    BY <1>1, <2>1, OutputFits, TerminalSurfaceAssumption
  <2>3. DOMAIN v = TerminalFields
    BY <2>2 DEF Stays, Sound, Loose
  <2>4. /\ DOMAIN terminal' = TerminalFields /\ terminal'.panicked = FALSE
        /\ \A f \in TerminalFields \ {"panicked"} : terminal'[f] = v[f]
    BY <2>1, <2>3 DEF TerminalFields
  <2>5. /\ terminal'.cols = v.cols /\ terminal'.rows = v.rows /\ terminal'.col = v.col /\ terminal'.row = v.row
        /\ terminal'.saved = v.saved /\ terminal'.top = v.top /\ terminal'.bottom = v.bottom
        /\ terminal'.autowrap = v.autowrap /\ terminal'.primary = v.primary /\ terminal'.alt = v.alt
        /\ terminal'.onAlt = v.onAlt
    BY <2>4 DEF TerminalFields
  <2>6. Stays(terminal')
    BY <2>2, <2>4, <2>5 DEF Stays, Inside, Fit, Sound, Loose
  <2>7. renderer' = renderer /\ terminal'.rows = terminal.rows
    <3>1. Shown(renderer, terminal)
      BY <1>1 DEF Shown, Stays
    <3> QED
      BY <1>7, <3>1, OutputWritten DEF WriteOutput
  <2> QED
    BY <2>6, <2>7 DEF ScreenTypes
<1>8. CASE RedrawOutput
  <2>1. Draw(renderer, terminal)
    BY <1>8 DEF RedrawOutput
  <2> QED
    BY <1>1, <2>1, DrawingTyped
<1>9. CASE SurfaceCreated \/ AttachPty \/ PtyEnds \/ SendInput \/ WriteInput \/ UNCHANGED terminalVars
  BY <1>3, <1>9 DEF SurfaceCreated, AttachPty, PtyEnds, SendInput, WriteInput, terminalVars
<1> QED
  BY <1>4, <1>5, <1>6, <1>7, <1>8, <1>9 DEF TerminalNext

LEMMA PtyTypesStep == PtyTypes /\ [TerminalNext]_terminalVars => PtyTypes'
<1> SUFFICES ASSUME PtyTypes, [TerminalNext]_terminalVars PROVE PtyTypes'
  OBVIOUS
<1>1. MaxTerminalSteps \in Nat
  BY TerminalSurfaceAssumption
<1>2. CASE SurfaceCreated
  BY <1>1, <1>2 DEF SurfaceCreated, TerminalStep, PtyTypes
<1>3. CASE SurfaceChanged
  BY <1>1, <1>3 DEF SurfaceChanged, TerminalStep, PtyTypes
<1>4. CASE SurfaceDestroyed
  BY <1>1, <1>4 DEF SurfaceDestroyed, TerminalStep, PtyTypes
<1>5. ASSUME NEW s \in Surfaces, OpenSurface(s) PROVE PtyTypes'
  <2>1. /\ UNCHANGED <<reader, ptyOpen, input, live, size, terminalSteps>>
        /\ \E label \in {"ready", "waits", "done", "opened"} : opening' = [opening EXCEPT ![s] = label]
    BY <1>5 DEF OpenSurface, NeedsInit, InitRenderer, SetSurface, Redraw
  <2> QED
    BY <2>1 DEF PtyTypes
<1>6. CASE AttachPty
  BY <1>1, <1>6 DEF AttachPty, TerminalStep, PtyTypes, openings
<1>7. CASE WriteOutput
  <2>1. /\ UNCHANGED <<ptyOpen, live, size, opening>> /\ reader = "reads" /\ TerminalStep
        /\ reader' \in {"panicked", "draws"} /\ input' \in {0, input}
    BY <1>7 DEF WriteOutput, openings
  <2> QED
    BY <1>1, <2>1 DEF TerminalStep, PtyTypes
<1>8. CASE RedrawOutput
  BY <1>8 DEF RedrawOutput, PtyTypes, openings
<1>9. CASE PtyEnds
  BY <1>9 DEF PtyEnds, PtyTypes, openings
<1>10. CASE SendInput
  BY <1>1, <1>10 DEF SendInput, TerminalStep, PtyTypes, openings
<1>11. CASE WriteInput
  BY <1>11 DEF WriteInput, PtyTypes, openings
<1>12. CASE UNCHANGED terminalVars
  BY <1>12 DEF terminalVars, PtyTypes, openings
<1> QED
  BY <1>2, <1>3, <1>4, <1>5, <1>6, <1>7, <1>8, <1>9, <1>10, <1>11, <1>12 DEF TerminalNext

(* The rows of both screens are as wide as the terminal, whatever output, resizes and
   surfaces do to them, the cursor and the scroll region stay on the screen, and the
   renderer, the tunnel's task and the surfaces are in a state the code gives them. *)
THEOREM TerminalTypeCorrect == TerminalSpec => []TerminalTypeOK
<1>1. TerminalInit => ScreenTypes /\ PtyTypes
  <2> SUFFICES ASSUME TerminalInit PROVE ScreenTypes /\ PtyTypes
    OBVIOUS
  <2>1. PICK g : g = NewGrid(2, 2)
    OBVIOUS
  <2>2. GridFits(g, 2, 2)
    BY <2>1, NewGridFits
  <2>3. PICK t : t = NewTerminal(2, 2)
    OBVIOUS
  <2>4. /\ t.cols = 2 /\ t.rows = 2 /\ t.primary = g /\ t.alt = g /\ t.col = 1 /\ t.saved = <<1, 1>>
        /\ t.top = 1 /\ t.bottom = 2 /\ t.autowrap = TRUE
    BY <2>1, <2>3 DEF NewTerminal
  <2>5. Fit(t)
    <3>1. 2 \in Nat \ {0} /\ 1 \in Nat \ {0} /\ <<1, 1>>[2] = 1
      OBVIOUS
    <3>2. GridFits(t.primary, t.cols, t.rows) /\ GridFits(t.alt, t.cols, t.rows)
      BY <2>2, <2>4
    <3> QED
      <4>1. t.cols \in Nat \ {0} /\ t.col \in Nat \ {0} /\ t.top <= t.bottom
        BY <2>4, <3>1
      <4>2. t.saved[2] \in Nat \ {0} /\ t.autowrap \in BOOLEAN
        BY <2>4, <3>1
      <4> QED
        BY <3>2, <4>1, <4>2 DEF Fit
  <2>6. Stays(terminal) /\ renderer = NoRenderer
    BY <2>3, <2>4, <2>5, NewTerminalSound DEF TerminalInit, Stays, Inside
  <2> QED
    BY <2>6, TerminalSurfaceAssumption DEF TerminalInit, ScreenTypes, PtyTypes
<1>2. TerminalInv /\ ScreenTypes /\ PtyTypes => TerminalTypeOK
  <2> SUFFICES ASSUME TerminalInv, ScreenTypes, PtyTypes PROVE TerminalTypeOK
    OBVIOUS
  <2>1. PICK t : t = terminal /\ Stays(t)
    BY DEF ScreenTypes
  <2>2. /\ t.rows \in Nat \ {0} /\ t.row \in Nat \ {0} /\ t.row <= t.rows /\ t.top \in Nat \ {0}
        /\ t.bottom \in 1 .. t.rows /\ t.top <= t.bottom /\ t.col \in Nat \ {0} /\ t.cols \in Nat \ {0}
        /\ t.col <= t.cols + 2 /\ t.onAlt \in BOOLEAN /\ t.panicked \in BOOLEAN /\ t.autowrap \in BOOLEAN
    BY <2>1 DEF Stays, Inside, Fit, Sound, Loose
  <2>3. t.row \in 1 .. t.rows /\ t.col \in 1 .. t.cols + 2 /\ t.top \in 1 .. t.bottom
    BY <2>2
  <2>4. ASSUME NEW g, SoundGrid(g, t.rows), GridFits(g, t.cols, t.rows) PROVE IsGrid(g, t.cols, t.rows)
    <3>1. DOMAIN g.cells = 1 .. t.rows /\ g.dirty \subseteq 1 .. t.rows
      BY <2>4 DEF SoundGrid
    <3> QED
      BY <2>4, <3>1 DEF IsGrid, GridFits
  <2>5. IsGrid(t.primary, t.cols, t.rows) /\ IsGrid(t.alt, t.cols, t.rows)
    BY <2>1, <2>4 DEF Stays, Inside, Fit, Sound, Loose
  <2>6. IsTerminal(terminal)
    BY <2>1, <2>2, <2>3, <2>5 DEF IsTerminal
  <2>7. renderer.on <=> renderer # NoRenderer
    BY RendererIsOn DEF TerminalInv
  <2>8. input \in 0 .. MaxTerminalSteps /\ terminalSteps \in 0 .. MaxTerminalSteps
    BY TerminalSurfaceAssumption DEF PtyTypes
  <2>9. pendingSize \in Pixels \cup {None}
    BY DEF TerminalInv
  <2> QED
    BY <2>6, <2>7, <2>8, <2>9 DEF TerminalTypeOK, ScreenTypes, RendererTyped, PtyTypes
<1>3. TerminalInv /\ ScreenTypes /\ PtyTypes /\ [TerminalNext]_terminalVars
      => TerminalInv' /\ ScreenTypes' /\ PtyTypes'
  BY TerminalInvStep, ScreenTypesStep, PtyTypesStep
<1> QED
  BY <1>1, <1>2, <1>3, TerminalInvInit, PTL DEF TerminalSpec

-------------------------------------------------------------------------------
(* jj.  The files at every moment of a call stay in the past: what a call has     *)
(* found is that of one of them.                                                  *)

Trees == [JjFiles -> FileContents]
Moments == [disk : Trees, parent : Trees]
CallFields == {"at", "kind", "since", "op", "base", "tree", "entries"}

\* What call c has found, if the files were h[1], h[2], ... until now.
Found(c, h) ==
    /\ c.at = "answered" /\ c.kind = "read" => \E i \in c.since .. Len(h) : c.tree = h[i].disk
    /\ c.at \in {"sizing", "answered"} /\ c.kind = "diff" =>
          \E i \in c.since .. Len(h) : c.entries = Entries(h[i].parent, h[i].disk)
CallOK(c, h) ==
    /\ DOMAIN c = CallFields
    /\ c.at = "idle" \/ (c.kind \in Kinds /\ c.since \in 1 .. Len(h))
    /\ c.at \in {"opened", "locked"} => c.kind = "read"
    /\ c.at = "sizing" => c.kind = "diff"
    /\ c.at = "published" => c.kind = "undo"
    /\ Found(c, h)

JjInv ==
    /\ past \in Seq(Moments) /\ past # <<>>
    /\ DOMAIN jjCalls = JjCalls /\ \A p \in JjCalls : CallOK(jjCalls[p], past)

(* What was true of the past stays true.                                          *)
LEMMA CallKept ==
    ASSUME NEW h \in Seq(Moments), NEW m \in Moments, NEW c, CallOK(c, h)
    PROVE  CallOK(c, Append(h, m))
<1>1. PICK g : g = Append(h, m)
  OBVIOUS
<1>2. Len(h) \in Nat /\ Len(g) = Len(h) + 1 /\ \A i \in 1 .. Len(h) : g[i] = h[i]
  BY <1>1, AppendProperties, LenProperties
<1>3. \A i \in c.since .. Len(h) : c.since \in 1 .. Len(h) => i \in 1 .. Len(h) /\ i \in c.since .. Len(g) /\ g[i] = h[i]
  BY <1>2
<1>4. c.since \in 1 .. Len(h) => c.since \in 1 .. Len(g)
  BY <1>2
<1>5. Found(c, g)
  BY <1>3 DEF CallOK, Found, Kinds
<1> QED
  BY <1>1, <1>4, <1>5 DEF CallOK

(* One call takes a step.                                                         *)
LEMMA OneJjCall ==
    ASSUME JjInv, past' \in Seq(Moments), past' # <<>>, NEW p \in JjCalls, NEW c,
           jjCalls' = [jjCalls EXCEPT ![p] = c], CallOK(c, past'),
           past' = past \/ \E m \in Moments : past' = Append(past, m)
    PROVE  JjInv'
<1>1. \A q \in JjCalls : CallOK(jjCalls[q], past')
  BY CallKept DEF JjInv
<1>2. DOMAIN jjCalls' = JjCalls /\ \A q \in JjCalls : jjCalls'[q] = IF q = p THEN c ELSE jjCalls[q]
  BY DEF JjInv
<1> QED
  BY <1>1, <1>2 DEF JjInv

(* The files move on, no call does.                                               *)
LEMMA FilesMove ==
    ASSUME JjInv, jjCalls' = jjCalls, NEW m \in Moments, past' = Append(past, m)
    PROVE  JjInv'
<1>1. past \in Seq(Moments) /\ past' \in Seq(Moments) /\ past' # <<>>
  BY AppendProperties DEF JjInv
<1>2. \A q \in JjCalls : CallOK(jjCalls[q], past')
  BY <1>1, CallKept DEF JjInv
<1> QED
  BY <1>1, <1>2 DEF JjInv

LEMMA PresentMoment ==
    ASSUME JjInv
    PROVE  /\ Len(past) \in Nat \ {0} /\ Present = past[Len(past)] /\ Present \in Moments
           /\ \A i \in DOMAIN past : past[i] \in Moments
<1>1. past \in Seq(Moments) /\ past # <<>>
  BY DEF JjInv
<1>2. Len(past) \in Nat \ {0} /\ DOMAIN past = 1 .. Len(past) /\ \A i \in DOMAIN past : past[i] \in Moments
  BY <1>1, EmptySeq, LenProperties, ElementOfSeq
<1>3. Present = past[Len(past)]
  BY <1>1 DEF Present
<1> QED
  BY <1>2, <1>3

LEMMA JjInvInit == JjInit => JjInv
<1> SUFFICES ASSUME JjInit PROVE JjInv
  OBVIOUS
<1>1. Clean \in Trees
  BY DEF Clean, Trees, JjFiles, FileContents, Texts
<1>2. PICK m : m = [disk |-> Clean, parent |-> Clean]
  OBVIOUS
<1>3. m \in Moments
  BY <1>1, <1>2 DEF Moments
<1>4. past = <<m>>
  BY <1>2 DEF JjInit
<1>5. past \in Seq(Moments) /\ past # <<>>
  BY <1>3, <1>4
<1>6. DOMAIN NewCall = CallFields /\ NewCall.at = "idle"
  BY DEF NewCall, CallFields
<1>7. CallOK(NewCall, past)
  BY <1>6 DEF CallOK, Found
<1> QED
  BY <1>5, <1>7 DEF JjInv, JjInit

(* A step keeps what was found true.                                              *)
LEMMA JjInvStep == JjInv /\ [JjNext]_jjVars => JjInv'
<1> SUFFICES ASSUME JjInv, [JjNext]_jjVars PROVE JjInv'
  OBVIOUS
<1>1. /\ past \in Seq(Moments) /\ past # <<>> /\ DOMAIN jjCalls = JjCalls
      /\ \A p \in JjCalls : CallOK(jjCalls[p], past) /\ DOMAIN jjCalls[p] = CallFields
  BY DEF JjInv, CallOK
<1>2. /\ Len(past) \in Nat \ {0} /\ Present = past[Len(past)] /\ Present \in Moments
      /\ \A i \in DOMAIN past : past[i] \in Moments
  BY PresentMoment
<1>3. \A m \in Moments : Append(past, m) \in Seq(Moments) /\ Append(past, m) # <<>>
  BY <1>1, AppendProperties
<1>4. ASSUME NEW p \in JjCalls, NEW k \in Kinds, JjCallArrives(p, k) PROVE JjInv'
  <2>1. PICK c : c = [NewCall EXCEPT !.at = "asked", !.kind = k, !.since = Len(past)]
    OBVIOUS
  <2>2. jjCalls' = [jjCalls EXCEPT ![p] = c] /\ past' = past
    BY <1>4, <2>1 DEF JjCallArrives
  <2>3. DOMAIN c = CallFields /\ c.at = "asked" /\ c.kind = k /\ c.since = Len(past)
    BY <2>1 DEF NewCall, CallFields
  <2>4. CallOK(c, past)
    BY <1>2, <2>3 DEF CallOK, Found
  <2> QED
    BY <1>1, <2>2, <2>4, OneJjCall
<1>5. ASSUME NEW p \in JjCalls, OpenRepo(p) PROVE JjInv'
  <2>1. PICK c : c = [jjCalls[p] EXCEPT !.at = "opened", !.op = head.op, !.base = head.tree]
    OBVIOUS
  <2>2. jjCalls' = [jjCalls EXCEPT ![p] = c] /\ past' = past /\ jjCalls[p].at = "asked" /\ jjCalls[p].kind = "read"
    BY <1>1, <1>5, <2>1 DEF OpenRepo
  <2>3. DOMAIN c = CallFields /\ c.at = "opened" /\ c.kind = "read" /\ c.since = jjCalls[p].since
    BY <1>1, <2>1, <2>2 DEF CallFields
  <2>4. CallOK(c, past)
    BY <1>1, <2>2, <2>3 DEF CallOK, Found
  <2> QED
    BY <1>1, <2>2, <2>4, OneJjCall
<1>6. ASSUME NEW p \in JjCalls, LockWorkingCopy(p) PROVE JjInv'
  <2>1. PICK c : c = [jjCalls[p] EXCEPT !.at = "locked"]
    OBVIOUS
  <2>2. jjCalls' = [jjCalls EXCEPT ![p] = c] /\ past' = past /\ jjCalls[p].at = "opened"
    BY <1>1, <1>6, <2>1 DEF LockWorkingCopy, JjCallTo
  <2>3. DOMAIN c = CallFields /\ c.at = "locked" /\ c.kind = jjCalls[p].kind /\ c.since = jjCalls[p].since
    BY <1>1, <2>1 DEF CallFields
  <2>4. CallOK(c, past)
    BY <1>1, <2>2, <2>3 DEF CallOK, Found
  <2> QED
    BY <1>1, <2>2, <2>4, OneJjCall
<1>7. ASSUME NEW p \in JjCalls, SnapshotAndReload(p) PROVE JjInv'
  <2>1. PICK c : c = [jjCalls[p] EXCEPT !.at = "answered", !.tree = Present.disk]
    OBVIOUS
  <2>2. jjCalls' = [jjCalls EXCEPT ![p] = c] /\ past' = past /\ jjCalls[p].at = "locked"
    BY <1>1, <1>7, <2>1 DEF SnapshotAndReload
  <2>3. /\ DOMAIN c = CallFields /\ c.at = "answered" /\ c.kind = "read" /\ c.since = jjCalls[p].since
        /\ c.tree = past[Len(past)].disk /\ c.since \in 1 .. Len(past)
    BY <1>1, <1>2, <2>1, <2>2 DEF CallFields, CallOK
  <2>4. Len(past) \in c.since .. Len(past)
    BY <1>2, <2>3
  <2>5. CallOK(c, past)
    BY <2>3, <2>4 DEF CallOK, Found, Kinds
  <2> QED
    BY <1>1, <2>2, <2>5, OneJjCall
<1>8. ASSUME NEW p \in JjCalls, JjCallFails(p) PROVE JjInv'
  <2>1. PICK c : c = [jjCalls[p] EXCEPT !.at = "failed"]
    OBVIOUS
  <2>2. jjCalls' = [jjCalls EXCEPT ![p] = c] /\ past' = past /\ jjCalls[p].at # "idle"
    BY <1>1, <1>8, <2>1 DEF JjCallFails, JjCallTo
  <2>3. DOMAIN c = CallFields /\ c.at = "failed" /\ c.kind = jjCalls[p].kind /\ c.since = jjCalls[p].since
    BY <1>1, <2>1 DEF CallFields
  <2>4. CallOK(c, past)
    BY <1>1, <2>2, <2>3 DEF CallOK, Found
  <2> QED
    BY <1>1, <2>2, <2>4, OneJjCall
<1>9. ASSUME NEW p \in JjCalls, RunDiff(p) PROVE JjInv'
  <2>1. PICK entries : entries = ParseGitDiff(GitDiff(Present.parent, Present.disk))
    OBVIOUS
  <2>2. PICK now \in {"sizing", "answered"} :
           now = IF \E i \in DOMAIN entries : entries[i].is = "binary" THEN "sizing" ELSE "answered"
    OBVIOUS
  <2>3. PICK c : c = [jjCalls[p] EXCEPT !.entries = entries, !.at = now]
    OBVIOUS
  <2>4. jjCalls' = [jjCalls EXCEPT ![p] = c] /\ past' = past /\ jjCalls[p].at = "asked" /\ jjCalls[p].kind = "diff"
    BY <1>1, <1>9, <2>1, <2>2, <2>3 DEF RunDiff
  <2>5. Present.parent \in Trees /\ Present.disk \in Trees
    BY <1>2 DEF Moments
  <2>6. entries = Entries(Present.parent, Present.disk)
    BY <2>1, <2>5, DiffsAreParsed DEF Trees
  <2>7. /\ DOMAIN c = CallFields /\ c.at \in {"sizing", "answered"} /\ c.kind = "diff" /\ c.since = jjCalls[p].since
        /\ c.entries = entries /\ c.since \in 1 .. Len(past)
    BY <1>1, <2>3, <2>4 DEF CallFields, CallOK
  <2>8. Len(past) \in c.since .. Len(past) /\ c.entries = Entries(past[Len(past)].parent, past[Len(past)].disk)
    BY <1>2, <2>6, <2>7
  <2>9. CallOK(c, past)
    BY <2>7, <2>8 DEF CallOK, Found, Kinds
  <2> QED
    BY <1>1, <2>4, <2>9, OneJjCall
<1>10. ASSUME NEW p \in JjCalls, SizeBinaries(p) PROVE JjInv'
  <2>1. PICK now \in {"failed", "answered"} : JjCallTo(p, now)
    BY <1>10 DEF SizeBinaries
  <2>2. PICK c : c = [jjCalls[p] EXCEPT !.at = now]
    OBVIOUS
  <2>3. jjCalls' = [jjCalls EXCEPT ![p] = c] /\ past' = past /\ jjCalls[p].at = "sizing"
    BY <1>1, <1>10, <2>1, <2>2 DEF SizeBinaries, JjCallTo
  <2>4. /\ DOMAIN c = CallFields /\ c.at = now /\ c.kind = jjCalls[p].kind /\ c.since = jjCalls[p].since
        /\ c.entries = jjCalls[p].entries
    BY <1>1, <2>2 DEF CallFields
  <2>5. CallOK(c, past)
    BY <1>1, <2>3, <2>4 DEF CallOK, Found
  <2> QED
    BY <1>1, <2>3, <2>5, OneJjCall
<1>11. ASSUME NEW p \in JjCalls, RevertOrRestore(p) PROVE JjInv'
  <2>1. PICK i \in DOMAIN past : past' = Append(past, [disk |-> past[i].disk, parent |-> past[i].parent])
    BY <1>11 DEF RevertOrRestore, Moves
  <2>2. PICK m : m = [disk |-> past[i].disk, parent |-> past[i].parent]
    OBVIOUS
  <2>3. m \in Moments
    BY <1>2, <2>2 DEF Moments
  <2>4. PICK c : c = [jjCalls[p] EXCEPT !.at = "published"]
    OBVIOUS
  <2>5. jjCalls' = [jjCalls EXCEPT ![p] = c] /\ jjCalls[p].at = "asked" /\ jjCalls[p].kind = "undo"
    BY <1>1, <1>11, <2>4 DEF RevertOrRestore, JjCallTo
  <2>6. DOMAIN c = CallFields /\ c.at = "published" /\ c.kind = "undo" /\ c.since = jjCalls[p].since
    BY <1>1, <2>4, <2>5 DEF CallFields
  <2>7. CallOK(c, past)
    BY <1>1, <2>5, <2>6 DEF CallOK, Found
  <2>8. CallOK(c, past')
    BY <1>1, <2>1, <2>2, <2>3, <2>7, CallKept
  <2> QED
    BY <1>3, <2>1, <2>2, <2>3, <2>5, <2>8, OneJjCall
<1>12. ASSUME NEW p \in JjCalls, CurrentOpId(p) PROVE JjInv'
  <2>1. PICK c : c = [jjCalls[p] EXCEPT !.at = "answered", !.op = head.op]
    OBVIOUS
  <2>2. jjCalls' = [jjCalls EXCEPT ![p] = c] /\ past' = past /\ jjCalls[p].at = "published"
    BY <1>1, <1>12, <2>1 DEF CurrentOpId
  <2>3. DOMAIN c = CallFields /\ c.at = "answered" /\ c.kind = jjCalls[p].kind /\ c.since = jjCalls[p].since
    BY <1>1, <2>1 DEF CallFields
  <2>4. CallOK(c, past)
    BY <1>1, <2>2, <2>3 DEF CallOK, Found
  <2> QED
    BY <1>1, <2>2, <2>4, OneJjCall
<1>13. ASSUME NEW f \in JjFiles, NEW value \in FileValues, AgentWrites(f, value) PROVE JjInv'
  <2>1. PICK disk : disk = [Present.disk EXCEPT ![f] = value]
    OBVIOUS
  <2>2. disk \in Trees /\ Present.parent \in Trees
    BY <1>2, <2>1, JjOpsAssumption DEF Moments, Trees
  <2>3. PICK m : m = [disk |-> disk, parent |-> Present.parent]
    OBVIOUS
  <2>4. m \in Moments
    BY <2>2, <2>3 DEF Moments
  <2>5. past' = Append(past, m) /\ jjCalls' = jjCalls
    BY <1>13, <2>1, <2>3 DEF AgentWrites, Moves
  <2> QED
    BY <2>4, <2>5, FilesMove
<1>14. CASE AgentCommits
  <2>1. PICK m : m = [disk |-> Present.disk, parent |-> Present.disk]
    OBVIOUS
  <2>2. m \in Moments
    BY <1>2, <2>1 DEF Moments
  <2>3. past' = Append(past, m) /\ jjCalls' = jjCalls
    BY <1>14, <2>1 DEF AgentCommits, Moves
  <2> QED
    BY <2>2, <2>3, FilesMove
<1>15. CASE UNCHANGED jjVars
  BY <1>1, <1>15 DEF JjInv, jjVars
<1> QED
  BY <1>4, <1>5, <1>6, <1>7, <1>8, <1>9, <1>10, <1>11, <1>12, <1>13, <1>14, <1>15 DEF JjNext

(* AnswersAreTrue: what a call says of the files is true of them at some moment        *)
(* between the call and its answer, whatever agents write or commit and other calls    *)
(* snapshot, undo or restore in between; a snapshot is never older than the lock it     *)
(* was taken under, and the entries of a diff are those of the trees jj compared.       *)
THEOREM AnswersTrue == JjSpec => []AnswersAreTrue
<1>1. JjInv => AnswersAreTrue
  <2> SUFFICES ASSUME JjInv, NEW p \in JjCalls, jjCalls[p].at = "answered", jjCalls[p].kind # "undo"
               PROVE  LET during == {past[i] : i \in jjCalls[p].since .. Len(past)} IN
                      IF jjCalls[p].kind = "diff"
                      THEN \E moment \in during : jjCalls[p].entries = Entries(moment.parent, moment.disk)
                      ELSE \E moment \in during : jjCalls[p].tree = moment.disk
    BY DEF AnswersAreTrue
  <2>1. CallOK(jjCalls[p], past)
    BY DEF JjInv
  <2>2. jjCalls[p].kind \in {"read", "diff"}
    BY <2>1 DEF CallOK, Kinds
  <2> QED
    BY <2>1, <2>2 DEF CallOK, Found
<1> QED
  BY <1>1, JjInvInit, JjInvStep, PTL DEF JjSpec

(* Who holds the lock of the working copy knows it, alone; operations are numbered. *)
JjLockInv ==
    /\ DOMAIN jjCalls = JjCalls /\ head.op \in Nat /\ DOMAIN head = {"op", "tree"}
    /\ \A p \in JjCalls : DOMAIN jjCalls[p] = CallFields /\ jjCalls[p].op \in Nat
    /\ JjTypeOK

(* A step of call p, which is then at now and has seen operation seen.              *)
LEMMA JjCallSteps ==
    ASSUME JjLockInv, NEW p \in JjCalls, NEW c, DOMAIN c = CallFields, jjCalls' = [jjCalls EXCEPT ![p] = c],
           c.at \in {"idle", "asked", "opened", "locked", "sizing", "published", "answered", "failed"},
           c.op \in Nat, c.op <= head'.op, DOMAIN head' = {"op", "tree"}, head'.op \in Nat, head.op <= head'.op,
           \/ wcLock' = wcLock /\ (c.at = "locked" <=> jjCalls[p].at = "locked")
           \/ wcLock' = p /\ c.at = "locked" /\ wcLock = None
           \/ wcLock' = None /\ c.at # "locked" /\ wcLock = p
    PROVE  JjLockInv'
<1>1. \A q \in JjCalls : jjCalls'[q] = IF q = p THEN c ELSE jjCalls[q]
  BY DEF JjLockInv
<1>2. None \notin JjCalls
  BY JjOpsAssumption DEF JjCalls
<1>3. \A q \in JjCalls : jjCalls'[q].op \in Nat /\ jjCalls'[q].op <= head'.op /\ DOMAIN jjCalls'[q] = CallFields
  BY <1>1 DEF JjLockInv, JjTypeOK
<1>4. \A q \in JjCalls : jjCalls'[q].at \in {"idle", "asked", "opened", "locked", "sizing", "published", "answered", "failed"}
  BY <1>1 DEF JjLockInv, JjTypeOK
<1>5. \A q \in JjCalls : (jjCalls'[q].at = "locked") = (wcLock' = q)
  BY <1>1, <1>2 DEF JjLockInv, JjTypeOK
<1>6. wcLock' = None \/ wcLock' \in JjCalls
  BY DEF JjLockInv, JjTypeOK
<1>7. DOMAIN jjCalls' = JjCalls
  BY DEF JjLockInv
<1> QED
  BY <1>3, <1>4, <1>5, <1>6, <1>7 DEF JjLockInv, JjTypeOK

(* Calls take and release the lock, operations only get younger.                    *)
LEMMA JjLockInvStep == JjLockInv /\ [JjNext]_jjVars => JjLockInv'
<1> SUFFICES ASSUME JjLockInv, [JjNext]_jjVars PROVE JjLockInv'
  OBVIOUS
<1>1. /\ DOMAIN jjCalls = JjCalls /\ head.op \in Nat /\ DOMAIN head = {"op", "tree"} /\ JjTypeOK
      /\ \A p \in JjCalls : /\ DOMAIN jjCalls[p] = CallFields /\ jjCalls[p].op \in Nat /\ jjCalls[p].op <= head.op
                            /\ (jjCalls[p].at = "locked") = (wcLock = p)
  BY DEF JjLockInv, JjTypeOK
<1>2. None \notin JjCalls
  BY JjOpsAssumption DEF JjCalls
<1>3. ASSUME NEW p \in JjCalls, NEW k \in Kinds, JjCallArrives(p, k) PROVE JjLockInv'
  <2>1. PICK c : c = [NewCall EXCEPT !.at = "asked", !.kind = k, !.since = Len(past)]
    OBVIOUS
  <2>2. DOMAIN c = CallFields /\ c.at = "asked" /\ c.op = 0
    BY <2>1 DEF NewCall, CallFields
  <2>3. /\ jjCalls' = [jjCalls EXCEPT ![p] = c] /\ UNCHANGED <<head, wcLock>> /\ jjCalls[p].at = "idle"
    BY <1>3, <2>1 DEF JjCallArrives, Arrived
  <2>4. DOMAIN head' = {"op", "tree"} /\ head'.op \in Nat /\ head.op <= head'.op /\ c.op \in Nat /\ c.op <= head'.op
    BY <1>1, <2>2, <2>3
  <2> QED
    BY <1>1, <2>2, <2>3, <2>4, JjCallSteps
<1>4. ASSUME NEW p \in JjCalls, OpenRepo(p) PROVE JjLockInv'
  <2>1. PICK c : c = [jjCalls[p] EXCEPT !.at = "opened", !.op = head.op, !.base = head.tree]
    OBVIOUS
  <2>2. DOMAIN c = CallFields /\ c.at = "opened" /\ c.op = head.op
    BY <1>1, <2>1 DEF CallFields
  <2>3. jjCalls' = [jjCalls EXCEPT ![p] = c] /\ UNCHANGED <<head, wcLock>> /\ jjCalls[p].at = "asked"
    BY <1>1, <1>4, <2>1 DEF OpenRepo
  <2>4. DOMAIN head' = {"op", "tree"} /\ head'.op \in Nat /\ head.op <= head'.op /\ c.op \in Nat /\ c.op <= head'.op
    BY <1>1, <2>2, <2>3
  <2> QED
    BY <1>1, <2>2, <2>3, <2>4, JjCallSteps
<1>5. ASSUME NEW p \in JjCalls, LockWorkingCopy(p) PROVE JjLockInv'
  <2>1. PICK c : c = [jjCalls[p] EXCEPT !.at = "locked"]
    OBVIOUS
  <2>2. DOMAIN c = CallFields /\ c.at = "locked" /\ c.op = jjCalls[p].op
    BY <1>1, <2>1 DEF CallFields
  <2>3. jjCalls' = [jjCalls EXCEPT ![p] = c] /\ UNCHANGED head /\ wcLock = None /\ wcLock' = p
    BY <1>1, <1>5, <2>1 DEF LockWorkingCopy, JjCallTo
  <2>4. DOMAIN head' = {"op", "tree"} /\ head'.op \in Nat /\ head.op <= head'.op /\ c.op \in Nat /\ c.op <= head'.op
    BY <1>1, <2>2, <2>3
  <2> QED
    BY <1>1, <2>2, <2>3, <2>4, JjCallSteps
<1>6. ASSUME NEW p \in JjCalls, SnapshotAndReload(p) PROVE JjLockInv'
  <2>1. PICK c : c = [jjCalls[p] EXCEPT !.at = "answered", !.tree = Present.disk]
    OBVIOUS
  <2>2. DOMAIN c = CallFields /\ c.at = "answered" /\ c.op = jjCalls[p].op
    BY <1>1, <2>1 DEF CallFields
  <2>3. jjCalls' = [jjCalls EXCEPT ![p] = c] /\ wcLock' = None /\ jjCalls[p].at = "locked"
    BY <1>1, <1>6, <2>1 DEF SnapshotAndReload
  <2>4. head' = head \/ \E tree : head' = [op |-> head.op + 1, tree |-> tree]
    BY <1>6 DEF SnapshotAndReload, Publish
  <2>5. DOMAIN head' = {"op", "tree"} /\ head'.op \in Nat /\ head.op <= head'.op
    BY <1>1, <2>4
  <2>6. wcLock = p /\ c.op \in Nat /\ c.op <= head'.op
    BY <1>1, <2>2, <2>3, <2>5
  <2> QED
    BY <2>2, <2>3, <2>5, <2>6, JjCallSteps
<1>7. ASSUME NEW p \in JjCalls, JjCallFails(p) PROVE JjLockInv'
  <2>1. PICK c : c = [jjCalls[p] EXCEPT !.at = "failed"]
    OBVIOUS
  <2>2. DOMAIN c = CallFields /\ c.at = "failed" /\ c.op = jjCalls[p].op
    BY <1>1, <2>1 DEF CallFields
  <2>3. /\ jjCalls' = [jjCalls EXCEPT ![p] = c] /\ UNCHANGED head
        /\ wcLock' = IF wcLock = p THEN None ELSE wcLock
    BY <1>1, <1>7, <2>1 DEF JjCallFails, JjCallTo
  <2>4. DOMAIN head' = {"op", "tree"} /\ head'.op \in Nat /\ head.op <= head'.op /\ c.op \in Nat /\ c.op <= head'.op
    BY <1>1, <2>2, <2>3
  <2> QED
    BY <1>1, <2>2, <2>3, <2>4, JjCallSteps
<1>8. ASSUME NEW p \in JjCalls, RunDiff(p) PROVE JjLockInv'
  <2>1. PICK entries : entries = ParseGitDiff(GitDiff(Present.parent, Present.disk))
    OBVIOUS
  <2>2. PICK now \in {"sizing", "answered"} :
           now = IF \E i \in DOMAIN entries : entries[i].is = "binary" THEN "sizing" ELSE "answered"
    OBVIOUS
  <2>3. PICK c : c = [jjCalls[p] EXCEPT !.entries = entries, !.at = now]
    OBVIOUS
  <2>4. DOMAIN c = CallFields /\ c.at \in {"sizing", "answered"} /\ c.op = jjCalls[p].op
    BY <1>1, <2>3 DEF CallFields
  <2>5. jjCalls' = [jjCalls EXCEPT ![p] = c] /\ UNCHANGED wcLock /\ jjCalls[p].at = "asked" /\ SnapshotByJj
    BY <1>1, <1>8, <2>1, <2>2, <2>3 DEF RunDiff
  <2>6. DOMAIN head' = {"op", "tree"} /\ head'.op \in Nat /\ head.op <= head'.op
    BY <1>1, <2>5 DEF SnapshotByJj
  <2>7. c.op \in Nat /\ c.op <= head'.op
    BY <1>1, <2>4, <2>6
  <2> QED
    BY <2>4, <2>5, <2>6, <2>7, JjCallSteps
<1>9. ASSUME NEW p \in JjCalls, SizeBinaries(p) PROVE JjLockInv'
  <2>1. PICK now \in {"failed", "answered"} : JjCallTo(p, now)
    BY <1>9 DEF SizeBinaries
  <2>2. PICK c : c = [jjCalls[p] EXCEPT !.at = now]
    OBVIOUS
  <2>3. DOMAIN c = CallFields /\ c.at \in {"failed", "answered"} /\ c.op = jjCalls[p].op
    BY <1>1, <2>2 DEF CallFields
  <2>4. jjCalls' = [jjCalls EXCEPT ![p] = c] /\ UNCHANGED wcLock /\ jjCalls[p].at = "sizing" /\ SnapshotByJj
    BY <1>1, <1>9, <2>1, <2>2 DEF SizeBinaries, JjCallTo
  <2>5. DOMAIN head' = {"op", "tree"} /\ head'.op \in Nat /\ head.op <= head'.op
    BY <1>1, <2>4 DEF SnapshotByJj
  <2>6. c.op \in Nat /\ c.op <= head'.op
    BY <1>1, <2>3, <2>5
  <2> QED
    BY <2>3, <2>4, <2>5, <2>6, JjCallSteps
<1>10. ASSUME NEW p \in JjCalls, RevertOrRestore(p) PROVE JjLockInv'
  <2>1. PICK c : c = [jjCalls[p] EXCEPT !.at = "published"]
    OBVIOUS
  <2>2. DOMAIN c = CallFields /\ c.at = "published" /\ c.op = jjCalls[p].op
    BY <1>1, <2>1 DEF CallFields
  <2>3. /\ jjCalls' = [jjCalls EXCEPT ![p] = c] /\ UNCHANGED wcLock /\ jjCalls[p].at = "asked"
        /\ \E tree : head' = [op |-> head.op + 1, tree |-> tree]
    BY <1>1, <1>10, <2>1 DEF RevertOrRestore, JjCallTo
  <2>4. DOMAIN head' = {"op", "tree"} /\ head'.op \in Nat /\ head.op <= head'.op
    BY <1>1, <2>3
  <2>5. c.op \in Nat /\ c.op <= head'.op
    BY <1>1, <2>2, <2>4
  <2> QED
    BY <2>2, <2>3, <2>4, <2>5, JjCallSteps
<1>11. ASSUME NEW p \in JjCalls, CurrentOpId(p) PROVE JjLockInv'
  <2>1. PICK c : c = [jjCalls[p] EXCEPT !.at = "answered", !.op = head.op]
    OBVIOUS
  <2>2. DOMAIN c = CallFields /\ c.at = "answered" /\ c.op = head.op
    BY <1>1, <2>1 DEF CallFields
  <2>3. jjCalls' = [jjCalls EXCEPT ![p] = c] /\ UNCHANGED <<head, wcLock>> /\ jjCalls[p].at = "published"
    BY <1>1, <1>11, <2>1 DEF CurrentOpId
  <2>4. DOMAIN head' = {"op", "tree"} /\ head'.op \in Nat /\ head.op <= head'.op /\ c.op \in Nat /\ c.op <= head'.op
    BY <1>1, <2>2, <2>3
  <2> QED
    BY <1>1, <2>2, <2>3, <2>4, JjCallSteps
<1>12. ASSUME UNCHANGED <<head, wcLock, jjCalls>> PROVE JjLockInv'
  BY <1>12 DEF JjLockInv, JjTypeOK
<1>13. CASE AgentCommits
  <2>1. UNCHANGED <<wcLock, jjCalls>> /\ head' = [op |-> head.op + 1, tree |-> Present.disk]
    BY <1>13 DEF AgentCommits
  <2>2. DOMAIN head' = {"op", "tree"} /\ head'.op \in Nat /\ head.op <= head'.op
    BY <1>1, <2>1
  <2>3. \A p \in JjCalls : jjCalls'[p].op <= head'.op
    BY <1>1, <2>1, <2>2
  <2> QED
    BY <2>1, <2>2, <2>3 DEF JjLockInv, JjTypeOK
<1>14. CASE (\E f \in JjFiles, value \in FileValues : AgentWrites(f, value)) \/ UNCHANGED jjVars
  BY <1>12, <1>14 DEF AgentWrites, jjVars
<1> QED
  BY <1>3, <1>4, <1>5, <1>6, <1>7, <1>8, <1>9, <1>10, <1>11, <1>13, <1>14 DEF JjNext

(* JjTypeOK: one call at a time holds the lock of the working copy, it is the one that  *)
(* is between taking and releasing it, and no call knows an operation that is not yet.  *)
THEOREM JjTypeCorrect == JjSpec => []JjTypeOK
<1>1. JjInit => JjLockInv
  <2> SUFFICES ASSUME JjInit PROVE JjLockInv
    OBVIOUS
  <2>1. DOMAIN NewCall = CallFields /\ NewCall.at = "idle" /\ NewCall.op = 0
    BY DEF NewCall, CallFields
  <2>2. None \notin JjCalls
    BY JjOpsAssumption DEF JjCalls
  <2> QED
    BY <2>1, <2>2 DEF JjInit, JjLockInv, JjTypeOK
<1> QED
  BY <1>1, JjLockInvStep, PTL DEF JjSpec, JjLockInv

-------------------------------------------------------------------------------
(* Relay enrollment and authentication.                                         *)

TokenStates == {"none", "fresh", "expired", "consumed"}
Admitted == enrolled \cup {c \in AccessCalls : accessAt[c] = "accepted"}

(* OneDevicePerToken is not inductive: a call whose token was accepted has yet to *)
(* enroll.  What is, is that the token of each such call and of each enrolled     *)
(* device is consumed and its own.                                                *)
TokenInv ==
    /\ DOMAIN accessAt = AccessCalls /\ DOMAIN presented = AccessCalls
    /\ tokens \in [EnrollTokens -> TokenStates]
    /\ enrolled \subseteq {c \in AccessCalls : accessAt[c] # "idle"}
    /\ \A c \in Admitted : presented[c] \in EnrollTokens /\ tokens[presented[c]] = "consumed"
    /\ \A c, d \in Admitted : presented[c] = presented[d] => c = d

(* Nothing happens to the invariant when no call is newly admitted, none that is  *)
(* admitted shows something else, and consumed tokens stay consumed.              *)
LEMMA NoneAdmitted ==
    ASSUME TokenInv,
           DOMAIN accessAt' = AccessCalls, DOMAIN presented' = AccessCalls,
           tokens' \in [EnrollTokens -> TokenStates],
           enrolled' \subseteq enrolled,
           \A c \in AccessCalls : accessAt'[c] = "accepted" => accessAt[c] = "accepted",
           \A c \in AccessCalls : accessAt'[c] = "idle" => accessAt[c] = "idle",
           \A c \in AccessCalls : accessAt[c] # "idle" => presented'[c] = presented[c],
           \A t \in EnrollTokens : tokens[t] = "consumed" => tokens'[t] = "consumed"
    PROVE  TokenInv'
<1>1. Admitted' \subseteq Admitted
  BY DEF Admitted
<1>2. \A c \in Admitted : c \in AccessCalls /\ accessAt[c] # "idle"
  BY DEF Admitted, TokenInv
<1>3. \A c \in Admitted' : presented'[c] = presented[c]
  BY <1>1, <1>2
<1> QED
  BY <1>1, <1>2, <1>3 DEF TokenInv

(* A call that moves on, to a label that neither admits it nor starts it anew,    *)
(* leaves the tokens and the devices alone.                                       *)
LEMMA AccessMoves ==
    ASSUME TokenInv, NEW c \in AccessCalls, NEW label,
           label \notin {"idle", "accepted"}, StepTo(c, label),
           UNCHANGED <<tokens, enrolled>>,
           UNCHANGED presented \/ (\E k, shows : Begins(c, k, shows))
    PROVE  TokenInv'
<1>1. /\ accessAt' = [accessAt EXCEPT ![c] = label]
      /\ DOMAIN accessAt = AccessCalls /\ DOMAIN presented = AccessCalls
  BY DEF StepTo, TokenInv
<1>2. \A d \in AccessCalls : accessAt'[d] = IF d = c THEN label ELSE accessAt[d]
  BY <1>1
<1>3. /\ DOMAIN presented' = AccessCalls
      /\ \A d \in AccessCalls : accessAt[d] # "idle" => presented'[d] = presented[d]
  <2>1. CASE UNCHANGED presented
    BY <2>1, <1>1
  <2>2. ASSUME NEW k, NEW shows, Begins(c, k, shows)
        PROVE  /\ DOMAIN presented' = AccessCalls
               /\ \A d \in AccessCalls : accessAt[d] # "idle" => presented'[d] = presented[d]
    <3>1. accessAt[c] = "idle" /\ presented' = [presented EXCEPT ![c] = shows]
      BY <2>2 DEF Begins, Arrives
    <3> QED
      BY <3>1, <1>1
  <2> QED
    BY <2>1, <2>2
<1>4. DOMAIN accessAt' = AccessCalls
  BY <1>1
<1>5. tokens' \in [EnrollTokens -> TokenStates]
  BY DEF TokenInv
<1>6. /\ \A d \in AccessCalls : accessAt'[d] = "accepted" => accessAt[d] = "accepted"
      /\ \A d \in AccessCalls : accessAt'[d] = "idle" => accessAt[d] = "idle"
  BY <1>2
<1> QED
  BY <1>3, <1>4, <1>5, <1>6, NoneAdmitted

(* A step that touches no call and no device, and at most spends tokens.          *)
LEMMA TokensOnly ==
    ASSUME TokenInv, UNCHANGED <<accessAt, presented, enrolled>>,
           tokens' \in [EnrollTokens -> TokenStates],
           \A t \in EnrollTokens : tokens[t] = "consumed" => tokens'[t] = "consumed"
    PROVE  TokenInv'
<1>1. DOMAIN accessAt' = AccessCalls /\ DOMAIN presented' = AccessCalls
  BY DEF TokenInv
<1> QED
  BY <1>1, NoneAdmitted

(* The relay accepts a token: it was fresh, so nobody had it before.              *)
LEMMA Consumes ==
    ASSUME TokenInv, NEW c \in AccessCalls, NEW t \in EnrollTokens, NEW k, ConsumeToken(c, t, k)
    PROVE  TokenInv'
<1>1. /\ accessAt[c] = "idle"
      /\ presented' = [presented EXCEPT ![c] = t]
      /\ UNCHANGED enrolled
      /\ DOMAIN accessAt = AccessCalls /\ DOMAIN presented = AccessCalls
  BY DEF ConsumeToken, Begins, Arrives, enrollVars, TokenInv
<1>2. CASE ~Accepted(t, k)
  <2>1. StepTo(c, "refused") /\ UNCHANGED <<tokens, enrolled>> /\ Begins(c, k, t)
    BY <1>1, <1>2 DEF ConsumeToken
  <2>2. \E j, shows : Begins(c, j, shows)
    BY <2>1
  <2> QED
    BY <2>1, <2>2, AccessMoves
<1>3. CASE Accepted(t, k)
  <2>1. /\ accessAt' = [accessAt EXCEPT ![c] = "accepted"]
        /\ tokens' = [tokens EXCEPT ![t] = "consumed"]
        /\ tokens[t] = "fresh"
    BY <1>3 DEF ConsumeToken, StepTo, Accepted
  <2>2. Admitted' \subseteq Admitted \cup {c} /\ c \notin Admitted
    BY <1>1, <2>1 DEF Admitted, TokenInv
  <2>3. \A d \in Admitted : /\ d \in AccessCalls /\ d # c /\ presented'[d] = presented[d]
                            /\ presented[d] \in EnrollTokens /\ presented[d] # t
    BY <1>1, <2>1, <2>2 DEF Admitted, TokenInv
  <2>4. presented'[c] = t /\ tokens'[t] = "consumed"
    BY <1>1, <2>1 DEF TokenInv
  <2>5. \A d \in Admitted : tokens'[presented[d]] = "consumed"
    BY <2>1, <2>3 DEF TokenInv
  <2>6. /\ DOMAIN accessAt' = AccessCalls /\ DOMAIN presented' = AccessCalls
        /\ tokens' \in [EnrollTokens -> TokenStates]
        /\ enrolled' \subseteq {d \in AccessCalls : accessAt'[d] # "idle"}
    BY <1>1, <2>1 DEF TokenInv, TokenStates
  <2>7. \A d \in Admitted' : presented'[d] \in EnrollTokens /\ tokens'[presented'[d]] = "consumed"
    BY <2>2, <2>3, <2>4, <2>5
  <2>8. \A d, e \in Admitted : presented[d] = presented[e] => d = e
    BY DEF TokenInv
  <2>9. \A d, e \in Admitted' : presented'[d] = presented'[e] => d = e
    BY <2>2, <2>3, <2>4, <2>8
  <2> QED
    BY <2>6, <2>7, <2>9 DEF TokenInv
<1> QED
  BY <1>2, <1>3

(* An accepted call enrolls its device, or is refused for a malformed key.        *)
LEMMA Enrolls ==
    ASSUME TokenInv, NEW c \in AccessCalls, Enroll(c)
    PROVE  TokenInv'
<1>1. /\ accessAt[c] = "accepted"
      /\ UNCHANGED <<tokens, presented>>
      /\ DOMAIN accessAt = AccessCalls
  BY DEF Enroll, Stands, TokenInv
<1>2. CASE UNCHANGED enrolled /\ StepTo(c, "refused")
  BY <1>1, <1>2, AccessMoves
<1>3. CASE enrolled' = enrolled \cup {c} /\ StepTo(c, "done")
  <2>1. accessAt' = [accessAt EXCEPT ![c] = "done"]
    BY <1>3 DEF StepTo
  <2>2. Admitted' \subseteq Admitted
    BY <1>1, <1>3, <2>1 DEF Admitted
  <2>3. enrolled' \subseteq {d \in AccessCalls : accessAt'[d] # "idle"}
    BY <1>1, <1>3, <2>1 DEF TokenInv
  <2> QED
    BY <1>1, <2>1, <2>2, <2>3 DEF TokenInv
<1> QED
  BY <1>2, <1>3 DEF Enroll

(* A restart forgets the devices, and takes every token it has forgotten for a    *)
(* consumed one; calls under way are cut off.                                     *)
LEMMA Restarts ==
    ASSUME TokenInv, RestartRelay
    PROVE  TokenInv'
<1>1. /\ accessAt' = [c \in AccessCalls |->
            IF accessAt[c] \in {"idle", "ceremony", "done"} THEN accessAt[c] ELSE "closed"]
      /\ tokens' = [t \in EnrollTokens |-> IF tokens[t] = "none" THEN "none" ELSE "consumed"]
      /\ enrolled' = {} /\ presented' = presented
  BY DEF RestartRelay
<1>2. \A c \in AccessCalls : accessAt'[c] # "accepted"
  BY <1>1
<1>3. Admitted' = {}
  BY <1>1, <1>2 DEF Admitted
<1>4. tokens' \in [EnrollTokens -> TokenStates] /\ DOMAIN accessAt' = AccessCalls
  BY <1>1 DEF TokenStates
<1> QED
  BY <1>1, <1>3, <1>4 DEF TokenInv

(* A revocation closes connections, and takes no token back.                      *)
LEMMA Revokes ==
    ASSUME TokenInv, NEW id, Revoke(id)
    PROVE  TokenInv'
<1>1. /\ accessAt' = [c \in AccessCalls |-> IF c \in Cut(id) THEN "closed" ELSE accessAt[c]]
      /\ UNCHANGED <<tokens, enrolled, presented>>
  BY DEF Revoke, CutOff
<1>2. /\ \A d \in AccessCalls : accessAt'[d] = "accepted" => accessAt[d] = "accepted"
      /\ \A d \in AccessCalls : accessAt'[d] = "idle" => accessAt[d] = "idle"
      /\ DOMAIN accessAt' = AccessCalls
  BY <1>1
<1>3. tokens' \in [EnrollTokens -> TokenStates] /\ DOMAIN presented' = AccessCalls
  BY <1>1 DEF TokenInv
<1> QED
  BY <1>1, <1>2, <1>3, NoneAdmitted

(* Every step of the relay keeps the invariant.                                   *)
LEMMA TokenStep == TokenInv /\ [AccessNext]_accessVars => TokenInv'
<1> SUFFICES ASSUME TokenInv, [AccessNext]_accessVars PROVE TokenInv'
  OBVIOUS
<1>1. ASSUME NEW c \in AccessCalls,
             StartCeremony(c) \/ StartRefused(c) \/ \E d \in AccessCalls :
                AuthenticateDevice(c, d) \/ AuthenticatePhone(c, d)
      PROVE  TokenInv'
  <2>1. /\ UNCHANGED <<tokens, enrolled>>
        /\ \E k, shows : Begins(c, k, shows)
        /\ \E label : label \notin {"idle", "accepted"} /\ StepTo(c, label)
    <3>1. CASE StartCeremony(c) \/ StartRefused(c)
      BY <3>1 DEF StartCeremony, StartRefused, enrollVars
    <3>2. CASE \E d \in AccessCalls : AuthenticateDevice(c, d)
      BY <3>2 DEF AuthenticateDevice, enrollVars
    <3>3. ASSUME NEW d \in AccessCalls, AuthenticatePhone(c, d)
          PROVE  /\ UNCHANGED <<tokens, enrolled>> /\ Begins(c, "phone", d)
                 /\ StepTo(c, "authenticated") \/ StepTo(c, "refused")
      BY <3>3 DEF AuthenticatePhone, enrollVars
    <3> QED
      BY <1>1, <3>1, <3>2, <3>3
  <2> QED
    BY <2>1, AccessMoves
<1>2. ASSUME NEW c \in AccessCalls,
             FinishCeremony(c) \/ StorePasskey(c) \/ MintSession(c) \/ GoOnline(c) \/ GoOffline(c)
      PROVE  TokenInv'
  <2>1. /\ UNCHANGED <<tokens, enrolled, presented>>
        /\ \E label : label \notin {"idle", "accepted"} /\ StepTo(c, label)
    BY <1>2 DEF FinishCeremony, StorePasskey, MintSession, GoOnline, GoOffline, enrollVars
  <2> QED
    BY <2>1, AccessMoves
<1>3. ASSUME NEW c \in AccessCalls, CeremonyAges(c) PROVE TokenInv'
  BY <1>3, TokensOnly DEF CeremonyAges, enrollVars, accessCallVars, TokenInv
<1>4. ASSUME NEW p, SessionExpires(p) PROVE TokenInv'
  BY <1>4, TokensOnly DEF SessionExpires, enrollVars, accessCallVars, TokenInv
<1>5. ASSUME NEW t \in EnrollTokens, TokenExpires(t) PROVE TokenInv'
  BY <1>5, TokensOnly DEF TokenExpires, accessCallVars, TokenInv, TokenStates
<1>6. ASSUME NEW t \in EnrollTokens, NEW k, IssueToken(t, k) PROVE TokenInv'
  BY <1>6, TokensOnly DEF IssueToken, accessCallVars, TokenInv, TokenStates
<1>7. CASE UNCHANGED accessVars
  BY <1>7, TokensOnly DEF accessVars, enrollVars, accessCallVars, TokenInv
<1>8. ASSUME NEW c \in AccessCalls, Revoke(c) PROVE TokenInv'
  BY <1>8, Revokes
<1>9. ASSUME NEW c \in AccessCalls, AccessCall(c) PROVE TokenInv'
  BY <1>9, <1>1, <1>2, <1>3, Enrolls, Consumes DEF AccessCall
<1> QED
  BY <1>4, <1>5, <1>6, <1>7, <1>8, <1>9, Restarts DEF AccessNext

(* However enrollments overlap, and whatever tokens expire or are forgotten, a    *)
(* token puts at most one device on record.                                       *)
THEOREM OneDeviceEach == AccessSpec => []OneDevicePerToken
<1>1. AccessInit => TokenInv
  BY DEF AccessInit, TokenInv, Admitted, TokenStates
<1>2. TokenInv => OneDevicePerToken
  BY DEF TokenInv, Admitted, OneDevicePerToken
<1> QED
  BY <1>1, <1>2, TokenStep, PTL DEF AccessSpec

-------------------------------------------------------------------------------
(* A ceremony that is still to be finished has its challenge kept, unless it is   *)
(* too old or began before the relay restarted.                                   *)
CeremonyInv == \A c \in AccessCalls : Stands(c, "ceremony") => c \in inFlight \cup aged

Undisturbed ==
    \A c \in AccessCalls : Stands(c, "ceremony") /\ accessAt'[c] = "unknown" => c \in aged

(* A step that neither begins nor finishes a ceremony.                            *)
LEMMA OtherSteps ==
    ASSUME CeremonyInv, UNCHANGED <<inFlight, forgotten>>, aged \subseteq aged',
           \A c \in AccessCalls : accessAt'[c] \in {"ceremony", "unknown"} => accessAt'[c] = accessAt[c]
    PROVE  CeremonyInv' /\ Undisturbed
BY DEF CeremonyInv, Undisturbed, Stands

(* A call that moves elsewhere is such a step.                                    *)
LEMMA OtherMoves ==
    ASSUME TokenInv, CeremonyInv, UNCHANGED <<inFlight, aged, forgotten>>,
           NEW c \in AccessCalls, NEW label, label \notin {"ceremony", "unknown"}, StepTo(c, label)
    PROVE  CeremonyInv' /\ Undisturbed
<1>1. accessAt' = [accessAt EXCEPT ![c] = label] /\ DOMAIN accessAt = AccessCalls
  BY DEF StepTo, TokenInv
<1>2. \A d \in AccessCalls : accessAt'[d] \in {"ceremony", "unknown"} => accessAt'[d] = accessAt[d]
  BY <1>1
<1> QED
  BY <1>2, OtherSteps

(* Beginning a ceremony drops no challenge but those that are too old.            *)
LEMMA CeremonyStarts ==
    ASSUME TokenInv, CeremonyInv, NEW c \in AccessCalls, StartCeremony(c)
    PROVE  CeremonyInv' /\ Undisturbed
<1>1. /\ accessAt' = [accessAt EXCEPT ![c] = "ceremony"] /\ DOMAIN accessAt = AccessCalls
      /\ inFlight' = (inFlight \ aged) \cup {c}
      /\ aged' = aged /\ forgotten' = forgotten
  BY DEF StartCeremony, StepTo, TokenInv, Unpruned
<1> QED
  BY <1>1 DEF CeremonyInv, Undisturbed, Stands

(* Finishing one takes its own challenge besides.                                 *)
LEMMA CeremonyEnds ==
    ASSUME TokenInv, CeremonyInv, NEW c \in AccessCalls, FinishCeremony(c)
    PROVE  CeremonyInv' /\ Undisturbed
<1>1. PICK label \in {"verified", "refused", "unknown"} :
         /\ accessAt' = [accessAt EXCEPT ![c] = label]
         /\ label = "unknown" => c \notin inFlight \ aged
  BY DEF FinishCeremony, StepTo, Unpruned
<1>2. /\ DOMAIN accessAt = AccessCalls
      /\ inFlight' = (inFlight \ aged) \ {c}
      /\ aged' = aged /\ forgotten' = forgotten
  BY DEF FinishCeremony, TokenInv, Unpruned
<1> QED
  BY <1>1, <1>2 DEF CeremonyInv, Undisturbed, Stands

(* Every step keeps the challenges of the ceremonies that are under way.          *)
LEMMA CeremonyStep ==
    ASSUME TokenInv, CeremonyInv, [AccessNext]_accessVars
    PROVE  CeremonyInv' /\ Undisturbed
<1>1. ASSUME NEW c \in AccessCalls, AccessCall(c) PROVE CeremonyInv' /\ Undisturbed
  <2>1. CASE StartRefused(c) \/ StorePasskey(c) \/ MintSession(c) \/ Enroll(c) \/ GoOnline(c) \/ GoOffline(c)
    <3>1. /\ UNCHANGED <<inFlight, aged, forgotten>>
          /\ \E label : label \notin {"ceremony", "unknown"} /\ StepTo(c, label)
      BY <2>1 DEF StartRefused, StorePasskey, MintSession, Enroll, GoOnline, GoOffline, ceremonyVars
    <3> QED
      BY <3>1, OtherMoves
  <2>2. ASSUME NEW t, NEW k, ConsumeToken(c, t, k) PROVE CeremonyInv' /\ Undisturbed
    <3>1. /\ UNCHANGED <<inFlight, aged, forgotten>>
          /\ StepTo(c, "accepted") \/ StepTo(c, "refused")
      BY <2>2 DEF ConsumeToken, ceremonyVars
    <3> QED
      BY <3>1, OtherMoves
  <2>3. ASSUME NEW d, AuthenticateDevice(c, d) \/ AuthenticatePhone(c, d)
        PROVE  CeremonyInv' /\ Undisturbed
    <3>1. /\ UNCHANGED <<inFlight, aged, forgotten>>
          /\ StepTo(c, "authenticated") \/ StepTo(c, "refused")
      BY <2>3 DEF AuthenticateDevice, AuthenticatePhone, ceremonyVars
    <3> QED
      BY <3>1, OtherMoves
  <2>4. CASE CeremonyAges(c)
    BY <2>4, OtherSteps DEF CeremonyAges, accessCallVars
  <2> QED
    BY <1>1, <2>1, <2>2, <2>3, <2>4, CeremonyStarts, CeremonyEnds DEF AccessCall
<1>2. ASSUME NEW c, Revoke(c) PROVE CeremonyInv' /\ Undisturbed
  <2>1. /\ accessAt' = [d \in AccessCalls |-> IF d \in Cut(c) THEN "closed" ELSE accessAt[d]]
        /\ UNCHANGED <<inFlight, aged, forgotten>>
    BY <1>2 DEF Revoke, CutOff
  <2>2. \A d \in AccessCalls : accessAt'[d] \in {"ceremony", "unknown"} => accessAt'[d] = accessAt[d]
    BY <2>1
  <2> QED
    BY <2>1, <2>2, OtherSteps
<1>3. CASE (\E p \in DOMAIN phoneSessions : SessionExpires(p))
           \/ (\E t \in EnrollTokens : TokenExpires(t) \/ \E k \in Devices : IssueToken(t, k))
           \/ UNCHANGED accessVars
  <2>1. UNCHANGED <<inFlight, aged, forgotten, accessAt>>
    BY <1>3 DEF SessionExpires, TokenExpires, IssueToken, ceremonyVars, accessCallVars, accessVars
  <2> QED
    BY <2>1, OtherSteps
<1>4. CASE RestartRelay
  <2>1. /\ forgotten' = {c \in AccessCalls : accessAt[c] # "idle"}
        /\ accessAt' = [c \in AccessCalls |->
              IF accessAt[c] \in {"idle", "ceremony", "done"} THEN accessAt[c] ELSE "closed"]
    BY <1>4 DEF RestartRelay
  <2> QED
    BY <2>1 DEF CeremonyInv, Undisturbed, Stands
<1> QED
  BY <1>1, <1>2, <1>3, <1>4 DEF AccessNext

(* However many ceremonies overlap, one that is finished in time is never told    *)
(* that it was not begun.                                                         *)
THEOREM CeremoniesApart == AccessSpec => CeremoniesKept
<1>1. AccessInit => TokenInv /\ CeremonyInv
  BY DEF AccessInit, TokenInv, Admitted, TokenStates, CeremonyInv, Stands
<1>2. TokenInv /\ CeremonyInv /\ [AccessNext]_accessVars => CeremonyInv' /\ [Undisturbed]_accessVars
  BY CeremonyStep
<1> QED
  BY <1>1, <1>2, TokenStep, PTL DEF AccessSpec, CeremoniesKept, Undisturbed

(* The types of the relay's records, table by table.                              *)
CeremonyTypes == passkeys \subseteq AccessCalls /\ inFlight \subseteq AccessCalls /\ aged \subseteq AccessCalls
PhoneSessionTypes ==
    /\ DOMAIN phoneSessions \subseteq AccessCalls
    /\ \A p \in DOMAIN phoneSessions : phoneSessions[p] \in {"live", "expired"}
ServingTypes == online = {c \in AccessCalls : accessAt[c] = "serving"}
RecordTypes ==
    revoked \subseteq enrolled /\ forgotten \subseteq AccessCalls /\ relayRestarts \in 0 .. MaxRelayRestarts
AccessTypes == CeremonyTypes /\ PhoneSessionTypes /\ ServingTypes /\ RecordTypes

(* A call is served as long as it is online: whoever moves it from or to that     *)
(* step enters it or takes it out.                                                *)
LEMMA ServingMoves ==
    ASSUME TokenInv, ServingTypes, NEW c \in AccessCalls, NEW label, StepTo(c, label)
    PROVE  /\ (accessAt[c] # "serving" /\ label # "serving" /\ UNCHANGED online) => ServingTypes'
           /\ (label = "serving" /\ online' = online \cup {c}) => ServingTypes'
           /\ (label # "serving" /\ online' = online \ {c}) => ServingTypes'
<1>1. \A d \in AccessCalls : accessAt'[d] = IF d = c THEN label ELSE accessAt[d]
  BY DEF StepTo, TokenInv
<1> QED
  BY <1>1 DEF ServingTypes

LEMMA ServingStep == TokenInv /\ ServingTypes /\ [AccessNext]_accessVars => ServingTypes'
<1> SUFFICES ASSUME TokenInv, ServingTypes, [AccessNext]_accessVars PROVE ServingTypes'
  OBVIOUS
<1>1. ASSUME NEW c \in AccessCalls,
             StartCeremony(c) \/ StartRefused(c) \/ FinishCeremony(c) \/ StorePasskey(c) \/ MintSession(c) \/ Enroll(c)
      PROVE  ServingTypes'
  <2>1. UNCHANGED online /\ accessAt[c] # "serving" /\ \E label : label # "serving" /\ StepTo(c, label)
    BY <1>1 DEF StartCeremony, StartRefused, FinishCeremony, StorePasskey, MintSession, Enroll, Begins,
                Arrives, Stands
  <2> QED
    BY <2>1, ServingMoves
<1>2. ASSUME NEW c \in AccessCalls, NEW t \in EnrollTokens, NEW k \in Devices, ConsumeToken(c, t, k)
      PROVE  ServingTypes'
  <2>1. UNCHANGED online /\ accessAt[c] # "serving" /\ \E label : label # "serving" /\ StepTo(c, label)
    BY <1>2 DEF ConsumeToken, Begins, Arrives
  <2> QED
    BY <2>1, ServingMoves
<1>3. ASSUME NEW c \in AccessCalls, NEW d \in AccessCalls, AuthenticateDevice(c, d) \/ AuthenticatePhone(c, d)
      PROVE  ServingTypes'
  <2>1. StepTo(c, "authenticated") \/ StepTo(c, "refused")
    BY <1>3 DEF AuthenticateDevice, AuthenticatePhone
  <2>2. UNCHANGED online /\ accessAt[c] # "serving"
    BY <1>3 DEF AuthenticateDevice, AuthenticatePhone, Begins, Arrives
  <2> QED
    BY <2>1, <2>2, ServingMoves
<1>4. ASSUME NEW c \in AccessCalls, GoOnline(c) \/ GoOffline(c) PROVE ServingTypes'
  <2>1. \/ StepTo(c, "serving") /\ online' = online \cup {c}
        \/ StepTo(c, "closed") /\ online' = online \ {c}
    BY <1>4 DEF GoOnline, GoOffline
  <2> QED
    BY <2>1, ServingMoves
<1>5. ASSUME NEW c \in AccessCalls, Revoke(c) PROVE ServingTypes'
  BY <1>5 DEF Revoke, CutOff, Cut, ServingTypes
<1>6. ASSUME UNCHANGED <<online, accessAt>> PROVE ServingTypes'
  BY <1>6 DEF ServingTypes
<1>7. ASSUME NEW c \in AccessCalls, CeremonyAges(c) PROVE ServingTypes'
  BY <1>6, <1>7 DEF CeremonyAges, accessCallVars
<1>8. ASSUME NEW p, SessionExpires(p) PROVE ServingTypes'
  BY <1>6, <1>8 DEF SessionExpires, accessCallVars
<1>9. ASSUME NEW t, TokenExpires(t) \/ \E k \in Devices : IssueToken(t, k) PROVE ServingTypes'
  BY <1>6, <1>9 DEF TokenExpires, IssueToken, accessCallVars
<1>10. CASE RestartRelay
  BY <1>10 DEF RestartRelay, ServingTypes
<1>11. CASE UNCHANGED accessVars
  BY <1>6, <1>11 DEF accessVars, accessCallVars
<1> QED
  BY <1>1, <1>2, <1>3, <1>4, <1>5, <1>7, <1>8, <1>9, <1>10, <1>11 DEF AccessNext, AccessCall

(* Only a call enters a ceremony, and only a phone that made one gets a session.  *)
LEMMA TablesStep ==
    CeremonyTypes /\ PhoneSessionTypes /\ RecordTypes /\ [AccessNext]_accessVars
        => CeremonyTypes' /\ PhoneSessionTypes' /\ RecordTypes'
<1> SUFFICES ASSUME CeremonyTypes, PhoneSessionTypes, RecordTypes, [AccessNext]_accessVars
             PROVE  CeremonyTypes' /\ PhoneSessionTypes' /\ RecordTypes'
  OBVIOUS
<1>1. ASSUME NEW c \in AccessCalls, NEW label \in {"live", "expired"} PROVE
        phoneSessions' = Put(phoneSessions, c, label) => PhoneSessionTypes'
  BY DEF Put, PhoneSessionTypes
<1>2. ASSUME NEW S PROVE phoneSessions' = Drop(phoneSessions, S) => PhoneSessionTypes'
  BY DEF Drop, PhoneSessionTypes
<1>3. UNCHANGED phoneSessions => PhoneSessionTypes'
  BY DEF PhoneSessionTypes
<1>4. UNCHANGED <<passkeys, inFlight, aged>> => CeremonyTypes'
  BY DEF CeremonyTypes
<1>5. UNCHANGED <<revoked, enrolled, forgotten, relayRestarts>> => RecordTypes'
  BY DEF RecordTypes
<1>6. ASSUME NEW c \in AccessCalls,
             StartCeremony(c) \/ StartRefused(c) \/ CeremonyAges(c) \/ FinishCeremony(c) \/ StorePasskey(c)
      PROVE  CeremonyTypes' /\ PhoneSessionTypes' /\ RecordTypes'
  <2>1. UNCHANGED <<phoneSessions, revoked, enrolled, forgotten, relayRestarts>>
    BY <1>6 DEF StartCeremony, StartRefused, CeremonyAges, FinishCeremony, StorePasskey, ceremonyVars,
                enrollVars, accessCallVars
  <2>2. /\ passkeys' \subseteq passkeys \cup {c} /\ inFlight' \subseteq inFlight \cup {c}
        /\ aged' \subseteq aged \cup {c}
    BY <1>6 DEF StartCeremony, StartRefused, CeremonyAges, FinishCeremony, StorePasskey, Unpruned, ceremonyVars
  <2> QED
    BY <1>3, <1>5, <2>1, <2>2 DEF CeremonyTypes
<1>7. ASSUME NEW c \in AccessCalls, MintSession(c) PROVE CeremonyTypes' /\ PhoneSessionTypes' /\ RecordTypes'
  BY <1>1, <1>4, <1>5, <1>7 DEF MintSession, enrollVars
<1>8. ASSUME NEW c \in AccessCalls, Enroll(c) PROVE CeremonyTypes' /\ PhoneSessionTypes' /\ RecordTypes'
  <2>1. UNCHANGED <<passkeys, inFlight, aged, phoneSessions, revoked, forgotten, relayRestarts>>
        /\ enrolled \subseteq enrolled'
    BY <1>8 DEF Enroll, ceremonyVars
  <2> QED
    BY <1>3, <1>4, <2>1 DEF RecordTypes
<1>9. ASSUME NEW c \in AccessCalls, GoOnline(c) \/ GoOffline(c) PROVE CeremonyTypes' /\ PhoneSessionTypes' /\ RecordTypes'
  BY <1>3, <1>4, <1>5, <1>9 DEF GoOnline, GoOffline, ceremonyVars, enrollVars
<1>10. ASSUME NEW c \in AccessCalls, NEW t \in EnrollTokens, NEW k \in Devices, ConsumeToken(c, t, k)
       PROVE  CeremonyTypes' /\ PhoneSessionTypes' /\ RecordTypes'
  BY <1>3, <1>4, <1>5, <1>10 DEF ConsumeToken, ceremonyVars
<1>11. ASSUME NEW c \in AccessCalls, NEW d \in AccessCalls, AuthenticateDevice(c, d)
       PROVE  CeremonyTypes' /\ PhoneSessionTypes' /\ RecordTypes'
  BY <1>3, <1>4, <1>5, <1>11 DEF AuthenticateDevice, ceremonyVars, enrollVars
<1>12. ASSUME NEW c \in AccessCalls, NEW d \in AccessCalls, AuthenticatePhone(c, d)
       PROVE  CeremonyTypes' /\ PhoneSessionTypes' /\ RecordTypes'
  BY <1>2, <1>3, <1>4, <1>5, <1>12 DEF AuthenticatePhone, enrollVars
<1>13. ASSUME NEW c \in AccessCalls, Revoke(c) PROVE CeremonyTypes' /\ PhoneSessionTypes' /\ RecordTypes'
  <2>1. revoked' \subseteq enrolled'
    BY <1>13 DEF Revoke, RecordTypes
  <2> QED
    BY <1>2, <1>4, <1>13, <2>1 DEF Revoke, RecordTypes
<1>14. ASSUME NEW p \in DOMAIN phoneSessions, SessionExpires(p)
       PROVE  CeremonyTypes' /\ PhoneSessionTypes' /\ RecordTypes'
  <2>1. PhoneSessionTypes'
    BY <1>14 DEF SessionExpires, PhoneSessionTypes
  <2> QED
    BY <1>4, <1>5, <1>14, <2>1 DEF SessionExpires, enrollVars, accessCallVars
<1>15. ASSUME NEW t, TokenExpires(t) \/ \E k \in Devices : IssueToken(t, k)
       PROVE  CeremonyTypes' /\ PhoneSessionTypes' /\ RecordTypes'
  BY <1>3, <1>4, <1>5, <1>15 DEF TokenExpires, IssueToken, ceremonyVars, accessCallVars
<1>16. CASE RestartRelay
  <2>1. CeremonyTypes'
    BY <1>16 DEF RestartRelay, CeremonyTypes
  <2>2. PhoneSessionTypes'
    BY <1>16 DEF RestartRelay, PhoneSessionTypes
  <2>3. RecordTypes'
    BY <1>16, RelayAccessAssumption DEF RestartRelay, RecordTypes
  <2> QED
    BY <2>1, <2>2, <2>3
<1>17. CASE UNCHANGED accessVars
  BY <1>3, <1>4, <1>5, <1>17 DEF accessVars, ceremonyVars, enrollVars, accessCallVars
<1> QED
  BY <1>6, <1>7, <1>8, <1>9, <1>10, <1>11, <1>12, <1>13, <1>14, <1>15, <1>16, <1>17 DEF AccessNext, AccessCall

(* Every record of the relay belongs to a call that made it, whoever is online is *)
(* being served, and only a device on record is barred.                           *)
THEOREM AccessTypeCorrect == AccessSpec => []AccessTypeOK
<1>1. AccessInit => TokenInv /\ AccessTypes
  <2>1. AccessInit => TokenInv
    BY DEF AccessInit, TokenInv, Admitted, TokenStates
  <2>2. AccessInit => AccessTypes
    BY RelayAccessAssumption DEF AccessInit, AccessTypes, CeremonyTypes, PhoneSessionTypes, ServingTypes, RecordTypes
  <2> QED
    BY <2>1, <2>2
<1>2. TokenInv /\ AccessTypes => AccessTypeOK
  BY DEF TokenInv, TokenStates, AccessTypes, CeremonyTypes, PhoneSessionTypes, ServingTypes, RecordTypes, AccessTypeOK
<1>3. TokenInv /\ AccessTypes /\ [AccessNext]_accessVars => TokenInv' /\ AccessTypes'
  BY TokenStep, ServingStep, TablesStep DEF AccessTypes
<1> QED
  BY <1>1, <1>2, <1>3, PTL DEF AccessSpec
===============================================================================
