--------------------------- MODULE BackgroundTasks ---------------------------
(***************************************************************************)
(* The background manager (internal/background) and the specialist runs    *)
(* that use it: one process, the owner, registers tasks, launches a child  *)
(* for each, records its pid, and stops it on demand; a goroutine per      *)
(* child waits for its exit.  Every change is first persisted to the       *)
(* task's metadata file, then made in memory, under the manager's mutex.   *)
(* Another process that opens the same directory loads the files and       *)
(* rewrites those it finds running.                                        *)
(***************************************************************************)
EXTENDS Naturals, FiniteSets

CONSTANTS Tasks,       \* task ids
          Killers,     \* calls of Kill: TaskStop calls and the shutdown
          NoTask,      \* a killer that stops nothing
          KillMayFail, \* TerminateProcess can give up on a process group
          DiskMayFail, \* a metadata file cannot always be written
          MaxLoads     \* bound: managers opened by other processes

ASSUME BackgroundAssumption == NoTask \notin Tasks /\ MaxLoads \in Nat

VARIABLES mem,     \* the owner's task table
          disk,    \* the metadata files
          launch,  \* how far runBackground got with each task
          child,   \* the child process and its waiter
          killer,  \* calls in progress
          loads,   \* managers opened by other processes so far
          lost     \* history: a status could not be persisted, or a kill was undone

vars == <<mem, disk, launch, child, killer, loads, lost>>

-----------------------------------------------------------------------------
Absent == [status |-> "absent", pid |-> FALSE]
Finals == {"completed", "error", "killed"}
\* pid tells whether the task's pid is recorded.
Task == [status : {"absent", "running"} \cup Finals, pid : BOOLEAN]

Init ==
    /\ mem = [t \in Tasks |-> Absent]
    /\ disk = [t \in Tasks |-> Absent]
    /\ launch = [t \in Tasks |-> "none"]
    /\ child = [t \in Tasks |-> "none"]
    /\ killer = [k \in Killers |-> [at |-> "idle", task |-> NoTask, todo |-> {}]]
    /\ loads = 0
    /\ lost = {}

\* persistTaskLocked and then the assignment to the table.
Persist(t, task) ==
    /\ disk' = [disk EXCEPT ![t] = task]
    /\ mem' = [mem EXCEPT ![t] = task]

\* The file cannot be written: the table keeps the old task.
PersistFails(t) == DiskMayFail /\ lost' = lost \cup {t} /\ UNCHANGED <<disk, mem>>

\* UpdateStatus sets the status whatever it was.
UpdateStatus(t, status) == Persist(t, [mem[t] EXCEPT !.status = status])

-----------------------------------------------------------------------------
(* runBackground *)

Register(t) ==
    /\ launch[t] = "none"
    /\ Persist(t, [status |-> "running", pid |-> FALSE])
    /\ launch' = [launch EXCEPT ![t] = "registered"]
    /\ UNCHANGED <<child, killer, loads, lost>>

\* The child starts and its waiter with it.
LaunchChild(t) ==
    /\ launch[t] = "registered"
    /\ child' = [child EXCEPT ![t] = "alive"]
    /\ launch' = [launch EXCEPT ![t] = "launched"]
    /\ UNCHANGED <<mem, disk, killer, loads, lost>>

LaunchFails(t) ==
    /\ launch[t] = "registered"
    /\ \/ UpdateStatus(t, "error") /\ UNCHANGED lost
       \/ PersistFails(t)
    /\ launch' = [launch EXCEPT ![t] = "failed"]
    /\ UNCHANGED <<child, killer, loads>>

SetPIDOnStaleTask(t) ==
    /\ launch[t] = "launched"
    /\ Persist(t, [status |-> "running", pid |-> TRUE])
    /\ launch' = [launch EXCEPT ![t] = "tracked"]
    /\ UNCHANGED <<child, killer, loads, lost>>

\* SetPID changes the pid of the task as it is now: the child may be gone.
SetPID(t) ==
    /\ launch[t] = "launched"
    /\ Persist(t, [mem[t] EXCEPT !.pid = TRUE])
    /\ launch' = [launch EXCEPT ![t] = "tracked"]
    /\ UNCHANGED <<child, killer, loads, lost>>

\* The pid could not be recorded: the child is terminated at once ...
SetPIDFails(t) ==
    /\ launch[t] = "launched"
    /\ PersistFails(t)
    /\ launch' = [launch EXCEPT ![t] = "untracked"]
    /\ UNCHANGED <<child, killer, loads>>

\* ... and the task marked as failed, also when the kill did not succeed.
AbandonChild(t) ==
    /\ launch[t] = "untracked"
    /\ child[t] = "alive" => KillMayFail
    /\ \/ UpdateStatus(t, "error") /\ UNCHANGED lost
       \/ PersistFails(t)
    /\ launch' = [launch EXCEPT ![t] = "failed"]
    /\ UNCHANGED <<child, killer, loads>>

\* The child ends, by itself or by a signal of somebody who may signal it.
ChildExits(t) ==
    /\ child[t] = "alive"
    /\ child' = [child EXCEPT ![t] = "gone"]
    /\ UNCHANGED <<mem, disk, launch, killer, loads, lost>>

\* The waiter's callback: MarkExited changes a running task only, and its
\* error is ignored.
OnExit(t) ==
    /\ child[t] = "gone"
    /\ \/ /\ mem[t].status = "running"
          /\ \/ (\E status \in {"completed", "error"} : UpdateStatus(t, status))
                /\ UNCHANGED lost
             \/ PersistFails(t)
       \/ mem[t].status # "running" /\ UNCHANGED <<mem, disk, lost>>
    /\ child' = [child EXCEPT ![t] = "reported"]
    /\ UNCHANGED <<launch, killer, loads>>

-----------------------------------------------------------------------------
(* Kill *)

Goto(k, at, t, todo) == killer' = [killer EXCEPT ![k] = [at |-> at, task |-> t, todo |-> todo]]
\* After one task, the shutdown goes on with the next one of its snapshot.
Return(k) == Goto(k, IF killer[k].todo = {} THEN "done" ELSE "next", NoTask, killer[k].todo)

\* killTarget: a running task whose pid is known, or an error.
Targets(t) == mem[t].status = "running" /\ mem[t].pid

Kill(k) ==
    /\ killer[k].at = "idle"
    /\ \E t \in Tasks : Targets(t) /\ Goto(k, "mark", t, {})
    /\ UNCHANGED <<mem, disk, launch, child, loads, lost>>

\* KillRunning: the tasks running now, one after the other.
KillRunning(k) ==
    /\ killer[k].at = "idle"
    /\ \E t \in Tasks : mem[t].status = "running"
    /\ Goto(k, "next", NoTask, {t \in Tasks : mem[t].status = "running"})
    /\ UNCHANGED <<mem, disk, launch, child, loads, lost>>

KillNext(k) ==
    /\ killer[k].at = "next"
    /\ \E t \in killer[k].todo :
         LET rest == killer[k].todo \ {t} IN
         IF Targets(t) THEN Goto(k, "mark", t, rest)
         ELSE Goto(k, IF rest = {} THEN "done" ELSE "next", NoTask, rest)
    /\ UNCHANGED <<mem, disk, launch, child, loads, lost>>

MarkAfterSignal(k) ==
    /\ killer[k].at = "mark"
    /\ Goto(k, "signal", killer[k].task, killer[k].todo)
    /\ UNCHANGED <<mem, disk, launch, child, loads, lost>>

MarkWithoutSignal(k) ==
    /\ killer[k].at = "mark"
    /\ mem[killer[k].task].status = "running"
    /\ UpdateStatus(killer[k].task, "killed")
    /\ Return(k)
    /\ UNCHANGED <<launch, child, loads, lost>>

\* markKilledIfStillRunning, before any signal.
MarkKilled(k) ==
    LET t == killer[k].task IN
    /\ killer[k].at = "mark"
    /\ \/ /\ mem[t].status = "running"
          /\ UpdateStatus(t, "killed") /\ UNCHANGED lost
          /\ Goto(k, "signal", t, killer[k].todo)
       \/ /\ mem[t].status = "running"
          /\ PersistFails(t)
          /\ Return(k)
       \/ /\ mem[t].status # "running"
          /\ Return(k)
          /\ UNCHANGED <<mem, disk, lost>>
    /\ UNCHANGED <<launch, child, loads>>

\* TerminateProcess returns without error once the process group is gone ...
KillDone(k) ==
    /\ killer[k].at = "signal"
    /\ child[killer[k].task] # "alive"
    /\ Return(k)
    /\ UNCHANGED <<mem, disk, launch, child, loads, lost>>

\* ... or with an error while something of the group is left, whether or not
\* its leader, the child, is.
KillFails(k) ==
    /\ killer[k].at = "signal" /\ KillMayFail
    /\ Goto(k, "restore", killer[k].task, killer[k].todo)
    /\ UNCHANGED <<mem, disk, launch, child, loads, lost>>

\* restoreRunningAfterFailedKill
RestoreRunning(k) ==
    LET t == killer[k].task IN
    /\ killer[k].at = "restore"
    /\ \/ /\ mem[t].status = "killed"
          /\ UpdateStatus(t, "running")
          /\ lost' = lost \cup {t}
       \/ mem[t].status = "killed" /\ PersistFails(t)
       \/ mem[t].status # "killed" /\ UNCHANGED <<mem, disk, lost>>
    /\ Return(k)
    /\ UNCHANGED <<launch, child, loads>>

-----------------------------------------------------------------------------
\* Another process opens the directory: loadTasks marks what it finds running
\* as failed, in its own table and in the file.
LoadTasks ==
    /\ loads < MaxLoads /\ loads' = loads + 1
    /\ disk' = [t \in Tasks |->
          IF disk[t].status = "running" THEN [status |-> "error", pid |-> FALSE]
                                        ELSE disk[t]]
    /\ UNCHANGED <<mem, launch, child, killer, lost>>

TaskStep(t) ==
    \/ Register(t) \/ LaunchChild(t) \/ LaunchFails(t)
    \/ SetPID(t) \/ SetPIDFails(t) \/ AbandonChild(t) \/ ChildExits(t) \/ OnExit(t)

KillStep(k) ==
    \/ KillNext(k) \/ MarkKilled(k) \/ KillDone(k) \/ KillFails(k) \/ RestoreRunning(k)

Next ==
    \/ \E t \in Tasks : TaskStep(t)
    \/ \E k \in Killers : Kill(k) \/ KillRunning(k) \/ KillStep(k)
    \/ LoadTasks

Spec == Init /\ [][Next]_vars

\* Goroutines run; a child that is being terminated dies (SIGTERM, then
\* SIGKILL to its group) unless the kill gives up; nobody has to call Kill.
Signalled(t) == \E k \in Killers : killer[k].at = "signal" /\ killer[k].task = t
Fairness ==
    /\ \A t \in Tasks :
         /\ WF_vars(LaunchChild(t) \/ LaunchFails(t))
         /\ WF_vars(SetPID(t) \/ SetPIDFails(t))
         /\ WF_vars(AbandonChild(t))
         /\ WF_vars(ChildExits(t) /\ (Signalled(t) \/ launch[t] = "untracked"))
         /\ WF_vars(OnExit(t))
    /\ \A k \in Killers : WF_vars(KillStep(k))
FairSpec == Spec /\ Fairness

-----------------------------------------------------------------------------
\* The shape of the state.
TypeOK ==
    /\ mem \in [Tasks -> Task] /\ disk \in [Tasks -> Task]
    /\ launch \in [Tasks -> {"none", "registered", "launched", "tracked",
                             "untracked", "failed"}]
    /\ child \in [Tasks -> {"none", "alive", "gone", "reported"}]
    /\ killer \in [Killers -> [at : {"idle", "next", "mark", "signal", "restore", "done"},
                               task : Tasks \cup {NoTask}, todo : SUBSET Tasks]]
    /\ loads \in 0..MaxLoads
    /\ lost \subseteq Tasks

\* While a signal is under way, or failed and is not undone yet, the task is
\* marked killed and nobody else changes it: the exit that the signal causes
\* is not recorded as an error of the task (manager.go, Kill).
KillIntentStands ==
    \A k \in Killers : killer[k].at \in {"signal", "restore"} =>
        mem[killer[k].task].status = "killed"

\* One call at a time terminates a task.
OneKillerPerTask ==
    \A j, k \in Killers : j # k /\ killer[j].at \in {"signal", "restore"}
                                /\ killer[k].at \in {"signal", "restore"}
                          => killer[j].task # killer[k].task

\* A final status is changed only by the rollback of a failed kill and by the
\* launch that gives up on a child: an exit or a late pid never revives a task.
FinalsAreNotRevived ==
    [][\A t \in Tasks : mem[t].status \in Finals /\ mem'[t].status # mem[t].status
         => \/ /\ mem[t].status = "killed" /\ mem'[t].status = "running"
               /\ \E k \in Killers : killer[k].at = "restore" /\ killer[k].task = t
            \/ launch[t] = "untracked" /\ mem'[t].status = "error"]_vars

\* A task whose child has exited and was reported is not running, unless its
\* status could not be written or a failed kill was undone.
ReportedTasksHaveEnded ==
    \A t \in Tasks : child[t] = "reported" /\ t \notin lost => mem[t].status # "running"

\* Without other processes the files say what the table says.
FilesFollowTheTable == loads = 0 => disk = mem

\* The records stay true while kills, exits, late pids and failed writes race.
RecordsAreTrue ==
    /\ TypeOK
    /\ KillIntentStands
    /\ OneKillerPerTask
    /\ ReportedTasksHaveEnded
    /\ FilesFollowTheTable

\* Under FairSpec a task that was marked killed ends and its exit is reported,
\* unless the kill gave up: no stop leaves a child behind without an error.
KillsComplete ==
    \A t \in Tasks : mem[t].status = "killed" ~> child[t] = "reported" \/ t \in lost

-----------------------------------------------------------------------------
\* restoreRunningAfterFailedKill (manager.go): "a real exit recorded
\* meanwhile is left untouched".
RestoreSparesTheExited ==
    \A t \in Tasks : child[t] = "reported" => mem[t].status # "running"

\* docs/SPECIALISTS.md: persisted metadata lets a new manager instance "stop a
\* still-running task by id"; normalizeLoadedTask drops the pid of a task
\* because "original process ownership was lost".
LoadKeepsTheRunning ==
    \A t \in Tasks : child[t] = "alive" /\ mem[t].status = "running"
        => disk[t].status = "running"
=============================================================================
