------------------------ MODULE BackgroundTasksProofs ------------------------
(***************************************************************************)
(* Theorems about BackgroundTasks, for every set of tasks and of killers,  *)
(* whether or not kills and writes may fail, and any number of managers    *)
(* that other processes open; and about ProcessManager, for every set of   *)
(* callers, table size and buffer size and any number of processes.        *)
(***************************************************************************)
EXTENDS BackgroundTasks, FiniteSetTheorems, SequenceTheorems, TLAPS

USE BackgroundAssumption

-----------------------------------------------------------------------------
(* The inductive invariant.                                                *)

\* What the launch of a task says of its record and of its child.
LaunchesFit ==
    \A t \in Tasks :
       /\ launch[t] = "none" => mem[t].status = "absent"
       /\ launch[t] = "registered" => mem[t].status = "running"
       /\ launch[t] \in {"none", "registered"} => child[t] = "none"
       /\ mem[t].pid => launch[t] = "tracked"

\* A call of Kill that is past killTarget is about a task whose pid is recorded.
KillersHaveTargets ==
    \A k \in Killers : killer[k].at \in {"mark", "signal", "restore"} =>
        killer[k].task \in Tasks /\ mem[killer[k].task].pid

\* All of it, with the parts of RecordsAreTrue.
IInv ==
    /\ TypeOK
    /\ KillIntentStands /\ OneKillerPerTask
    /\ ReportedTasksHaveEnded /\ FilesFollowTheTable
    /\ LaunchesFit /\ KillersHaveTargets

-----------------------------------------------------------------------------
(* Every action keeps it.                                                  *)

\* UpdateStatus changes the status of one task, in the table and in the file.
LEMMA StatusUpdate ==
  ASSUME TypeOK, NEW t \in Tasks, NEW s \in Finals \cup {"running"}, UpdateStatus(t, s)
  PROVE  /\ mem' \in [Tasks -> Task] /\ disk' \in [Tasks -> Task]
         /\ mem'[t].status = s /\ mem'[t].pid = mem[t].pid
         /\ \A u \in Tasks : u # t => mem'[u] = mem[u]
<1>1. mem[t] \in Task /\ [mem[t] EXCEPT !.status = s] \in Task
  BY DEF TypeOK, Task
<1>2. [mem[t] EXCEPT !.status = s].status = s /\ [mem[t] EXCEPT !.status = s].pid = mem[t].pid
  OBVIOUS
<1> QED
  BY <1>1 DEF TypeOK, UpdateStatus, Persist

\* A task is registered before it has a child and before anybody can kill it.
LEMMA RegisterKeeps ==
  ASSUME IInv, NEW t \in Tasks, Register(t)
  PROVE  IInv'
<1>1. TypeOK'
  BY DEF IInv, Register, TypeOK, Persist, Task
<1>2. KillIntentStands'
  BY DEF IInv, Register, KillIntentStands, LaunchesFit, Persist
<1>3. OneKillerPerTask'
  BY DEF IInv, Register, OneKillerPerTask
<1>4. ReportedTasksHaveEnded'
  BY DEF IInv, Register, ReportedTasksHaveEnded, LaunchesFit, Persist
<1>5. FilesFollowTheTable'
  BY DEF IInv, Register, FilesFollowTheTable, Persist
<1>6. LaunchesFit'
  BY DEF IInv, Register, TypeOK, LaunchesFit, Persist
<1>7. KillersHaveTargets'
  BY DEF IInv, Register, KillersHaveTargets, LaunchesFit, Persist
<1> QED
  BY <1>1, <1>2, <1>3, <1>4, <1>5, <1>6, <1>7 DEF IInv

\* A child starts for a task that is registered and has no pid.
LEMMA LaunchChildKeeps ==
  ASSUME IInv, NEW t \in Tasks, LaunchChild(t)
  PROVE  IInv'
<1>1. TypeOK'
  BY DEF IInv, LaunchChild, TypeOK
<1>2. KillIntentStands'
  BY DEF IInv, LaunchChild, KillIntentStands
<1>3. OneKillerPerTask'
  BY DEF IInv, LaunchChild, OneKillerPerTask
<1>4. ReportedTasksHaveEnded'
  BY DEF IInv, LaunchChild, ReportedTasksHaveEnded
<1>5. FilesFollowTheTable'
  BY DEF IInv, LaunchChild, FilesFollowTheTable
<1>6. LaunchesFit'
  BY DEF IInv, LaunchChild, TypeOK, LaunchesFit
<1>7. KillersHaveTargets'
  BY DEF IInv, LaunchChild, KillersHaveTargets
<1> QED
  BY <1>1, <1>2, <1>3, <1>4, <1>5, <1>6, <1>7 DEF IInv

\* A launch that fails leaves a final status, and no child.
LEMMA LaunchFailsKeeps ==
  ASSUME IInv, NEW t \in Tasks, LaunchFails(t)
  PROVE  IInv'
<1>1. TypeOK'
  <2>1. mem' \in [Tasks -> Task] /\ disk' \in [Tasks -> Task] /\ lost' \subseteq Tasks
    BY StatusUpdate DEF IInv, TypeOK, LaunchFails, PersistFails, Finals
  <2> QED
    BY <2>1 DEF IInv, TypeOK, KillersHaveTargets, LaunchFails
<1>2. KillIntentStands'
  BY DEF IInv, LaunchFails, TypeOK, KillIntentStands, KillersHaveTargets, LaunchesFit,
     Persist, PersistFails, UpdateStatus
<1>3. OneKillerPerTask'
  BY DEF IInv, LaunchFails, OneKillerPerTask
<1>4. ReportedTasksHaveEnded'
  BY DEF IInv, LaunchFails, TypeOK, ReportedTasksHaveEnded, LaunchesFit, Persist,
     PersistFails, UpdateStatus
<1>5. FilesFollowTheTable'
  BY DEF IInv, LaunchFails, FilesFollowTheTable, UpdateStatus, Persist, PersistFails
<1>6. LaunchesFit'
  BY DEF IInv, LaunchFails, TypeOK, LaunchesFit, Persist, PersistFails, UpdateStatus, Task
<1>7. KillersHaveTargets'
  BY DEF IInv, LaunchFails, TypeOK, KillersHaveTargets, LaunchesFit, Persist,
     PersistFails, UpdateStatus
<1> QED
  BY <1>1, <1>2, <1>3, <1>4, <1>5, <1>6, <1>7 DEF IInv

\* SetPID keeps the status of the task as it is, so an exit before it stands.
LEMMA SetPIDKeeps ==
  ASSUME IInv, NEW t \in Tasks, SetPID(t)
  PROVE  IInv'
<1>1. TypeOK'
  <2>1. mem[t] \in Task
    BY DEF IInv, TypeOK
  <2>2. [mem[t] EXCEPT !.pid = TRUE] \in Task
    BY <2>1 DEF Task
  <2> QED
    BY <2>2 DEF IInv, TypeOK, SetPID, Persist
<1>2. KillIntentStands'
  BY DEF IInv, SetPID, KillIntentStands, Persist
<1>3. OneKillerPerTask'
  BY DEF IInv, SetPID, OneKillerPerTask
<1>4. ReportedTasksHaveEnded'
  BY DEF IInv, SetPID, ReportedTasksHaveEnded, Persist
<1>5. FilesFollowTheTable'
  BY DEF IInv, SetPID, FilesFollowTheTable, Persist
<1>6. LaunchesFit'
  BY DEF IInv, SetPID, TypeOK, LaunchesFit, Persist
<1>7. KillersHaveTargets'
  BY DEF IInv, SetPID, KillersHaveTargets, Persist
<1> QED
  BY <1>1, <1>2, <1>3, <1>4, <1>5, <1>6, <1>7 DEF IInv

\* Without a pid the task is nobody's target.
LEMMA SetPIDFailsKeeps ==
  ASSUME IInv, NEW t \in Tasks, SetPIDFails(t)
  PROVE  IInv'
<1>1. TypeOK'
  BY DEF IInv, SetPIDFails, TypeOK, PersistFails
<1>2. KillIntentStands'
  BY DEF IInv, SetPIDFails, KillIntentStands, PersistFails
<1>3. OneKillerPerTask'
  BY DEF IInv, SetPIDFails, OneKillerPerTask
<1>4. ReportedTasksHaveEnded'
  BY DEF IInv, SetPIDFails, ReportedTasksHaveEnded, PersistFails
<1>5. FilesFollowTheTable'
  BY DEF IInv, SetPIDFails, FilesFollowTheTable, PersistFails
<1>6. LaunchesFit'
  BY DEF IInv, SetPIDFails, LaunchesFit, PersistFails
<1>7. KillersHaveTargets'
  BY DEF IInv, SetPIDFails, KillersHaveTargets, PersistFails
<1> QED
  BY <1>1, <1>2, <1>3, <1>4, <1>5, <1>6, <1>7 DEF IInv

\* The task that is given up has no pid, so no kill is under way for it.
LEMMA AbandonChildKeeps ==
  ASSUME IInv, NEW t \in Tasks, AbandonChild(t)
  PROVE  IInv'
<1>1. TypeOK'
  <2>1. mem' \in [Tasks -> Task] /\ disk' \in [Tasks -> Task] /\ lost' \subseteq Tasks
    BY StatusUpdate DEF IInv, TypeOK, AbandonChild, PersistFails, Finals
  <2> QED
    BY <2>1 DEF IInv, TypeOK, KillersHaveTargets, AbandonChild
<1>2. KillIntentStands'
  BY DEF IInv, AbandonChild, TypeOK, KillIntentStands, KillersHaveTargets, LaunchesFit,
     Persist, PersistFails, UpdateStatus
<1>3. OneKillerPerTask'
  BY DEF IInv, AbandonChild, OneKillerPerTask
<1>4. ReportedTasksHaveEnded'
  BY DEF IInv, AbandonChild, TypeOK, ReportedTasksHaveEnded, Persist, PersistFails,
     UpdateStatus, Task
<1>5. FilesFollowTheTable'
  BY DEF IInv, AbandonChild, FilesFollowTheTable, Persist, PersistFails, UpdateStatus
<1>6. LaunchesFit'
  BY SMTT(60) DEF IInv, AbandonChild, TypeOK, LaunchesFit, Persist, PersistFails, UpdateStatus,
     Task
<1>7. KillersHaveTargets'
  BY ZenonT(60) DEF IInv, AbandonChild, TypeOK, KillersHaveTargets, LaunchesFit, Persist,
     PersistFails, UpdateStatus, Goto, Return, Targets, Task, Finals, Absent
<1> QED
  BY <1>1, <1>2, <1>3, <1>4, <1>5, <1>6, <1>7 DEF IInv

\* An exit is not yet reported.
LEMMA ChildExitsKeeps ==
  ASSUME IInv, NEW t \in Tasks, ChildExits(t)
  PROVE  IInv'
<1>1. TypeOK'
  BY DEF IInv, ChildExits, TypeOK
<1>2. KillIntentStands'
  BY DEF IInv, ChildExits, KillIntentStands
<1>3. OneKillerPerTask'
  BY DEF IInv, ChildExits, OneKillerPerTask
<1>4. ReportedTasksHaveEnded'
  BY DEF IInv, ChildExits, ReportedTasksHaveEnded
<1>5. FilesFollowTheTable'
  BY DEF IInv, ChildExits, FilesFollowTheTable
<1>6. LaunchesFit'
  BY DEF IInv, ChildExits, LaunchesFit
<1>7. KillersHaveTargets'
  BY DEF IInv, ChildExits, KillersHaveTargets
<1> QED
  BY <1>1, <1>2, <1>3, <1>4, <1>5, <1>6, <1>7 DEF IInv

\* The exit of a running task is recorded, or its record is lost; a task that is marked
\* killed is left as it is.
LEMMA OnExitKeeps ==
  ASSUME IInv, NEW t \in Tasks, OnExit(t)
  PROVE  IInv'
<1>1. TypeOK'
  <2>1. mem' \in [Tasks -> Task] /\ disk' \in [Tasks -> Task] /\ lost' \subseteq Tasks
    BY StatusUpdate DEF IInv, TypeOK, OnExit, PersistFails, Finals
  <2> QED
    BY <2>1 DEF IInv, TypeOK, KillersHaveTargets, OnExit
<1>2. KillIntentStands'
  BY DEF IInv, OnExit, TypeOK, KillIntentStands, KillersHaveTargets, Persist,
     PersistFails, UpdateStatus
<1>3. OneKillerPerTask'
  BY DEF IInv, OnExit, OneKillerPerTask
<1>4. ReportedTasksHaveEnded'
  BY DEF IInv, OnExit, TypeOK, ReportedTasksHaveEnded, Persist, PersistFails,
     UpdateStatus, Task
<1>5. FilesFollowTheTable'
  BY DEF IInv, OnExit, TypeOK, FilesFollowTheTable, Persist, PersistFails, UpdateStatus,
     Goto, Return, Targets, Task, Finals, Absent
<1>6. LaunchesFit'
  BY DEF IInv, OnExit, TypeOK, LaunchesFit, Persist, PersistFails, UpdateStatus, Task
<1>7. KillersHaveTargets'
  BY StatusUpdate DEF IInv, OnExit, KillersHaveTargets, PersistFails, Finals
<1> QED
  BY <1>1, <1>2, <1>3, <1>4, <1>5, <1>6, <1>7 DEF IInv

\* killTarget finds a pid.
LEMMA KillKeeps ==
  ASSUME IInv, NEW k \in Killers, Kill(k)
  PROVE  IInv'
<1>1. TypeOK'
  BY DEF IInv, Kill, TypeOK, Goto
<1>2. KillIntentStands'
  BY DEF IInv, Kill, KillIntentStands, Goto
<1>3. OneKillerPerTask'
  BY DEF IInv, Kill, OneKillerPerTask, Goto
<1>4. ReportedTasksHaveEnded'
  BY DEF IInv, Kill, ReportedTasksHaveEnded
<1>5. FilesFollowTheTable'
  BY DEF IInv, Kill, FilesFollowTheTable
<1>6. LaunchesFit'
  BY DEF IInv, Kill, LaunchesFit
<1>7. KillersHaveTargets'
  BY DEF IInv, Kill, KillersHaveTargets, Goto, Targets
<1> QED
  BY <1>1, <1>2, <1>3, <1>4, <1>5, <1>6, <1>7 DEF IInv

\* The snapshot of the running tasks changes nothing.
LEMMA KillRunningKeeps ==
  ASSUME IInv, NEW k \in Killers, KillRunning(k)
  PROVE  IInv'
<1>1. TypeOK'
  BY DEF IInv, KillRunning, TypeOK, Goto
<1>2. KillIntentStands'
  BY DEF IInv, KillRunning, KillIntentStands, Goto
<1>3. OneKillerPerTask'
  BY DEF IInv, KillRunning, OneKillerPerTask, Goto
<1>4. ReportedTasksHaveEnded'
  BY DEF IInv, KillRunning, ReportedTasksHaveEnded
<1>5. FilesFollowTheTable'
  BY DEF IInv, KillRunning, FilesFollowTheTable
<1>6. LaunchesFit'
  BY DEF IInv, KillRunning, LaunchesFit
<1>7. KillersHaveTargets'
  BY DEF IInv, KillRunning, KillersHaveTargets, Goto
<1> QED
  BY <1>1, <1>2, <1>3, <1>4, <1>5, <1>6, <1>7 DEF IInv

\* The next task of the snapshot is looked up again, pid and all.
LEMMA KillNextKeeps ==
  ASSUME IInv, NEW k \in Killers, KillNext(k)
  PROVE  IInv'
<1>1. TypeOK'
  BY DEF IInv, KillNext, TypeOK, Goto
<1>2. KillIntentStands'
  BY DEF IInv, KillNext, TypeOK, KillIntentStands, Goto
<1>3. OneKillerPerTask'
  BY DEF IInv, KillNext, TypeOK, OneKillerPerTask, Goto
<1>4. ReportedTasksHaveEnded'
  BY DEF IInv, KillNext, ReportedTasksHaveEnded
<1>5. FilesFollowTheTable'
  BY DEF IInv, KillNext, FilesFollowTheTable
<1>6. LaunchesFit'
  BY DEF IInv, KillNext, LaunchesFit
<1>7. KillersHaveTargets'
  BY DEF IInv, KillNext, TypeOK, KillersHaveTargets, Goto, Targets
<1> QED
  BY <1>1, <1>2, <1>3, <1>4, <1>5, <1>6, <1>7 DEF IInv

\* Who marks a running task is its only killer: of two, the second finds it marked.
LEMMA MarkKilledKeeps ==
  ASSUME IInv, NEW k \in Killers, MarkKilled(k)
  PROVE  IInv'
<1>1. TypeOK'
  <2>1. mem' \in [Tasks -> Task] /\ disk' \in [Tasks -> Task] /\ lost' \subseteq Tasks
    BY StatusUpdate DEF IInv, TypeOK, KillersHaveTargets, MarkKilled, PersistFails, Finals
  <2> QED
    BY <2>1 DEF IInv, TypeOK, MarkKilled, Goto, Return
<1>2. KillIntentStands'
  BY StatusUpdate DEF IInv, MarkKilled, KillersHaveTargets, KillIntentStands, TypeOK,
     PersistFails, Finals, Goto, Return
<1>3. OneKillerPerTask'
  BY DEF IInv, MarkKilled, TypeOK, KillIntentStands, OneKillerPerTask, Goto, Return
<1>4. ReportedTasksHaveEnded'
  BY DEF IInv, MarkKilled, TypeOK, ReportedTasksHaveEnded, Persist, PersistFails,
     UpdateStatus
<1>5. FilesFollowTheTable'
  BY DEF IInv, MarkKilled, FilesFollowTheTable, Persist, PersistFails, UpdateStatus
<1>6. LaunchesFit'
  BY DEF IInv, MarkKilled, TypeOK, LaunchesFit, KillersHaveTargets, Persist, PersistFails,
     UpdateStatus
<1>7. KillersHaveTargets'
  BY SMTT(60), StatusUpdate DEF IInv, MarkKilled, KillersHaveTargets, TypeOK, PersistFails, Finals,
     Goto, Return
<1> QED
  BY <1>1, <1>2, <1>3, <1>4, <1>5, <1>6, <1>7 DEF IInv

\* A kill that succeeded has nothing left to do.
LEMMA KillDoneKeeps ==
  ASSUME IInv, NEW k \in Killers, KillDone(k)
  PROVE  IInv'
<1>1. TypeOK'
  BY DEF IInv, KillDone, TypeOK, Goto, Return
<1>2. KillIntentStands'
  BY DEF IInv, KillDone, KillIntentStands, Goto, Return
<1>3. OneKillerPerTask'
  BY DEF IInv, KillDone, OneKillerPerTask, Goto, Return
<1>4. ReportedTasksHaveEnded'
  BY DEF IInv, KillDone, ReportedTasksHaveEnded
<1>5. FilesFollowTheTable'
  BY DEF IInv, KillDone, FilesFollowTheTable
<1>6. LaunchesFit'
  BY DEF IInv, KillDone, LaunchesFit
<1>7. KillersHaveTargets'
  BY DEF IInv, KillDone, KillersHaveTargets, Goto, Return
<1> QED
  BY <1>1, <1>2, <1>3, <1>4, <1>5, <1>6, <1>7 DEF IInv

\* The rollback of a failed kill is still to come, and the mark still stands.
LEMMA KillFailsKeeps ==
  ASSUME IInv, NEW k \in Killers, KillFails(k)
  PROVE  IInv'
<1>1. TypeOK'
  BY DEF IInv, KillFails, TypeOK, Goto
<1>2. KillIntentStands'
  BY DEF IInv, KillFails, KillIntentStands, Goto
<1>3. OneKillerPerTask'
  BY DEF IInv, KillFails, OneKillerPerTask, Goto
<1>4. ReportedTasksHaveEnded'
  BY DEF IInv, KillFails, ReportedTasksHaveEnded
<1>5. FilesFollowTheTable'
  BY DEF IInv, KillFails, FilesFollowTheTable
<1>6. LaunchesFit'
  BY DEF IInv, KillFails, LaunchesFit
<1>7. KillersHaveTargets'
  BY DEF IInv, KillFails, KillersHaveTargets, Goto
<1> QED
  BY <1>1, <1>2, <1>3, <1>4, <1>5, <1>6, <1>7 DEF IInv

\* The rollback undoes its own mark; that it may revive a task is noted in lost.
LEMMA RestoreRunningKeeps ==
  ASSUME IInv, NEW k \in Killers, RestoreRunning(k)
  PROVE  IInv'
<1>1. TypeOK'
  <2>1. mem' \in [Tasks -> Task] /\ disk' \in [Tasks -> Task] /\ lost' \subseteq Tasks
    BY StatusUpdate DEF IInv, TypeOK, KillersHaveTargets, RestoreRunning, PersistFails
  <2> QED
    BY <2>1 DEF IInv, TypeOK, RestoreRunning, Goto, Return
<1>2. KillIntentStands'
  BY DEF IInv, RestoreRunning, TypeOK, KillIntentStands, OneKillerPerTask,
     KillersHaveTargets, Persist, PersistFails, UpdateStatus, Goto, Return
<1>3. OneKillerPerTask'
  BY DEF IInv, RestoreRunning, OneKillerPerTask, Goto, Return
<1>4. ReportedTasksHaveEnded'
  BY DEF IInv, RestoreRunning, TypeOK, ReportedTasksHaveEnded, Persist, PersistFails,
     UpdateStatus
<1>5. FilesFollowTheTable'
  BY DEF IInv, RestoreRunning, FilesFollowTheTable, Persist, PersistFails, UpdateStatus
<1>6. LaunchesFit'
  BY DEF IInv, RestoreRunning, TypeOK, LaunchesFit, KillersHaveTargets, Persist,
     PersistFails, UpdateStatus
<1>7. KillersHaveTargets'
  BY DEF IInv, RestoreRunning, TypeOK, KillersHaveTargets, Persist, PersistFails,
     UpdateStatus, Goto, Return, Task
<1> QED
  BY <1>1, <1>2, <1>3, <1>4, <1>5, <1>6, <1>7 DEF IInv

\* Another manager changes the files and not this table.
LEMMA LoadTasksKeeps ==
  ASSUME IInv, LoadTasks
  PROVE  IInv'
<1>1. TypeOK'
  BY DEF IInv, LoadTasks, TypeOK, Task, Finals
<1>2. KillIntentStands'
  BY DEF IInv, LoadTasks, KillIntentStands
<1>3. OneKillerPerTask'
  BY DEF IInv, LoadTasks, OneKillerPerTask
<1>4. ReportedTasksHaveEnded'
  BY DEF IInv, LoadTasks, ReportedTasksHaveEnded
<1>5. FilesFollowTheTable'
  BY DEF IInv, LoadTasks, TypeOK, FilesFollowTheTable
<1>6. LaunchesFit'
  BY DEF IInv, LoadTasks, LaunchesFit
<1>7. KillersHaveTargets'
  BY DEF IInv, LoadTasks, KillersHaveTargets
<1> QED
  BY <1>1, <1>2, <1>3, <1>4, <1>5, <1>6, <1>7 DEF IInv

\* An empty table satisfies the invariant.
LEMMA InitIInv == Init => IInv
<1> SUFFICES ASSUME Init PROVE IInv
  OBVIOUS
<1>1. TypeOK
  BY DEF Init, TypeOK, Task, Absent
<1>2. KillIntentStands
  BY DEF Init, KillIntentStands
<1>3. OneKillerPerTask
  BY DEF Init, OneKillerPerTask
<1>4. ReportedTasksHaveEnded
  BY DEF Init, ReportedTasksHaveEnded
<1>5. FilesFollowTheTable
  BY DEF Init, FilesFollowTheTable
<1>6. LaunchesFit
  BY DEF Init, LaunchesFit, Absent
<1>7. KillersHaveTargets
  BY DEF Init, KillersHaveTargets
<1> QED
  BY <1>1, <1>2, <1>3, <1>4, <1>5, <1>6, <1>7 DEF IInv

\* Every step keeps it.
LEMMA NextKeepsIInv ==
  ASSUME IInv, [Next]_vars
  PROVE  IInv'
<1>1. CASE Next
  BY <1>1, RegisterKeeps, LaunchChildKeeps, LaunchFailsKeeps, SetPIDKeeps,
     SetPIDFailsKeeps, AbandonChildKeeps, ChildExitsKeeps, OnExitKeeps, KillKeeps,
     KillRunningKeeps, KillNextKeeps, MarkKilledKeeps, KillDoneKeeps, KillFailsKeeps,
     RestoreRunningKeeps, LoadTasksKeeps DEF Next, TaskStep, KillStep
<1>2. CASE UNCHANGED vars
  BY <1>2 DEF vars, IInv, TypeOK, KillIntentStands, OneKillerPerTask,
     ReportedTasksHaveEnded, FilesFollowTheTable, LaunchesFit, KillersHaveTargets
<1> QED
  BY <1>1, <1>2

\* The invariant holds in every behaviour.
LEMMA Inductive == Spec => []IInv
<1>1. IInv /\ [Next]_vars => IInv'
  BY NextKeepsIInv
<1> QED
  BY <1>1, InitIInv, PTL DEF Spec


-----------------------------------------------------------------------------

\* The records stay true while kills, exits, late pids and failed writes race:
\* markKilledIfStillRunning before any signal, MarkExited on running tasks only
\* (manager.go).
THEOREM RecordsStayTrue == Spec => []RecordsAreTrue
<1>1. IInv => RecordsAreTrue
  BY DEF IInv, RecordsAreTrue
<1> QED
  BY <1>1, Inductive, PTL

\* What FinalsAreNotRevived says of one task.
FinalIsNotRevived(t) ==
    mem[t].status \in Finals /\ mem'[t].status # mem[t].status
      => \/ /\ mem[t].status = "killed" /\ mem'[t].status = "running"
            /\ \E k \in Killers : killer[k].at = "restore" /\ killer[k].task = t
         \/ launch[t] = "untracked" /\ mem'[t].status = "error"

\* An exit or a late pid never revives a task: only restoreRunningAfterFailedKill
\* and the launch that gives up on its child change a final status.
THEOREM FinalsStayFinal == Spec => FinalsAreNotRevived
<1>1. ASSUME IInv, [Next]_vars
      PROVE  [\A t \in Tasks : FinalIsNotRevived(t)]_vars
  <2> SUFFICES ASSUME Next, NEW t \in Tasks
               PROVE  FinalIsNotRevived(t)
    BY <1>1
  <2>1. CASE \E s \in Tasks : TaskStep(s)
    <3> PICK s \in Tasks : TaskStep(s)
      BY <2>1
    <3> QED
      BY <1>1 DEF IInv, TypeOK, LaunchesFit, FinalIsNotRevived, TaskStep, Register,
         LaunchChild, LaunchFails, SetPID, SetPIDFails, AbandonChild, ChildExits, OnExit,
         Persist, PersistFails, UpdateStatus, Task, Finals
  <2>2. ASSUME NEW k \in Killers, Kill(k) \/ KillRunning(k) \/ KillNext(k) \/ KillDone(k) \/ KillFails(k)
        PROVE  FinalIsNotRevived(t)
    BY <2>2 DEF FinalIsNotRevived, Kill, KillRunning, KillNext, KillDone, KillFails
  <2>3. ASSUME NEW k \in Killers, MarkKilled(k)
        PROVE  FinalIsNotRevived(t)
    BY <1>1, <2>3 DEF IInv, TypeOK, FinalIsNotRevived, MarkKilled, Persist, PersistFails,
       UpdateStatus, Finals
  <2>4. ASSUME NEW k \in Killers, RestoreRunning(k)
        PROVE  FinalIsNotRevived(t)
    BY SMTT(60), <1>1, <2>4 DEF IInv, TypeOK, KillersHaveTargets, FinalIsNotRevived, RestoreRunning,
       Persist, PersistFails, UpdateStatus, Task
  <2>5. CASE LoadTasks
    BY <2>5 DEF FinalIsNotRevived, LoadTasks
  <2> QED
    BY <2>1, <2>2, <2>3, <2>4, <2>5 DEF Next, KillStep
<1> QED
  BY <1>1, Inductive, PTL DEF Spec, FinalsAreNotRevived, FinalIsNotRevived

-----------------------------------------------------------------------------
(* The background terminals.                                               *)

CONSTANTS MaxStarts, Ttys, Callers, MaxProcesses, EvictAbove, Cap
VARIABLES life, buffer, trunc, table, earlier, pc, fresh, on, aims, cut, saw

\* The process manager of internal/execution.
PM == INSTANCE ProcessManager

\* A call is about a process that was started, and about none when it is over.
CallsFit ==
    \A c \in Callers :
       /\ pc[c] # "idle" => on[c] \in PM!Procs
       /\ on[c] \in PM!Procs => life[on[c]] # "unborn"

\* A process that is about to be stored is known to its starter only.
StoredAreNew ==
    /\ \A p \in table : life[p] # "unborn"
    /\ \A c \in Callers : pc[c] = "store" =>
          on[c] \notin table /\ \A d \in Callers : d # c => on[d] # on[c]

\* A call that removes its process has read its exit code.
RemovedHaveEnded == \A c \in Callers : pc[c] = "remove" => PM!HasExitCode(on[c])

\* Those about to write to p that it was evicted.
Noting(p) == {d \in Callers : pc[d] = "note" /\ p \in aims[d]}

\* After its last drain a call that found done closed has left nothing behind, and
\* for what others still have to write there is room.
SeenIsComplete ==
    \A c \in Callers : saw[c] =>
       /\ pc[c] \in {"last", "lastmark", "report", "remove"}
       /\ PM!Done(on[c])
       /\ pc[c] # "last" => /\ ~PM!HasOutput(on[c])
                            /\ Len(buffer[on[c]]) + Cardinality(Noting(on[c])) <= Cap
       /\ pc[c] \in {"report", "remove"} => ~trunc[on[c]]

\* All of it, and what ProcessManager assumes of its constants.
ProcessesIInv ==
    /\ PM!ProcessManagerAssumption
    /\ PM!TypeOK /\ CallsFit /\ StoredAreNew
    /\ RemovedHaveEnded /\ PM!LiveProcessesAreListed /\ SeenIsComplete

\* The callers, in the terms of FiniteSets: the instance has its own.
LEMMA CallersAreFew ==
  ASSUME ProcessesIInv
  PROVE  IsFiniteSet(Callers) /\ Cardinality(Callers) <= Cap + 1
BY DEF ProcessesIInv, PM!ProcessManagerAssumption, PM!IsFiniteSet, PM!Cardinality, IsFiniteSet,
   Cardinality

\* At the start.
LEMMA ProcessesInit ==
  ASSUME PM!ProcessManagerAssumption, PM!Init
  PROVE  ProcessesIInv
<1>1. PM!Dated = {}
  BY DEF PM!Init, PM!Dated
<1>2. PM!TypeOK
  <2>1. buffer \in [PM!Procs -> Seq({"out", "note"})] /\ \A p \in PM!Procs : Len(buffer[p]) <= Cap
    BY EmptySeq DEF PM!Init, PM!ProcessManagerAssumption
  <2> QED
    BY <1>1, <2>1 DEF PM!Init, PM!TypeOK, PM!TimesAreOrdered, PM!None
<1>3. CallsFit /\ StoredAreNew /\ RemovedHaveEnded /\ PM!LiveProcessesAreListed /\ SeenIsComplete
  BY DEF PM!Init, CallsFit, StoredAreNew, RemovedHaveEnded, PM!LiveProcessesAreListed,
     SeenIsComplete, PM!None, PM!Procs
<1> QED
  BY <1>2, <1>3 DEF ProcessesIInv

\* A step that leaves the table and the times of use alone, and nobody about to
\* store something else.
LEMMA ListFrame ==
  ASSUME ProcessesIInv, UNCHANGED PM!list,
         \A c \in Callers : /\ pc'[c] = "store" <=> pc[c] = "store"
                            /\ on'[c] = on[c] \/ (pc[c] # "store" /\ on'[c] = PM!None),
         \A p \in PM!Procs : life[p] # "unborn" => life'[p] # "unborn"
  PROVE  /\ table' \subseteq PM!Procs /\ earlier' \in [PM!Procs -> SUBSET PM!Dated'] /\ PM!TimesAreOrdered'
         /\ StoredAreNew'
<1>1. table' = table /\ earlier' = earlier
  BY DEF PM!list
<1>2. PM!Dated' = PM!Dated
  BY <1>1 DEF PM!Dated
<1>3. PM!TimesAreOrdered'
  BY <1>1, <1>2 DEF ProcessesIInv, PM!TypeOK, PM!TimesAreOrdered
<1>4. StoredAreNew'
  BY SMTT(60), <1>1 DEF ProcessesIInv, PM!TypeOK, CallsFit, StoredAreNew, PM!None, PM!Procs
<1> QED
  BY <1>1, <1>2, <1>3, <1>4 DEF ProcessesIInv, PM!TypeOK

\* An end is an end: what has an exit code, or no life yet, does not run again.
Ages ==
    \A p \in PM!Procs :
       /\ PM!HasExitCode(p) => PM!HasExitCode(p)'
       /\ PM!Done(p) => PM!Done(p)'
       /\ life[p] # "unborn" => life'[p] # "unborn"
       /\ life[p] \in {"unborn", "exited", "done"} => life'[p] \notin {"running", "killed", "reaped"}

\* A step of others than those who have seen an end.
LEMMA SeenFrame ==
  ASSUME ProcessesIInv, PM!TypeOK', \A p \in PM!Procs : PM!Done(p) => PM!Done(p)',
         \A c \in Callers : saw'[c] => /\ saw[c] /\ on'[c] = on[c]
                                       /\ pc'[c] = pc[c] \/ (pc[c] = "report" /\ pc'[c] = "remove"),
         \A p \in PM!Procs : PM!Done(p) => /\ Noting(p)' \subseteq Noting(p)
                                           /\ Len(buffer'[p]) <= Len(buffer[p])
                                           /\ PM!HasOutput(p)' => PM!HasOutput(p)
                                           /\ trunc'[p] => trunc[p]
  PROVE  SeenIsComplete'
<1> SUFFICES ASSUME NEW c \in Callers, saw'[c]
             PROVE  /\ pc'[c] \in {"last", "lastmark", "report", "remove"}
                    /\ PM!Done(on[c])'
                    /\ pc'[c] # "last" => /\ ~PM!HasOutput(on[c])'
                                          /\ Len(buffer'[on'[c]]) + Cardinality(Noting(on[c])') <= Cap
                    /\ pc'[c] \in {"report", "remove"} => ~trunc'[on'[c]]
  BY DEF SeenIsComplete
<1>1. /\ saw[c] /\ on'[c] = on[c] /\ on[c] \in PM!Procs
      /\ pc[c] \in {"last", "lastmark", "report", "remove"}
      /\ pc'[c] = pc[c] \/ (pc[c] = "report" /\ pc'[c] = "remove")
  BY DEF ProcessesIInv, SeenIsComplete, CallsFit
<1>2. PM!Done(on[c]) /\ PM!Done(on[c])'
  BY <1>1 DEF ProcessesIInv, SeenIsComplete
<1> DEFINE p == on[c]
<1>3. /\ Noting(p)' \subseteq Noting(p) /\ Len(buffer'[p]) <= Len(buffer[p])
      /\ PM!HasOutput(on[c])' => PM!HasOutput(on[c])
      /\ trunc'[p] => trunc[p]
  BY <1>1, <1>2 DEF PM!HasOutput, Noting
<1>4. /\ Cardinality(Noting(p)') \in Nat /\ Cardinality(Noting(p)) \in Nat
      /\ Cardinality(Noting(p)') <= Cardinality(Noting(p))
  <2>1. IsFiniteSet(Noting(p))
    BY CallersAreFew, FS_Subset DEF Noting
  <2> QED
    BY <1>3, <2>1, FS_Subset, FS_CardinalityType
<1>5. Len(buffer'[p]) \in Nat /\ Len(buffer[p]) \in Nat /\ Cap \in Nat
  BY <1>1, LenProperties DEF ProcessesIInv, PM!ProcessManagerAssumption, PM!TypeOK
<1>6. Noting(on[c])' = Noting(p)'
  BY <1>1 DEF Noting
<1> QED
  BY SMTT(60), <1>1, <1>2, <1>3, <1>4, <1>5, <1>6 DEF ProcessesIInv, SeenIsComplete

\* One unit more in a buffer.
LEMMA AppendFacts ==
  ASSUME PM!ProcessManagerAssumption, PM!TypeOK, NEW p \in PM!Procs, NEW unit \in {"out", "note"}, PM!Append1(p, unit)
  PROVE  /\ buffer' \in [PM!Procs -> Seq({"out", "note"})] /\ \A q \in PM!Procs : Len(buffer'[q]) <= Cap
         /\ \A q \in PM!Procs : q # p => buffer'[q] = buffer[q] /\ trunc'[q] = trunc[q]
         /\ trunc' \in [PM!Procs -> BOOLEAN]
         /\ Len(buffer'[p]) <= Len(buffer[p]) + 1
         /\ Len(buffer[p]) < Cap => trunc'[p] = trunc[p]
         /\ unit # "out" /\ PM!HasOutput(p)' => PM!HasOutput(p)
         /\ \A q \in PM!Procs : trunc[q] => trunc'[q]
<1> DEFINE old == buffer[p]
           all == Append(old, unit)
           full == Len(all) > Cap
           new == IF full THEN Tail(all) ELSE all
<1>1. old \in Seq({"out", "note"}) /\ Len(old) \in Nat /\ Len(old) <= Cap /\ Cap \in Nat /\ Cap >= 1
  BY LenProperties DEF PM!TypeOK, PM!ProcessManagerAssumption
<1>2. /\ all \in Seq({"out", "note"}) /\ Len(all) = Len(old) + 1
      /\ \A k \in 1..Len(all) : all[k] = IF k <= Len(old) THEN old[k] ELSE unit
  BY <1>1, AppendProperties
<1>3. all # <<>>
  BY <1>1, <1>2
<1>4. /\ Tail(all) \in Seq({"out", "note"}) /\ Len(Tail(all)) = Len(old)
      /\ \A k \in 1..Len(old) : Tail(all)[k] = all[k + 1]
  BY <1>1, <1>2, <1>3, HeadTailProperties
<1>5. new \in Seq({"out", "note"}) /\ Len(new) <= Cap /\ Len(new) <= Len(old) + 1 /\ (full <=> Len(old) + 1 > Cap)
  BY SMTT(60), <1>1, <1>2, <1>4
<1>6. \A k \in DOMAIN new : new[k] = unit \/ \E j \in DOMAIN old : new[k] = old[j]
  <2>1. DOMAIN old = 1..Len(old) /\ DOMAIN all = 1..Len(all) /\ DOMAIN Tail(all) = 1..Len(Tail(all))
    BY <1>1, <1>2, <1>4, LenProperties
  <2> HIDE DEF old, all
  <2>2. ASSUME NEW k \in DOMAIN all PROVE all[k] = unit \/ \E j \in DOMAIN old : all[k] = old[j]
    BY <1>1, <1>2, <2>1
  <2>3. ASSUME NEW k \in DOMAIN Tail(all) PROVE Tail(all)[k] = unit \/ \E j \in DOMAIN old : Tail(all)[k] = old[j]
    <3>1. k \in 1..Len(old) /\ k + 1 \in DOMAIN all
      BY <1>1, <1>2, <1>4, <2>1
    <3> QED
      BY <3>1, <2>2, <1>4
  <2> QED
    BY <2>2, <2>3
<1>7. /\ buffer' = [buffer EXCEPT ![p] = new]
      /\ trunc' = [trunc EXCEPT ![p] = @ \/ full]
  BY DEF PM!Append1
<1>8. buffer'[p] = new
  BY <1>7 DEF PM!TypeOK
<1> HIDE DEF old, all, full, new
<1>9. buffer' \in [PM!Procs -> Seq({"out", "note"})] /\ \A q \in PM!Procs : Len(buffer'[q]) <= Cap
  BY <1>5, <1>7 DEF PM!TypeOK
<1>10. trunc' \in [PM!Procs -> BOOLEAN] /\ \A q \in PM!Procs : (q # p => trunc'[q] = trunc[q]) /\ (trunc[q] => trunc'[q])
  BY <1>7, Zenon DEF PM!TypeOK
<1>11. Len(old) < Cap => trunc'[p] = trunc[p]
  <2> SUFFICES ASSUME Len(old) < Cap PROVE trunc'[p] = trunc[p]
    OBVIOUS
  <2>1. ~full
    BY <1>1, <1>5
  <2> QED
    BY <1>7, <2>1, Zenon DEF PM!TypeOK
<1>12. unit # "out" /\ PM!HasOutput(p)' => PM!HasOutput(p)
  BY <1>6, <1>8 DEF PM!HasOutput, old
<1> QED
  BY <1>5, <1>7, <1>8, <1>9, <1>10, <1>11, <1>12 DEF PM!TypeOK, old

\* The types, apart from those of the table and of the times of use.
CallTypes ==
    /\ life \in [PM!Procs -> {"unborn", "running", "killed", "reaped", "exited", "done"}]
    /\ buffer \in [PM!Procs -> Seq({"out", "note"})]
    /\ \A p \in PM!Procs : Len(buffer[p]) <= Cap
    /\ trunc \in [PM!Procs -> BOOLEAN]
    /\ fresh \in [Callers -> BOOLEAN]
    /\ aims \in [Callers -> SUBSET PM!Procs]
    /\ cut \in [Callers -> BOOLEAN]
    /\ saw \in [Callers -> BOOLEAN]

\* A step of a call that stores nothing and starts nothing.
LEMMA CallStep ==
  ASSUME ProcessesIInv, CallTypes', Ages, UNCHANGED PM!list,
         NEW c \in Callers, pc[c] \notin {"idle", "store"},
         NEW to \in {"idle", "note", "kill", "input", "drain",
                     "mark", "wait", "last", "lastmark", "report", "remove"},
         PM!Go(c, to),
         on' = on \/ (to = "idle" /\ on' = [on EXCEPT ![c] = PM!None]),
         to = "remove" => PM!HasExitCode(on[c])
  PROVE  /\ PM!TypeOK' /\ CallsFit' /\ StoredAreNew' /\ RemovedHaveEnded' /\ PM!LiveProcessesAreListed'
         /\ pc'[c] = to /\ \A d \in Callers : d # c => pc'[d] = pc[d] /\ on'[d] = on[d]
<1>1. pc'[c] = to /\ \A d \in Callers : d # c => pc'[d] = pc[d] /\ on'[d] = on[d]
  BY DEF ProcessesIInv, PM!TypeOK, PM!Go
<1>2. on'[c] = on[c] \/ (to = "idle" /\ on'[c] = PM!None)
  BY DEF ProcessesIInv, PM!TypeOK
<1>3. \A d \in Callers : /\ pc'[d] = "store" <=> pc[d] = "store"
                         /\ on'[d] = on[d] \/ (pc[d] # "store" /\ on'[d] = PM!None)
  <2> SUFFICES ASSUME NEW d \in Callers
               PROVE  /\ pc'[d] = "store" <=> pc[d] = "store"
                      /\ on'[d] = on[d] \/ (pc[d] # "store" /\ on'[d] = PM!None)
    OBVIOUS
  <2>1. CASE d = c
    BY <1>1, <1>2, <2>1
  <2>2. CASE d # c
    BY <1>1, <2>2
  <2> QED
    BY <2>1, <2>2
<1>4. \A p \in PM!Procs : life[p] # "unborn" => life'[p] # "unborn"
  BY DEF Ages
<1>5. /\ table' \subseteq PM!Procs /\ earlier' \in [PM!Procs -> SUBSET PM!Dated'] /\ PM!TimesAreOrdered'
      /\ StoredAreNew'
  BY <1>3, <1>4, ListFrame
<1>6. PM!TypeOK'
  <2>1. pc' \in [Callers -> {"idle", "store", "note", "kill", "input", "drain",
                             "mark", "wait", "last", "lastmark", "report", "remove"}]
    BY DEF ProcessesIInv, PM!TypeOK, PM!Go
  <2>2. on' \in [Callers -> PM!Procs \cup {PM!None}]
    BY DEF ProcessesIInv, PM!TypeOK
  <2> QED
    BY <1>5, <2>1, <2>2 DEF CallTypes, PM!TypeOK
<1>7. CallsFit'
  BY <1>1, <1>2, <1>4 DEF ProcessesIInv, CallsFit, PM!None, PM!Procs
<1>8. RemovedHaveEnded'
  <2> SUFFICES ASSUME NEW d \in Callers, pc'[d] = "remove" PROVE PM!HasExitCode(on[d])'
    BY DEF RemovedHaveEnded
  <2>1. on'[d] = on[d] /\ on[d] \in PM!Procs /\ PM!HasExitCode(on[d])
    BY <1>1, <1>2 DEF ProcessesIInv, CallsFit, RemovedHaveEnded
  <2> QED
    BY <2>1 DEF Ages, PM!HasExitCode
<1>9. PM!LiveProcessesAreListed'
  <2> SUFFICES ASSUME NEW p \in PM!Procs, life'[p] \in {"running", "killed", "reaped"}
               PROVE  p \in table' \/ \E d \in Callers : pc'[d] = "store" /\ on'[d] = p
    BY DEF PM!LiveProcessesAreListed
  <2>1. life[p] \in {"running", "killed", "reaped"}
    BY DEF Ages, ProcessesIInv, PM!TypeOK
  <2> QED
    BY <1>1, <2>1 DEF ProcessesIInv, PM!LiveProcessesAreListed, PM!list
<1> QED
  BY <1>1, <1>5, <1>6, <1>7, <1>8, <1>9

\* A step of a process, of the goroutine that waits for it, or of the user.
LEMMA ProcessStep ==
  ASSUME ProcessesIInv, CallTypes', Ages, UNCHANGED <<PM!list, PM!call>>,
         \A p \in PM!Procs : PM!Done(p) => buffer'[p] = buffer[p] /\ trunc'[p] = trunc[p]
  PROVE  ProcessesIInv'
<1>1. UNCHANGED PM!list /\ \A d \in Callers : pc'[d] = pc[d] /\ on'[d] = on[d]
  BY DEF PM!call
<1>2. \A p \in PM!Procs : life[p] # "unborn" => life'[p] # "unborn"
  BY DEF Ages
<1>3. /\ table' \subseteq PM!Procs /\ earlier' \in [PM!Procs -> SUBSET PM!Dated'] /\ PM!TimesAreOrdered'
      /\ StoredAreNew'
  BY <1>1, <1>2, ListFrame
<1>4. PM!TypeOK'
  BY <1>3 DEF CallTypes, ProcessesIInv, PM!TypeOK, PM!call
<1>5. CallsFit'
  BY <1>1, <1>2 DEF ProcessesIInv, CallsFit
<1>6. RemovedHaveEnded'
  BY <1>1 DEF ProcessesIInv, CallsFit, RemovedHaveEnded, Ages, PM!HasExitCode
<1>7. PM!LiveProcessesAreListed'
  <2> SUFFICES ASSUME NEW p \in PM!Procs, life'[p] \in {"running", "killed", "reaped"}
               PROVE  p \in table' \/ \E d \in Callers : pc'[d] = "store" /\ on'[d] = p
    BY DEF PM!LiveProcessesAreListed
  <2>1. life[p] \in {"running", "killed", "reaped"}
    BY DEF Ages, ProcessesIInv, PM!TypeOK
  <2> QED
    BY <1>1, <2>1 DEF ProcessesIInv, PM!LiveProcessesAreListed, PM!list
<1>8. SeenIsComplete'
  <2>1. \A p \in PM!Procs : PM!Done(p) => /\ Noting(p)' \subseteq Noting(p)
                                          /\ Len(buffer'[p]) <= Len(buffer[p])
                                          /\ PM!HasOutput(p)' => PM!HasOutput(p)
                                          /\ trunc'[p] => trunc[p]
    BY LenProperties DEF ProcessesIInv, PM!TypeOK, Noting, PM!HasOutput, PM!call
  <2>2. \A c \in Callers : saw'[c] => /\ saw[c] /\ on'[c] = on[c]
                                      /\ pc'[c] = pc[c] \/ (pc[c] = "report" /\ pc'[c] = "remove")
    BY DEF PM!call
  <2> QED
    BY <1>4, <2>1, <2>2, SeenFrame DEF Ages
<1> QED
  BY <1>3, <1>4, <1>5, <1>6, <1>7, <1>8 DEF ProcessesIInv, PM!ProcessManagerAssumption

\* Nothing happens to the processes.
LEMMA SameLife == ASSUME life' = life PROVE Ages
BY DEF Ages, PM!HasExitCode, PM!Done

-----------------------------------------------------------------------------
(* Processes.                                                              *)

\* Only a process that has not ended writes.
LEMMA WriteKeeps ==
  ASSUME ProcessesIInv, NEW p \in PM!Procs, PM!Write(p)
  PROVE  ProcessesIInv'
<1>1. life' = life /\ UNCHANGED <<PM!list, PM!call>> /\ PM!Append1(p, "out") /\ ~PM!Done(p)
  BY DEF PM!Write, PM!Done
<1>2. Ages
  BY <1>1, SameLife
<1>3. CallTypes' /\ \A q \in PM!Procs : q # p => buffer'[q] = buffer[q] /\ trunc'[q] = trunc[q]
  BY <1>1, AppendFacts DEF ProcessesIInv, PM!TypeOK, CallTypes, PM!call
<1> QED
  BY <1>1, <1>2, <1>3, ProcessStep

\* The stages of the end of a process, and its kill.
LEMMA BecomesKeeps ==
  ASSUME ProcessesIInv, NEW p \in PM!Procs, NEW from, NEW to, PM!Becomes(p, from, to),
         \/ from = {"running", "killed"} /\ to = "reaped"
         \/ from = {"reaped"} /\ to = "exited"
         \/ from = {"exited"} /\ to = "done"
         \/ from = {"running"} /\ to = "killed"
  PROVE  ProcessesIInv'
<1>1. /\ life[p] \in from /\ UNCHANGED <<buffer, trunc, PM!list, PM!call>>
      /\ life'[p] = to /\ \A q \in PM!Procs : q # p => life'[q] = life[q]
      /\ life' \in [PM!Procs -> {"unborn", "running", "killed", "reaped", "exited", "done"}]
  BY DEF PM!Becomes, ProcessesIInv, PM!TypeOK
<1>2. Ages
  BY <1>1 DEF Ages, PM!HasExitCode, PM!Done
<1>3. CallTypes'
  BY <1>1 DEF ProcessesIInv, PM!TypeOK, CallTypes, PM!call
<1> QED
  BY <1>1, <1>2, <1>3, ProcessStep

\* A stop by the user is a kill of a process that runs.
LEMMA StopKeeps ==
  ASSUME ProcessesIInv, NEW p \in PM!Procs, PM!Stop(p)
  PROVE  ProcessesIInv'
<1>1. PM!Becomes(p, {"running"}, "killed")
  BY DEF PM!Stop, PM!Becomes
<1> QED
  BY <1>1, BecomesKeeps

-----------------------------------------------------------------------------
(* Calls.                                                                  *)

\* A step of a call that takes nothing out of what one who saw an end has left.
LEMMA QuietStep ==
  ASSUME ProcessesIInv, CallTypes', Ages, UNCHANGED PM!list,
         NEW c \in Callers, pc[c] \notin {"idle", "store"},
         NEW to \in {"idle", "kill", "input", "drain",
                     "mark", "wait", "last", "lastmark", "report", "remove"},
         PM!Go(c, to),
         on' = on \/ (to = "idle" /\ on' = [on EXCEPT ![c] = PM!None]),
         to = "remove" => PM!HasExitCode(on[c]),
         \A d \in Callers : d # c => aims'[d] = aims[d] /\ saw'[d] = saw[d],
         ~saw'[c] \/ (saw[c] /\ pc[c] = "report" /\ to = "remove"),
         \A p \in PM!Procs : PM!Done(p) => /\ Len(buffer'[p]) <= Len(buffer[p])
                                           /\ PM!HasOutput(p)' => PM!HasOutput(p)
                                           /\ trunc'[p] => trunc[p]
  PROVE  ProcessesIInv'
<1>1. /\ PM!TypeOK' /\ CallsFit' /\ StoredAreNew' /\ RemovedHaveEnded' /\ PM!LiveProcessesAreListed'
      /\ pc'[c] = to /\ \A d \in Callers : d # c => pc'[d] = pc[d] /\ on'[d] = on[d]
  BY CallStep
<1>2. \A d \in Callers : saw'[d] => /\ saw[d] /\ on'[d] = on[d]
                                    /\ pc'[d] = pc[d] \/ (pc[d] = "report" /\ pc'[d] = "remove")
  <2> SUFFICES ASSUME NEW d \in Callers, saw'[d]
               PROVE  /\ saw[d] /\ on'[d] = on[d]
                      /\ pc'[d] = pc[d] \/ (pc[d] = "report" /\ pc'[d] = "remove")
    OBVIOUS
  <2>1. CASE d = c
    BY <1>1, <2>1
  <2>2. CASE d # c
    BY <1>1, <2>2
  <2> QED
    BY <2>1, <2>2
<1>3. \A p \in PM!Procs : Noting(p)' \subseteq Noting(p)
  <2> SUFFICES ASSUME NEW p \in PM!Procs, NEW d \in Callers, pc'[d] = "note", p \in aims'[d]
               PROVE  pc[d] = "note" /\ p \in aims[d]
    BY DEF Noting
  <2> QED
    BY <1>1
<1>4. SeenIsComplete'
  BY <1>1, <1>2, <1>3, SeenFrame DEF Ages
<1> QED
  BY <1>1, <1>4 DEF ProcessesIInv, PM!ProcessManagerAssumption

\* Who is not at its last drain or beyond it has not seen an end.
LEMMA Unseen ==
  ASSUME ProcessesIInv, NEW c \in Callers, pc[c] \notin {"last", "lastmark", "report", "remove"}
  PROVE  ~saw[c]
BY DEF ProcessesIInv, SeenIsComplete

\* A call is over.
LEMMA ReturnFacts ==
  ASSUME ProcessesIInv, NEW c \in Callers, PM!Return(c)
  PROVE  /\ PM!Go(c, "idle") /\ on' = [on EXCEPT ![c] = PM!None] /\ ~saw'[c]
         /\ fresh' \in [Callers -> BOOLEAN] /\ aims' \in [Callers -> SUBSET PM!Procs]
         /\ cut' \in [Callers -> BOOLEAN] /\ saw' \in [Callers -> BOOLEAN]
         /\ \A d \in Callers : d # c => aims'[d] = aims[d] /\ saw'[d] = saw[d]
BY DEF ProcessesIInv, PM!TypeOK, PM!Return

\* A signal does not bring back what has ended.
LEMMA TerminateKeeps ==
  ASSUME ProcessesIInv, NEW c \in Callers, PM!Terminate(c)
  PROVE  ProcessesIInv'
<1>1. PICK p \in aims[c] : /\ life' = [life EXCEPT ![p] = PM!Signalled(@)]
                           /\ aims' = [aims EXCEPT ![c] = @ \ {p}]
  BY DEF PM!Terminate
<1>2. pc[c] = "kill" /\ PM!Go(c, "drain") /\ UNCHANGED <<buffer, trunc, PM!list, fresh, on, cut, saw>>
  BY DEF PM!Terminate
<1>3. Ages
  BY <1>1 DEF ProcessesIInv, PM!TypeOK, Ages, PM!HasExitCode, PM!Done, PM!Signalled
<1>4. CallTypes' /\ \A d \in Callers : d # c => aims'[d] = aims[d]
  <2>1. life' \in [PM!Procs -> {"unborn", "running", "killed", "reaped", "exited", "done"}]
    BY <1>1 DEF ProcessesIInv, PM!TypeOK, PM!Signalled
  <2>2. aims' \in [Callers -> SUBSET PM!Procs] /\ \A d \in Callers : d # c => aims'[d] = aims[d]
    BY <1>1 DEF ProcessesIInv, PM!TypeOK
  <2> QED
    BY <1>2, <2>1, <2>2 DEF ProcessesIInv, PM!TypeOK, CallTypes
<1>5. ~saw'[c] /\ UNCHANGED PM!list /\ on' = on
  BY <1>2, Unseen
<1>6. \A q \in PM!Procs : PM!Done(q) => /\ Len(buffer'[q]) <= Len(buffer[q])
                                        /\ PM!HasOutput(q)' => PM!HasOutput(q)
                                        /\ trunc'[q] => trunc[q]
  BY <1>2, LenProperties DEF PM!HasOutput, ProcessesIInv, PM!TypeOK
<1> QED
  BY <1>2, <1>3, <1>4, <1>5, <1>6, QuietStep

\* A step of a call that changes nothing but where it is, and perhaps ends it.
LEMMA MoveKeeps ==
  ASSUME ProcessesIInv, UNCHANGED <<PM!proc, PM!list>>,
         NEW c \in Callers, pc[c] \notin {"idle", "store"},
         NEW to \in {"idle", "drain", "last", "remove", "kill"},
         to = "remove" => PM!HasExitCode(on[c]),
         ~saw[c] \/ (pc[c] = "report" /\ to = "remove"),
         \/ to # "idle" /\ PM!Go(c, to) /\ UNCHANGED <<fresh, on, aims, cut, saw>>
         \/ to = "idle" /\ PM!Return(c)
         \/ /\ to = "kill" /\ PM!Go(c, to) /\ fresh' = [fresh EXCEPT ![c] = FALSE]
            /\ aims' = [aims EXCEPT ![c] = {on[c]}] /\ UNCHANGED <<on, cut, saw>>
  PROVE  ProcessesIInv'
<1>1. Ages /\ UNCHANGED <<life, buffer, trunc>> /\ UNCHANGED PM!list
  BY SameLife DEF PM!proc
<1>2. /\ PM!Go(c, to)
      /\ on' = on \/ (to = "idle" /\ on' = [on EXCEPT ![c] = PM!None])
      /\ fresh' \in [Callers -> BOOLEAN] /\ aims' \in [Callers -> SUBSET PM!Procs]
      /\ cut' \in [Callers -> BOOLEAN] /\ saw' \in [Callers -> BOOLEAN]
      /\ \A d \in Callers : d # c => aims'[d] = aims[d] /\ saw'[d] = saw[d]
      /\ ~saw'[c] \/ (saw[c] /\ pc[c] = "report" /\ to = "remove")
  <2>1. CASE to # "idle" /\ PM!Go(c, to) /\ UNCHANGED <<fresh, on, aims, cut, saw>>
    BY <2>1 DEF ProcessesIInv, PM!TypeOK
  <2>2. CASE to = "idle" /\ PM!Return(c)
    BY <2>2, ReturnFacts
  <2>3. CASE /\ to = "kill" /\ PM!Go(c, to) /\ fresh' = [fresh EXCEPT ![c] = FALSE]
             /\ aims' = [aims EXCEPT ![c] = {on[c]}] /\ UNCHANGED <<on, cut, saw>>
    <3>1. on[c] \in PM!Procs
      BY DEF ProcessesIInv, CallsFit
    <3> QED
      BY <2>3, <3>1 DEF ProcessesIInv, PM!TypeOK
  <2> QED
    BY <2>1, <2>2, <2>3
<1>3. CallTypes'
  BY <1>1, <1>2 DEF ProcessesIInv, PM!TypeOK, CallTypes
<1>4. \A q \in PM!Procs : PM!Done(q) => /\ Len(buffer'[q]) <= Len(buffer[q])
                                        /\ PM!HasOutput(q)' => PM!HasOutput(q)
                                        /\ trunc'[q] => trunc[q]
  BY <1>1, LenProperties DEF PM!HasOutput, ProcessesIInv, PM!TypeOK
<1> QED
  BY <1>1, <1>2, <1>3, <1>4, QuietStep

\* Input that was taken.
LEMMA InputTakenKeeps ==
  ASSUME ProcessesIInv, NEW c \in Callers, PM!InputTaken(c)
  PROVE  ProcessesIInv'
<1>1. pc[c] = "input" /\ PM!Go(c, "drain") /\ UNCHANGED <<PM!proc, PM!list>> /\ UNCHANGED <<fresh, on, aims, cut, saw>>
  BY DEF PM!InputTaken
<1>2. ~saw[c]
  BY <1>1, Unseen
<1> QED
  BY <1>1, <1>2, MoveKeeps

\* Input that was not, which ends the call unless done is closed.
LEMMA InputFailsKeeps ==
  ASSUME ProcessesIInv, NEW c \in Callers, PM!InputFails(c)
  PROVE  ProcessesIInv'
<1>1. pc[c] = "input" /\ UNCHANGED <<PM!proc, PM!list>>
  BY DEF PM!InputFails, PM!proc
<1>2. ~saw[c]
  BY <1>1, Unseen
<1>3. CASE PM!Go(c, "drain") /\ UNCHANGED <<fresh, on, aims, cut, saw>>
  BY <1>1, <1>2, <1>3, MoveKeeps
<1>4. CASE PM!Return(c)
  BY <1>1, <1>2, <1>4, MoveKeeps
<1> QED
  BY <1>3, <1>4 DEF PM!InputFails

\* A wait that is over without the end having been seen.
LEMMA ExpireKeeps ==
  ASSUME ProcessesIInv, NEW c \in Callers, PM!Expire(c) \/ PM!Wake(c)
  PROVE  ProcessesIInv'
<1>1. pc[c] = "wait" /\ UNCHANGED <<PM!proc, PM!list>> /\ UNCHANGED <<fresh, on, aims, cut, saw>>
  BY DEF PM!Expire, PM!Wake
<1>2. ~saw[c]
  BY <1>1, Unseen
<1>3. PM!Go(c, "last") \/ PM!Go(c, "drain")
  BY DEF PM!Expire, PM!Wake
<1> QED
  BY <1>1, <1>2, <1>3, MoveKeeps

\* Who has seen the end finds the exit code.
LEMMA ReportKeeps ==
  ASSUME ProcessesIInv, NEW c \in Callers, PM!Report(c)
  PROVE  ProcessesIInv'
<1>1. pc[c] = "report" /\ UNCHANGED <<PM!proc, PM!list>>
  BY DEF PM!Report, PM!proc
<1>2. ~PM!HasExitCode(on[c]) => ~saw[c]
  BY DEF ProcessesIInv, SeenIsComplete, PM!HasExitCode, PM!Done
<1>3. CASE PM!HasExitCode(on[c]) /\ PM!Go(c, "remove") /\ UNCHANGED <<fresh, on, aims, cut, saw>>
  BY <1>1, <1>3, MoveKeeps
<1>4. CASE ~PM!HasExitCode(on[c]) /\ PM!Return(c)
  BY <1>1, <1>2, <1>4, MoveKeeps
<1>5. CASE /\ ~PM!HasExitCode(on[c]) /\ PM!Go(c, "kill") /\ fresh' = [fresh EXCEPT ![c] = FALSE]
           /\ aims' = [aims EXCEPT ![c] = {on[c]}] /\ UNCHANGED <<on, cut, saw>>
  BY <1>1, <1>2, <1>5, MoveKeeps
<1> QED
  BY <1>3, <1>4, <1>5 DEF PM!Report

\* What a notice adds to the buffer of an ended process was counted before.
LEMMA NoteKeeps ==
  ASSUME ProcessesIInv, NEW c \in Callers, PM!Note(c)
  PROVE  ProcessesIInv'
<1>1. /\ pc[c] = "note" /\ PM!Go(c, "kill")
      /\ UNCHANGED life /\ UNCHANGED PM!list /\ UNCHANGED <<fresh, on, aims, cut, saw>>
  BY DEF PM!Note
<1>2. PICK p \in aims[c] : PM!Append1(p, "note")
  BY DEF PM!Note
<1>3. p \in PM!Procs
  BY DEF ProcessesIInv, PM!TypeOK
<1>4. /\ \A q \in PM!Procs : q # p => buffer'[q] = buffer[q] /\ trunc'[q] = trunc[q]
      /\ Len(buffer'[p]) <= Len(buffer[p]) + 1
      /\ Len(buffer[p]) < Cap => trunc'[p] = trunc[p]
      /\ PM!HasOutput(p)' => PM!HasOutput(p)
  BY <1>2, <1>3, AppendFacts DEF ProcessesIInv
<1>5. CallTypes'
  BY <1>1, <1>2, <1>3, AppendFacts DEF ProcessesIInv, PM!TypeOK, CallTypes
<1>6. Ages
  BY <1>1, SameLife
<1>7. /\ PM!TypeOK' /\ CallsFit' /\ StoredAreNew' /\ RemovedHaveEnded' /\ PM!LiveProcessesAreListed'
      /\ pc'[c] = "kill" /\ \A d \in Callers : d # c => pc'[d] = pc[d] /\ on'[d] = on[d]
  BY <1>1, <1>5, <1>6, CallStep
<1>8. SeenIsComplete'
  <2> SUFFICES ASSUME NEW d \in Callers, saw'[d]
               PROVE  /\ pc'[d] \in {"last", "lastmark", "report", "remove"}
                      /\ PM!Done(on[d])'
                      /\ pc'[d] # "last" => /\ ~PM!HasOutput(on[d])'
                                            /\ Len(buffer'[on'[d]]) + Cardinality(Noting(on[d])') <= Cap
                      /\ pc'[d] \in {"report", "remove"} => ~trunc'[on'[d]]
    BY DEF SeenIsComplete
  <2>1. d # c /\ saw[d] /\ pc'[d] = pc[d] /\ on'[d] = on[d]
    BY <1>1, <1>7, Unseen
  <2>2. /\ pc[d] \in {"last", "lastmark", "report", "remove"} /\ PM!Done(on[d]) /\ on[d] \in PM!Procs
        /\ pc[d] # "last" => /\ ~PM!HasOutput(on[d])
                             /\ Len(buffer[on[d]]) + Cardinality(Noting(on[d])) <= Cap
        /\ pc[d] \in {"report", "remove"} => ~trunc[on[d]]
    BY <2>1 DEF ProcessesIInv, SeenIsComplete, CallsFit
  <2> PICK q \in PM!Procs : q = on[d]
    BY <2>2
  <2>3. /\ IsFiniteSet(Noting(q)) /\ Cardinality(Noting(q)) \in Nat /\ (c \in Noting(q) <=> q \in aims[c])
        /\ Noting(q)' = Noting(q) \ {c}
    <3>1. IsFiniteSet(Noting(q)) /\ Cardinality(Noting(q)) \in Nat
      BY CallersAreFew, FS_Subset, FS_CardinalityType DEF Noting
    <3>2. c \in Noting(q) <=> q \in aims[c]
      BY <1>1 DEF Noting
    <3>3. Noting(q)' = Noting(q) \ {c}
      BY <1>1, <1>7, <2>1 DEF Noting
    <3> QED
      BY <3>1, <3>2, <3>3
  <2>4. Noting(on[d])' = Noting(q)' /\ PM!Done(on[d])'
    BY <1>1, <2>1, <2>2 DEF Noting, PM!Done
  <2>5. Len(buffer[q]) \in Nat /\ Len(buffer'[q]) \in Nat /\ Cap \in Nat
    BY <1>7, <2>2, LenProperties DEF ProcessesIInv, PM!TypeOK, PM!ProcessManagerAssumption
  <2>6. PM!HasOutput(on[d])' => PM!HasOutput(on[d])
    BY <1>4, <2>1, <2>2 DEF PM!HasOutput
  <2>7. CASE q = p
    <3>1. Cardinality(Noting(q)') = Cardinality(Noting(q)) - 1 /\ Cardinality(Noting(q)) >= 1
      <4>1. c \in Noting(q)
        BY <1>2, <2>3, <2>7
      <4>2. IsFiniteSet(Noting(q) \ {c}) /\ Cardinality(Noting(q) \ {c}) = Cardinality(Noting(q)) - 1
        BY <2>3, <4>1, FS_RemoveElement
      <4>3. Cardinality(Noting(q) \ {c}) \in Nat
        BY <4>2, FS_CardinalityType
      <4> QED
        BY <2>3, <4>2, <4>3
    <3> QED
      BY SMTT(60), <1>4, <2>1, <2>2, <2>3, <2>4, <2>5, <2>6, <2>7, <3>1
  <2>8. CASE q # p
    <3>1. Cardinality(Noting(q)') <= Cardinality(Noting(q)) /\ Cardinality(Noting(q)') \in Nat
      BY <2>3, FS_Subset, FS_CardinalityType
    <3> QED
      BY SMTT(60), <1>4, <2>1, <2>2, <2>3, <2>4, <2>5, <2>6, <2>8, <3>1
  <2> QED
    BY <2>7, <2>8
<1> QED
  BY <1>7, <1>8 DEF ProcessesIInv, PM!ProcessManagerAssumption

\* A drain before the end was seen, and the one after it: the notices still to come,
\* of other calls, fit into the buffer that it leaves empty.
LEMMA CollectKeeps ==
  ASSUME ProcessesIInv, NEW c \in Callers, PM!Drain(c) \/ PM!LastDrain(c)
  PROVE  ProcessesIInv'
<1>1. PICK from \in {"drain", "last"}, to \in {"mark", "lastmark"} :
         /\ from = "drain" <=> to = "mark"
         /\ pc[c] = from /\ PM!Go(c, to)
         /\ buffer' = [buffer EXCEPT ![on[c]] = <<>>]
         /\ UNCHANGED life /\ UNCHANGED PM!list /\ UNCHANGED <<trunc, fresh, on, aims, saw>>
         /\ \E over \in BOOLEAN : cut' = [cut EXCEPT ![c] = @ \/ over]
  BY DEF PM!Drain, PM!LastDrain, PM!Collect
<1>2. on[c] \in PM!Procs
  BY <1>1 DEF ProcessesIInv, CallsFit
<1>3. /\ buffer'[on[c]] = <<>> /\ \A q \in PM!Procs : q # on[c] => buffer'[q] = buffer[q]
      /\ buffer' \in [PM!Procs -> Seq({"out", "note"})]
  BY <1>1, <1>2, EmptySeq DEF ProcessesIInv, PM!TypeOK
<1>4. /\ ~PM!HasOutput(on[c])' /\ Len(buffer'[on[c]]) = 0
      /\ \A q \in PM!Procs : /\ Len(buffer'[q]) <= Len(buffer[q]) /\ Len(buffer'[q]) <= Cap
                             /\ PM!HasOutput(q)' => PM!HasOutput(q)
  BY <1>1, <1>2, <1>3, LenProperties DEF ProcessesIInv, PM!TypeOK, PM!ProcessManagerAssumption,
     PM!HasOutput
<1>5. CallTypes'
  <2>1. cut' \in [Callers -> BOOLEAN]
    BY <1>1 DEF ProcessesIInv, PM!TypeOK
  <2> QED
    BY <1>1, <1>3, <1>4, <2>1 DEF ProcessesIInv, PM!TypeOK, CallTypes
<1>6. Ages
  BY <1>1, SameLife
<1>7. /\ PM!TypeOK' /\ CallsFit' /\ StoredAreNew' /\ RemovedHaveEnded' /\ PM!LiveProcessesAreListed'
      /\ pc'[c] = to /\ \A d \in Callers : d # c => pc'[d] = pc[d] /\ on'[d] = on[d]
  BY <1>1, <1>5, <1>6, CallStep
<1>8. SeenIsComplete'
  <2> SUFFICES ASSUME NEW d \in Callers, saw'[d]
               PROVE  /\ pc'[d] \in {"last", "lastmark", "report", "remove"}
                      /\ PM!Done(on[d])'
                      /\ pc'[d] # "last" => /\ ~PM!HasOutput(on[d])'
                                            /\ Len(buffer'[on'[d]]) + Cardinality(Noting(on[d])') <= Cap
                      /\ pc'[d] \in {"report", "remove"} => ~trunc'[on'[d]]
    BY DEF SeenIsComplete
  <2>1. saw[d] /\ on'[d] = on[d]
    BY <1>1
  <2>2. /\ pc[d] \in {"last", "lastmark", "report", "remove"} /\ PM!Done(on[d]) /\ on[d] \in PM!Procs
        /\ pc[d] # "last" => /\ ~PM!HasOutput(on[d])
                             /\ Len(buffer[on[d]]) + Cardinality(Noting(on[d])) <= Cap
        /\ pc[d] \in {"report", "remove"} => ~trunc[on[d]]
    BY <2>1 DEF ProcessesIInv, SeenIsComplete, CallsFit
  <2> PICK q \in PM!Procs : q = on[d]
    BY <2>2
  <2>3. /\ IsFiniteSet(Noting(q)) /\ Cardinality(Noting(q)) \in Nat
        /\ Noting(q)' \subseteq Noting(q) /\ Noting(q)' \subseteq Callers \ {c}
    <3>1. IsFiniteSet(Noting(q)) /\ Cardinality(Noting(q)) \in Nat
      BY CallersAreFew, FS_Subset, FS_CardinalityType DEF Noting
    <3>2. Noting(q)' \subseteq Noting(q) /\ Noting(q)' \subseteq Callers \ {c}
      <4> SUFFICES ASSUME NEW e \in Callers, pc'[e] = "note", q \in aims'[e]
                   PROVE  e # c /\ pc[e] = "note" /\ q \in aims[e]
        BY <2>1 DEF Noting
      <4>1. e # c
        BY <1>1, <1>7
      <4> QED
        BY <1>1, <1>7, <4>1
    <3> QED
      BY <3>1, <3>2
  <2>4. Noting(on[d])' = Noting(q)' /\ PM!Done(on[d])'
    BY <1>1, <2>1, <2>2 DEF Noting, PM!Done
  <2>5. /\ Cardinality(Noting(q)') \in Nat /\ Cardinality(Noting(q)') <= Cardinality(Noting(q))
        /\ Cardinality(Noting(q)') <= Cap
    <3>1. Cardinality(Noting(q)') \in Nat /\ Cardinality(Noting(q)') <= Cardinality(Noting(q))
      BY <2>3, FS_Subset, FS_CardinalityType
    <3>2. /\ IsFiniteSet(Callers \ {c}) /\ Cardinality(Callers \ {c}) = Cardinality(Callers) - 1
          /\ Cardinality(Callers) \in Nat
      BY CallersAreFew, FS_RemoveElement, FS_CardinalityType
    <3>3. Cardinality(Noting(q)') <= Cardinality(Callers \ {c})
      BY <2>3, <3>2, FS_Subset
    <3> QED
      BY CallersAreFew, <3>1, <3>2, <3>3 DEF ProcessesIInv, PM!ProcessManagerAssumption
  <2>6. Len(buffer[q]) \in Nat /\ Len(buffer'[q]) \in Nat /\ Cap \in Nat
    BY <1>7, <2>2, LenProperties DEF ProcessesIInv, PM!TypeOK, PM!ProcessManagerAssumption
  <2>7. CASE d = c
    <3>1. pc'[d] = "lastmark"
      BY <1>1, <1>7, <2>2, <2>7
    <3>2. ~PM!HasOutput(on[d])' /\ Len(buffer'[q]) = 0
      BY <1>4, <2>7
    <3> QED
      BY <2>1, <2>4, <2>5, <2>6, <3>1, <3>2
  <2>8. CASE d # c
    <3>1. pc'[d] = pc[d] /\ trunc' = trunc
      BY <1>1, <1>7, <2>8
    <3>2. Len(buffer'[q]) <= Len(buffer[q]) /\ (PM!HasOutput(on[d])' => PM!HasOutput(on[d]))
      BY <1>4, <2>1, <2>2 DEF PM!HasOutput
    <3> QED
      BY <2>1, <2>2, <2>3, <2>4, <2>5, <2>6, <3>1, <3>2
  <2> QED
    BY <2>7, <2>8
<1> QED
  BY <1>7, <1>8 DEF ProcessesIInv, PM!ProcessManagerAssumption

\* A mark that follows the last drain clears the flag of the buffer.
LEMMA MarkKeeps ==
  ASSUME ProcessesIInv, NEW c \in Callers, PM!Mark(c)
  PROVE  ProcessesIInv'
<1>1. PICK from \in {"mark", "lastmark"}, to \in {"wait", "report"} :
         /\ from = "mark" <=> to = "wait"
         /\ pc[c] = from /\ PM!Go(c, to)
         /\ cut' = [cut EXCEPT ![c] = @ \/ trunc[on[c]]]
         /\ trunc' = [trunc EXCEPT ![on[c]] = FALSE]
         /\ UNCHANGED <<life, buffer>> /\ UNCHANGED PM!list /\ UNCHANGED <<fresh, on, aims, saw>>
  BY DEF PM!Mark
<1>2. on[c] \in PM!Procs
  BY <1>1 DEF ProcessesIInv, CallsFit
<1>3. ~trunc'[on[c]] /\ (\A q \in PM!Procs : trunc'[q] => trunc[q]) /\ trunc' \in [PM!Procs -> BOOLEAN]
  BY <1>1, <1>2 DEF ProcessesIInv, PM!TypeOK
<1>4. CallTypes'
  <2>1. cut' \in [Callers -> BOOLEAN]
    BY <1>1, <1>2 DEF ProcessesIInv, PM!TypeOK
  <2> QED
    BY <1>1, <1>3, <2>1 DEF ProcessesIInv, PM!TypeOK, CallTypes
<1>5. Ages
  BY <1>1, SameLife
<1>6. /\ PM!TypeOK' /\ CallsFit' /\ StoredAreNew' /\ RemovedHaveEnded' /\ PM!LiveProcessesAreListed'
      /\ pc'[c] = to /\ \A d \in Callers : d # c => pc'[d] = pc[d] /\ on'[d] = on[d]
  BY <1>1, <1>4, <1>5, CallStep
<1>7. SeenIsComplete'
  <2>1. \A q \in PM!Procs : Noting(q)' = Noting(q)
    <3>1. \A d \in Callers : pc'[d] = "note" <=> pc[d] = "note"
      BY <1>1, <1>6
    <3> QED
      BY <1>1, <3>1 DEF Noting
  <2> SUFFICES ASSUME NEW d \in Callers, saw'[d]
               PROVE  /\ pc'[d] \in {"last", "lastmark", "report", "remove"}
                      /\ PM!Done(on[d])'
                      /\ pc'[d] # "last" => /\ ~PM!HasOutput(on[d])'
                                            /\ Len(buffer'[on'[d]]) + Cardinality(Noting(on[d])') <= Cap
                      /\ pc'[d] \in {"report", "remove"} => ~trunc'[on'[d]]
    BY DEF SeenIsComplete
  <2>2. saw[d] /\ on'[d] = on[d] /\ buffer' = buffer /\ life' = life
    BY <1>1
  <2>3. /\ pc[d] \in {"last", "lastmark", "report", "remove"} /\ PM!Done(on[d]) /\ on[d] \in PM!Procs
        /\ pc[d] # "last" => /\ ~PM!HasOutput(on[d])
                             /\ Len(buffer[on[d]]) + Cardinality(Noting(on[d])) <= Cap
        /\ pc[d] \in {"report", "remove"} => ~trunc[on[d]]
    BY <2>2 DEF ProcessesIInv, SeenIsComplete, CallsFit
  <2>4. PM!Done(on[d])' /\ (PM!HasOutput(on[d])' <=> PM!HasOutput(on[d])) /\ Noting(on[d])' = Noting(on[d])
    <3> PICK q \in PM!Procs : q = on[d]
      BY <2>3
    <3>1. Noting(on[d])' = Noting(q)'
      BY <2>2 DEF Noting
    <3> QED
      BY <2>1, <2>2, <2>3, <3>1 DEF PM!Done, PM!HasOutput
  <2>5. CASE d = c
    BY <1>1, <1>3, <1>6, <2>2, <2>3, <2>4, <2>5
  <2>6. CASE d # c
    BY <1>3, <1>6, <2>2, <2>3, <2>4, <2>6
  <2> QED
    BY <2>5, <2>6
<1> QED
  BY <1>6, <1>7 DEF ProcessesIInv, PM!ProcessManagerAssumption

\* The end is seen: the last drain is still to come.
LEMMA SeeDoneKeeps ==
  ASSUME ProcessesIInv, NEW c \in Callers, PM!SeeDone(c)
  PROVE  ProcessesIInv'
<1>1. /\ pc[c] = "wait" /\ PM!Done(on[c]) /\ PM!Go(c, "last") /\ saw' = [saw EXCEPT ![c] = TRUE]
      /\ UNCHANGED <<life, buffer, trunc>> /\ UNCHANGED PM!list /\ UNCHANGED <<fresh, on, aims, cut>>
  BY DEF PM!SeeDone, PM!proc
<1>2. CallTypes'
  <2>1. saw' \in [Callers -> BOOLEAN]
    BY <1>1 DEF ProcessesIInv, PM!TypeOK
  <2> QED
    BY <1>1, <2>1 DEF ProcessesIInv, PM!TypeOK, CallTypes
<1>3. Ages
  BY <1>1, SameLife
<1>4. /\ PM!TypeOK' /\ CallsFit' /\ StoredAreNew' /\ RemovedHaveEnded' /\ PM!LiveProcessesAreListed'
      /\ pc'[c] = "last" /\ \A d \in Callers : d # c => pc'[d] = pc[d] /\ on'[d] = on[d]
  BY <1>1, <1>2, <1>3, CallStep
<1>5. SeenIsComplete'
  <2>1. \A q : Noting(q)' = Noting(q)
    <3>1. \A d \in Callers : pc'[d] = "note" <=> pc[d] = "note"
      BY <1>1, <1>4
    <3> QED
      BY <1>1, <3>1 DEF Noting
  <2> SUFFICES ASSUME NEW d \in Callers, saw'[d]
               PROVE  /\ pc'[d] \in {"last", "lastmark", "report", "remove"}
                      /\ PM!Done(on[d])'
                      /\ pc'[d] # "last" => /\ ~PM!HasOutput(on[d])'
                                            /\ Len(buffer'[on'[d]]) + Cardinality(Noting(on[d])') <= Cap
                      /\ pc'[d] \in {"report", "remove"} => ~trunc'[on'[d]]
    BY DEF SeenIsComplete
  <2>2. on'[d] = on[d] /\ buffer' = buffer /\ life' = life /\ trunc' = trunc
    BY <1>1
  <2>3. CASE d = c
    BY <1>1, <1>4, <2>2, <2>3 DEF PM!Done
  <2>4. CASE d # c
    <3>1. saw[d] /\ pc'[d] = pc[d]
      BY <1>1, <1>4, <2>4
    <3>2. Noting(on[d])' = Noting(on[d])
      <4> PICK q : q = on[d]
        OBVIOUS
      <4>1. Noting(on[d])' = Noting(q)'
        BY <2>2 DEF Noting
      <4> QED
        BY <2>1, <4>1
    <3> QED
      BY <2>2, <3>1, <3>2 DEF ProcessesIInv, SeenIsComplete, PM!Done, PM!HasOutput
  <2> QED
    BY <2>3, <2>4
<1> QED
  BY <1>4, <1>5 DEF ProcessesIInv, PM!ProcessManagerAssumption

-----------------------------------------------------------------------------
(* The table.                                                              *)

\* What is used now was used last.
LEMMA TouchFacts ==
  ASSUME PM!Dated \subseteq PM!Procs, earlier \in [PM!Procs -> SUBSET PM!Dated], PM!TimesAreOrdered,
         NEW p \in PM!Procs, PM!Touch(p), PM!Dated' = PM!Dated \cup {p}
  PROVE  earlier' \in [PM!Procs -> SUBSET PM!Dated'] /\ PM!TimesAreOrdered'
<1>1. /\ earlier' \in [PM!Procs -> SUBSET PM!Dated']
      /\ earlier'[p] = PM!Dated \ {p} /\ \A q \in PM!Procs : q # p => earlier'[q] = earlier[q] \ {p}
  BY DEF PM!Touch
<1>2. ASSUME NEW q \in PM!Dated', NEW r \in PM!Dated'
      PROVE  q \in earlier'[r] <=> q # r /\ r \notin earlier'[q]
  <2>1. q \in PM!Procs /\ r \in PM!Procs
    OBVIOUS
  <2>2. CASE r = p
    BY <1>1, <2>1, <2>2
  <2>3. CASE r # p /\ q = p
    BY <1>1, <2>1, <2>3
  <2>4. CASE r # p /\ q # p
    BY <1>1, <2>1, <2>4 DEF PM!TimesAreOrdered
  <2> QED
    BY <2>2, <2>3, <2>4
<1>3. ASSUME NEW q \in PM!Procs, NEW r \in PM!Procs, q \in earlier'[r]
      PROVE  r \in PM!Dated' /\ earlier'[q] \subseteq earlier'[r]
  <2>1. CASE r = p
    BY <1>1, <1>3, <2>1
  <2>2. CASE r # p
    BY <1>1, <1>3, <2>2 DEF PM!TimesAreOrdered
  <2> QED
    BY <2>1, <2>2
<1> QED
  BY <1>1, <1>2, <1>3 DEF PM!TimesAreOrdered

\* What leaves the table leaves the others as they were.
LEMMA DropFacts ==
  ASSUME PM!Dated \subseteq PM!Procs, earlier \in [PM!Procs -> SUBSET PM!Dated], PM!TimesAreOrdered,
         NEW gone, PM!Drop(gone), PM!Dated' = PM!Dated \ gone
  PROVE  earlier' \in [PM!Procs -> SUBSET PM!Dated'] /\ PM!TimesAreOrdered'
<1>1. /\ earlier' \in [PM!Procs -> SUBSET PM!Dated']
      /\ \A q \in PM!Procs : earlier'[q] = IF q \in gone THEN {} ELSE earlier[q] \ gone
  BY DEF PM!Drop
<1>2. PM!TimesAreOrdered'
  BY <1>1 DEF PM!TimesAreOrdered
<1> QED
  BY <1>1, <1>2

\* What the invariant says of the times of use.
LEMMA DatedFacts ==
  ASSUME ProcessesIInv
  PROVE  PM!Dated \subseteq PM!Procs /\ earlier \in [PM!Procs -> SUBSET PM!Dated] /\ PM!TimesAreOrdered
BY DEF ProcessesIInv, PM!TypeOK, CallsFit, PM!Dated

\* What is forgotten has ended, and was stored.
LEMMA ForgetKeeps ==
  ASSUME ProcessesIInv, NEW p \in PM!Procs, PM!Forget(p)
  PROVE  ProcessesIInv'
<1>1. /\ PM!Done(p) /\ p \in table /\ table' = table \ {p} /\ PM!Drop({p})
      /\ UNCHANGED <<life, buffer, trunc>>
      /\ UNCHANGED <<pc, fresh, on, aims, cut, saw>>
  BY DEF PM!Forget, PM!proc, PM!call
<1>2. PM!Dated' = PM!Dated \ {p}
  BY <1>1 DEF PM!Dated, ProcessesIInv, StoredAreNew
<1>3. earlier' \in [PM!Procs -> SUBSET PM!Dated'] /\ PM!TimesAreOrdered'
  BY <1>1, <1>2, DropFacts, DatedFacts
<1>4. PM!TypeOK'
  BY <1>1, <1>3 DEF ProcessesIInv, PM!TypeOK
<1>5. CallsFit' /\ StoredAreNew' /\ RemovedHaveEnded'
  BY <1>1 DEF ProcessesIInv, CallsFit, StoredAreNew, RemovedHaveEnded, PM!HasExitCode
<1>6. PM!LiveProcessesAreListed'
  BY <1>1 DEF ProcessesIInv, PM!LiveProcessesAreListed, PM!Done
<1>7. SeenIsComplete'
  BY ZenonT(60), <1>1 DEF ProcessesIInv, SeenIsComplete, PM!Done, PM!HasOutput, Noting
<1> QED
  BY <1>4, <1>5, <1>6, <1>7 DEF ProcessesIInv, PM!ProcessManagerAssumption

\* What it removes has ended, and nobody is about to store it.
LEMMA RemoveExitedKeeps ==
  ASSUME ProcessesIInv, NEW c \in Callers, PM!RemoveExited(c)
  PROVE  ProcessesIInv'
<1>1. /\ pc[c] = "remove" /\ table' = table \ {on[c]} /\ PM!Drop({on[c]}) /\ PM!Return(c)
      /\ UNCHANGED <<life, buffer, trunc>>
  BY DEF PM!RemoveExited
<1>2. /\ pc'[c] = "idle" /\ on'[c] = PM!None /\ ~saw'[c]
      /\ \A d \in Callers : d # c => /\ pc'[d] = pc[d] /\ on'[d] = on[d]
                                     /\ aims'[d] = aims[d] /\ saw'[d] = saw[d]
      /\ on' \in [Callers -> PM!Procs \cup {PM!None}]
      /\ pc' \in [Callers -> {"idle", "store", "note", "kill", "input", "drain",
                              "mark", "wait", "last", "lastmark", "report", "remove"}]
      /\ fresh' \in [Callers -> BOOLEAN] /\ aims' \in [Callers -> SUBSET PM!Procs]
      /\ cut' \in [Callers -> BOOLEAN] /\ saw' \in [Callers -> BOOLEAN]
  BY <1>1, ReturnFacts DEF ProcessesIInv, PM!TypeOK, PM!Return, PM!Go
<1>3. on[c] \in PM!Procs /\ PM!HasExitCode(on[c])
  BY <1>1 DEF ProcessesIInv, CallsFit, RemovedHaveEnded
<1>4. PM!Dated' = PM!Dated \ {on[c]}
  <2>1. \A d \in Callers : pc'[d] = "store" <=> pc[d] = "store"
    BY <1>1, <1>2
  <2>2. \A d \in Callers : pc[d] = "store" => on'[d] = on[d] /\ on[d] # on[c]
    BY <1>1, <1>2 DEF ProcessesIInv, StoredAreNew
  <2> QED
    BY <1>1, <2>1, <2>2 DEF PM!Dated
<1>5. earlier' \in [PM!Procs -> SUBSET PM!Dated'] /\ PM!TimesAreOrdered'
  BY <1>1, <1>4, DropFacts, DatedFacts
<1>6. PM!TypeOK'
  BY <1>1, <1>2, <1>5 DEF ProcessesIInv, PM!TypeOK
<1>7. CallsFit'
  BY <1>1, <1>2 DEF ProcessesIInv, CallsFit, PM!None, PM!Procs
<1>8. StoredAreNew'
  <2>1. \A d \in Callers : d # c => on'[d] = on[d] /\ pc'[d] = pc[d]
    BY <1>2
  <2>2. \A d \in Callers : pc[d] = "store" => on[d] \in PM!Procs
    BY DEF ProcessesIInv, CallsFit
  <2> QED
    BY <1>1, <1>2, <2>1, <2>2 DEF ProcessesIInv, StoredAreNew, PM!None, PM!Procs
<1>9. RemovedHaveEnded'
  BY <1>1, <1>2 DEF ProcessesIInv, RemovedHaveEnded, PM!HasExitCode
<1>10. PM!LiveProcessesAreListed'
  BY <1>1, <1>2, <1>3 DEF ProcessesIInv, PM!LiveProcessesAreListed, PM!HasExitCode
<1>11. SeenIsComplete'
  <2>1. Ages
    BY <1>1, SameLife
  <2>2. \A d \in Callers : saw'[d] => /\ saw[d] /\ on'[d] = on[d]
                                      /\ pc'[d] = pc[d] \/ (pc[d] = "report" /\ pc'[d] = "remove")
    BY <1>2
  <2>3. \A p \in PM!Procs : PM!Done(p) => /\ Noting(p)' \subseteq Noting(p)
                                          /\ Len(buffer'[p]) <= Len(buffer[p])
                                          /\ PM!HasOutput(p)' => PM!HasOutput(p)
                                          /\ trunc'[p] => trunc[p]
    BY <1>1, <1>2, LenProperties DEF Noting, PM!HasOutput, ProcessesIInv, PM!TypeOK
  <2> QED
    BY <1>6, <2>1, <2>2, <2>3, SeenFrame DEF Ages
<1> QED
  BY <1>6, <1>7, <1>8, <1>9, <1>10, <1>11 DEF ProcessesIInv, PM!ProcessManagerAssumption

\* What store takes out of the table has ended; an evicted process stays listed.
LEMMA StoreKeeps ==
  ASSUME ProcessesIInv, NEW c \in Callers, PM!Store(c)
  PROVE  ProcessesIInv'
<1> DEFINE pruned == IF PM!Cardinality(table) >= MaxProcesses THEN PM!ToPrune ELSE {}
<1>1. /\ pc[c] = "store"
      /\ table' = (table \ {p \in pruned : PM!Done(p)}) \cup {on[c]}
      /\ PM!Drop(table \ table')
      /\ aims' = [aims EXCEPT ![c] = {p \in pruned : ~PM!Done(p)}]
      /\ PM!Go(c, IF aims'[c] = {} THEN "drain" ELSE "note")
      /\ UNCHANGED <<life, buffer, trunc>> /\ UNCHANGED <<fresh, on, cut, saw>>
  BY DEF PM!Store, PM!proc
<1>2. pruned \subseteq PM!Procs
  BY DEF PM!ToPrune, PM!LeastUsed, ProcessesIInv, PM!TypeOK
<1> HIDE DEF pruned
<1>3. on[c] \in PM!Procs /\ on[c] \notin table /\ life[on[c]] # "unborn" /\ ~saw[c]
  BY <1>1, Unseen DEF ProcessesIInv, CallsFit, StoredAreNew
<1>4. /\ pc'[c] \in {"drain", "note"}
      /\ aims'[c] = {p \in pruned : ~PM!Done(p)}
      /\ \A d \in Callers : d # c => pc'[d] = pc[d] /\ aims'[d] = aims[d]
      /\ aims' \in [Callers -> SUBSET PM!Procs]
      /\ pc' \in [Callers -> {"idle", "store", "note", "kill", "input", "drain",
                              "mark", "wait", "last", "lastmark", "report", "remove"}]
  BY <1>1, <1>2 DEF ProcessesIInv, PM!TypeOK, PM!Go
<1>5. /\ table' \subseteq PM!Procs /\ on[c] \in table'
      /\ \A p \in table : p \in table' \/ PM!Done(p)
      /\ \A p \in table' : p \in table \/ p = on[c]
  BY <1>1, <1>3 DEF ProcessesIInv, PM!TypeOK
<1>6. PM!Dated' = PM!Dated \ (table \ table')
  <2>1. \A d \in Callers : pc'[d] = "store" <=> pc[d] = "store" /\ d # c
    BY <1>4
  <2>2. \A d \in Callers : pc[d] = "store" => on[d] \notin table
    BY DEF ProcessesIInv, StoredAreNew
  <2> QED
    BY <1>1, <1>5, <2>1, <2>2 DEF PM!Dated
<1>7. earlier' \in [PM!Procs -> SUBSET PM!Dated'] /\ PM!TimesAreOrdered'
  BY <1>1, <1>6, DropFacts, DatedFacts
<1>8. PM!TypeOK'
  BY <1>1, <1>4, <1>5, <1>7 DEF ProcessesIInv, PM!TypeOK
<1>9. CallsFit'
  BY <1>1, <1>3, <1>4 DEF ProcessesIInv, CallsFit
<1>10. StoredAreNew'
  <2>1. \A p \in table' : life'[p] # "unborn"
    BY <1>1, <1>3, <1>5 DEF ProcessesIInv, StoredAreNew
  <2> SUFFICES ASSUME NEW d \in Callers, pc'[d] = "store"
               PROVE  on'[d] \notin table' /\ \A e \in Callers : e # d => on'[e] # on'[d]
    BY <2>1 DEF StoredAreNew
  <2>2. d # c /\ pc[d] = "store"
    BY <1>4
  <2> QED
    BY <1>1, <1>5, <2>2 DEF ProcessesIInv, StoredAreNew
<1>11. RemovedHaveEnded'
  BY <1>1, <1>4 DEF ProcessesIInv, RemovedHaveEnded, PM!HasExitCode
<1>12. PM!LiveProcessesAreListed'
  <2> SUFFICES ASSUME NEW p \in PM!Procs, life'[p] \in {"running", "killed", "reaped"}
               PROVE  p \in table' \/ \E d \in Callers : pc'[d] = "store" /\ on'[d] = p
    BY DEF PM!LiveProcessesAreListed
  <2> QED
    BY <1>1, <1>4, <1>5 DEF ProcessesIInv, PM!LiveProcessesAreListed, PM!Done
<1>13. SeenIsComplete'
  <2>1. Ages
    BY <1>1, SameLife
  <2>2. \A d \in Callers : saw'[d] => /\ saw[d] /\ on'[d] = on[d]
                                      /\ pc'[d] = pc[d] \/ (pc[d] = "report" /\ pc'[d] = "remove")
    BY <1>1, <1>3, <1>4
  <2>3. \A p \in PM!Procs : PM!Done(p) => /\ Noting(p)' \subseteq Noting(p)
                                          /\ Len(buffer'[p]) <= Len(buffer[p])
                                          /\ PM!HasOutput(p)' => PM!HasOutput(p)
                                          /\ trunc'[p] => trunc[p]
    BY <1>1, <1>4, LenProperties DEF Noting, PM!HasOutput, ProcessesIInv, PM!TypeOK
  <2> QED
    BY <1>8, <2>1, <2>2, <2>3, SeenFrame DEF Ages
<1> QED
  BY <1>8, <1>9, <1>10, <1>11, <1>12, <1>13 DEF ProcessesIInv, PM!ProcessManagerAssumption

\* A process that starts is new to all others.
LEMMA BeginKeeps ==
  ASSUME ProcessesIInv, NEW c \in Callers, NEW p \in PM!Procs, PM!Begin(c, p)
  PROVE  ProcessesIInv'
<1>1. /\ pc[c] = "idle" /\ life[p] = "unborn" /\ PM!Touch(p)
      /\ life' = [life EXCEPT ![p] = "running"] /\ on' = [on EXCEPT ![c] = p]
      /\ fresh' = [fresh EXCEPT ![c] = TRUE] /\ PM!Go(c, "store")
      /\ UNCHANGED <<buffer, trunc, table, aims, cut, saw>>
  BY DEF PM!Begin
<1>2. /\ p \notin table /\ (\A d \in Callers : on[d] # p) /\ ~saw[c]
  BY <1>1, Unseen DEF ProcessesIInv, CallsFit, StoredAreNew
<1>3. /\ pc'[c] = "store" /\ on'[c] = p /\ life'[p] = "running"
      /\ \A d \in Callers : d # c => pc'[d] = pc[d] /\ on'[d] = on[d]
      /\ \A q \in PM!Procs : q # p => life'[q] = life[q]
      /\ life' \in [PM!Procs -> {"unborn", "running", "killed", "reaped", "exited", "done"}]
      /\ on' \in [Callers -> PM!Procs \cup {PM!None}] /\ fresh' \in [Callers -> BOOLEAN]
      /\ pc' \in [Callers -> {"idle", "store", "note", "kill", "input", "drain",
                              "mark", "wait", "last", "lastmark", "report", "remove"}]
  BY <1>1 DEF ProcessesIInv, PM!TypeOK, PM!Go
<1>4. PM!Dated' = PM!Dated \cup {p}
  <2>1. {d \in Callers : pc'[d] = "store"} = {d \in Callers : pc[d] = "store"} \cup {c}
    BY <1>3
  <2> QED
    BY <1>1, <1>3, <2>1 DEF PM!Dated
<1>5. earlier' \in [PM!Procs -> SUBSET PM!Dated'] /\ PM!TimesAreOrdered'
  BY <1>1, <1>4, TouchFacts, DatedFacts
<1>6. PM!TypeOK'
  BY <1>1, <1>3, <1>5 DEF ProcessesIInv, PM!TypeOK
<1>7. CallsFit'
  BY <1>3 DEF ProcessesIInv, CallsFit, PM!TypeOK
<1>8. StoredAreNew'
  <2>1. \A q \in table' : life'[q] # "unborn"
    BY <1>1, <1>2, <1>3 DEF ProcessesIInv, StoredAreNew, PM!TypeOK
  <2> SUFFICES ASSUME NEW d \in Callers, pc'[d] = "store"
               PROVE  on'[d] \notin table' /\ \A e \in Callers : e # d => on'[e] # on'[d]
    BY <2>1 DEF StoredAreNew
  <2>2. CASE d = c
    BY <1>1, <1>2, <1>3, <2>2
  <2>3. CASE d # c
    BY <1>1, <1>2, <1>3, <2>3 DEF ProcessesIInv, StoredAreNew
  <2> QED
    BY <2>2, <2>3
<1>9. RemovedHaveEnded'
  BY <1>2, <1>3 DEF ProcessesIInv, CallsFit, RemovedHaveEnded, PM!HasExitCode
<1>10. PM!LiveProcessesAreListed'
  BY <1>1, <1>3 DEF ProcessesIInv, PM!LiveProcessesAreListed
<1>11. SeenIsComplete'
  <2>1. \A q \in PM!Procs : PM!Done(q) => PM!Done(q)'
    BY <1>1, <1>3 DEF PM!Done
  <2>2. \A d \in Callers : saw'[d] => /\ saw[d] /\ on'[d] = on[d]
                                      /\ pc'[d] = pc[d] \/ (pc[d] = "report" /\ pc'[d] = "remove")
    BY <1>1, <1>2, <1>3
  <2>3. \A q \in PM!Procs : PM!Done(q) => /\ Noting(q)' \subseteq Noting(q)
                                          /\ Len(buffer'[q]) <= Len(buffer[q])
                                          /\ PM!HasOutput(q)' => PM!HasOutput(q)
                                          /\ trunc'[q] => trunc[q]
    BY <1>1, <1>3, LenProperties DEF Noting, PM!HasOutput, ProcessesIInv, PM!TypeOK
  <2> QED
    BY <1>6, <2>1, <2>2, <2>3, SeenFrame
<1> QED
  BY <1>6, <1>7, <1>8, <1>9, <1>10, <1>11 DEF ProcessesIInv, PM!ProcessManagerAssumption

\* A call finds its process in the table, hence not about to be stored.
LEMMA ContinueKeeps ==
  ASSUME ProcessesIInv, NEW c \in Callers, NEW p \in PM!Procs, PM!Continue(c, p)
  PROVE  ProcessesIInv'
<1>1. /\ pc[c] = "idle" /\ p \in table /\ PM!Touch(p)
      /\ UNCHANGED <<life, buffer, trunc>> /\ UNCHANGED <<table, fresh, cut, saw>>
      /\ \/ PM!Go(c, "drain") /\ on' = [on EXCEPT ![c] = p] /\ UNCHANGED aims
         \/ PM!Go(c, "kill") /\ on' = [on EXCEPT ![c] = p] /\ aims' = [aims EXCEPT ![c] = {p}]
         \/ PM!Go(c, "input") /\ on' = [on EXCEPT ![c] = p] /\ UNCHANGED aims
         \/ UNCHANGED <<pc, on, aims>>
  BY DEF PM!Continue, PM!proc
<1>2. /\ pc'[c] \in {"idle", "drain", "kill", "input"} /\ on'[c] \in {on[c], p} /\ (pc'[c] # "idle" => on'[c] = p)
      /\ \A d \in Callers : d # c => pc'[d] = pc[d] /\ on'[d] = on[d] /\ aims'[d] = aims[d]
      /\ on' \in [Callers -> PM!Procs \cup {PM!None}] /\ aims' \in [Callers -> SUBSET PM!Procs]
      /\ pc' \in [Callers -> {"idle", "store", "note", "kill", "input", "drain",
                              "mark", "wait", "last", "lastmark", "report", "remove"}]
  <2>1. CASE PM!Go(c, "drain") /\ on' = [on EXCEPT ![c] = p] /\ UNCHANGED aims
    BY <1>1, <2>1 DEF ProcessesIInv, PM!TypeOK, PM!Go
  <2>2. CASE PM!Go(c, "kill") /\ on' = [on EXCEPT ![c] = p] /\ aims' = [aims EXCEPT ![c] = {p}]
    BY <1>1, <2>2 DEF ProcessesIInv, PM!TypeOK, PM!Go
  <2>3. CASE PM!Go(c, "input") /\ on' = [on EXCEPT ![c] = p] /\ UNCHANGED aims
    BY <1>1, <2>3 DEF ProcessesIInv, PM!TypeOK, PM!Go
  <2>4. CASE UNCHANGED <<pc, on, aims>>
    BY <1>1, <2>4 DEF ProcessesIInv, PM!TypeOK
  <2> QED
    BY <1>1, <2>1, <2>2, <2>3, <2>4
<1>3. ~saw[c] /\ life[p] # "unborn"
  BY <1>1, Unseen DEF ProcessesIInv, StoredAreNew
<1>4. PM!Dated' = PM!Dated \cup {p}
  <2>1. \A d \in Callers : pc'[d] = "store" <=> pc[d] = "store"
    BY <1>1, <1>2
  <2>2. \A d \in Callers : pc[d] = "store" => on'[d] = on[d]
    BY <1>1, <1>2
  <2> QED
    BY <1>1, <2>1, <2>2 DEF PM!Dated
<1>5. earlier' \in [PM!Procs -> SUBSET PM!Dated'] /\ PM!TimesAreOrdered'
  BY <1>1, <1>4, TouchFacts, DatedFacts
<1>6. PM!TypeOK'
  BY <1>1, <1>2, <1>5 DEF ProcessesIInv, PM!TypeOK
<1>7. CallsFit'
  BY <1>1, <1>2, <1>3 DEF ProcessesIInv, CallsFit
<1>8. StoredAreNew'
  <2> SUFFICES ASSUME NEW d \in Callers, pc'[d] = "store"
               PROVE  on'[d] \notin table' /\ \A e \in Callers : e # d => on'[e] # on'[d]
    BY <1>1 DEF ProcessesIInv, StoredAreNew
  <2>1. d # c /\ pc[d] = "store" /\ on'[d] = on[d] /\ on[d] # p
    BY <1>1, <1>2 DEF ProcessesIInv, StoredAreNew
  <2> QED
    BY <1>1, <1>2, <2>1 DEF ProcessesIInv, StoredAreNew
<1>9. RemovedHaveEnded'
  BY <1>1, <1>2 DEF ProcessesIInv, RemovedHaveEnded, PM!HasExitCode
<1>10. PM!LiveProcessesAreListed'
  BY <1>1, <1>2 DEF ProcessesIInv, PM!LiveProcessesAreListed
<1>11. SeenIsComplete'
  <2>1. Ages
    BY <1>1, SameLife
  <2>2. \A d \in Callers : saw'[d] => /\ saw[d] /\ on'[d] = on[d]
                                      /\ pc'[d] = pc[d] \/ (pc[d] = "report" /\ pc'[d] = "remove")
    BY <1>1, <1>2, <1>3
  <2>3. \A q \in PM!Procs : PM!Done(q) => /\ Noting(q)' \subseteq Noting(q)
                                          /\ Len(buffer'[q]) <= Len(buffer[q])
                                          /\ PM!HasOutput(q)' => PM!HasOutput(q)
                                          /\ trunc'[q] => trunc[q]
    BY <1>1, <1>2, LenProperties DEF Noting, PM!HasOutput, ProcessesIInv, PM!TypeOK
  <2> QED
    BY <1>6, <2>1, <2>2, <2>3, SeenFrame DEF Ages
<1> QED
  BY <1>6, <1>7, <1>8, <1>9, <1>10, <1>11 DEF ProcessesIInv, PM!ProcessManagerAssumption

-----------------------------------------------------------------------------
(* The theorems.                                                           *)

\* Every step keeps all of it.
LEMMA ProcessesNext ==
  ASSUME ProcessesIInv, [PM!Next]_(PM!vars)
  PROVE  ProcessesIInv'
<1>1. ASSUME NEW c \in Callers, NEW p \in PM!Procs, PM!Begin(c, p) \/ PM!Continue(c, p) PROVE ProcessesIInv'
  BY <1>1, BeginKeeps, ContinueKeeps
<1>2. ASSUME NEW c \in Callers, PM!Calls(c) \/ PM!InputTaken(c) \/ PM!Expire(c) PROVE ProcessesIInv'
  BY <1>2, StoreKeeps, NoteKeeps, TerminateKeeps, InputFailsKeeps, CollectKeeps, MarkKeeps,
     SeeDoneKeeps, ExpireKeeps, ReportKeeps, RemoveExitedKeeps, InputTakenKeeps DEF PM!Calls
<1>3. ASSUME NEW p \in PM!Procs, PM!Write(p) \/ PM!Stop(p) \/ PM!Forget(p) PROVE ProcessesIInv'
  BY <1>3, WriteKeeps, StopKeeps, ForgetKeeps
<1>4. ASSUME NEW p \in PM!Procs, PM!Reap(p) \/ PM!SetExitCode(p) \/ PM!CloseDone(p) PROVE ProcessesIInv'
  BY <1>4, BecomesKeeps DEF PM!Reap, PM!SetExitCode, PM!CloseDone
<1>5. CASE UNCHANGED PM!vars
  <2>1. UNCHANGED <<PM!list, PM!call>> /\ UNCHANGED <<life, buffer, trunc>>
    BY <1>5 DEF PM!vars, PM!proc
  <2>2. CallTypes'
    BY <2>1 DEF ProcessesIInv, PM!TypeOK, CallTypes, PM!call
  <2>3. Ages
    BY <2>1, SameLife
  <2> QED
    BY <2>1, <2>2, <2>3, ProcessStep
<1> QED
  BY <1>1, <1>2, <1>3, <1>4, <1>5 DEF PM!Next

\* No flag is cleared but by a call that takes it over, and no call drops it before its end.
LEMMA NoLossIsForgotten ==
  ASSUME ProcessesIInv, ProcessesIInv', [PM!Next]_(PM!vars)
  PROVE  /\ \A p \in PM!Procs : trunc[p] /\ ~trunc'[p] => \E c \in Callers : on[c] = p /\ cut'[c]
         /\ \A c \in Callers : cut[c] /\ ~cut'[c] => pc'[c] = "idle"
<1> DEFINE Flags == \A p \in PM!Procs : trunc[p] => trunc'[p]
           Told  == \A c \in Callers : cut[c] /\ ~cut'[c] => pc'[c] = "idle"
<1>1. ASSUME UNCHANGED <<trunc, cut>> PROVE Flags /\ Told
  BY <1>1
<1>2. ASSUME NEW c \in Callers, UNCHANGED trunc, PM!Return(c) PROVE Flags /\ Told
  BY <1>2 DEF PM!Return, PM!Go, ProcessesIInv, PM!TypeOK
<1>3. ASSUME NEW c \in Callers, PM!Drain(c) \/ PM!LastDrain(c) PROVE Flags /\ Told
  BY <1>3 DEF PM!Drain, PM!LastDrain, PM!Collect, ProcessesIInv, PM!TypeOK
<1>4. ASSUME NEW p \in PM!Procs, NEW unit \in {"out", "note"}, PM!Append1(p, unit), UNCHANGED cut PROVE Flags /\ Told
  BY <1>4, AppendFacts DEF ProcessesIInv
<1>5. ASSUME NEW c \in Callers, PM!Mark(c)
      PROVE  Told /\ \A p \in PM!Procs : trunc[p] /\ ~trunc'[p] => on[c] = p /\ cut'[c]
  BY <1>5 DEF PM!Mark, ProcessesIInv, PM!TypeOK
<1>6. ASSUME NEW c \in Callers, NEW p \in PM!Procs, PM!Begin(c, p) \/ PM!Continue(c, p) PROVE Flags /\ Told
  BY <1>1, <1>6 DEF PM!Begin, PM!Continue, PM!proc
<1>7. ASSUME NEW c \in Callers, PM!Store(c) \/ PM!Terminate(c) \/ PM!SeeDone(c) \/ PM!Wake(c) \/ PM!InputTaken(c) \/ PM!Expire(c)
      PROVE  Flags /\ Told
  BY <1>1, <1>7 DEF PM!Store, PM!Terminate, PM!SeeDone, PM!Wake, PM!InputTaken, PM!Expire, PM!proc
<1>8. ASSUME NEW c \in Callers, PM!Note(c) PROVE Flags /\ Told
  <2>1. PICK p \in aims[c] : PM!Append1(p, "note")
    BY <1>8 DEF PM!Note
  <2>2. p \in PM!Procs /\ UNCHANGED cut
    BY <1>8 DEF PM!Note, ProcessesIInv, PM!TypeOK
  <2> QED
    BY <1>4, <2>1, <2>2
<1>9. ASSUME NEW c \in Callers, PM!InputFails(c) \/ PM!Report(c) \/ PM!RemoveExited(c) PROVE Flags /\ Told
  <2>1. UNCHANGED trunc /\ (UNCHANGED cut \/ PM!Return(c))
    BY <1>9 DEF PM!InputFails, PM!Report, PM!RemoveExited
  <2> QED
    BY <1>1, <1>2, <2>1
<1>10. ASSUME NEW p \in PM!Procs, PM!Write(p) \/ PM!Stop(p) \/ PM!Reap(p) \/ PM!SetExitCode(p) \/ PM!CloseDone(p) \/ PM!Forget(p)
       PROVE  Flags /\ Told
  <2>1. CASE PM!Write(p)
    BY <1>4, <2>1 DEF PM!Write, PM!call
  <2>2. CASE PM!Stop(p) \/ PM!Reap(p) \/ PM!SetExitCode(p) \/ PM!CloseDone(p) \/ PM!Forget(p)
    BY <1>1, <2>2 DEF PM!Stop, PM!Reap, PM!SetExitCode, PM!CloseDone, PM!Becomes, PM!Forget,
       PM!call, PM!proc
  <2> QED
    BY <1>10, <2>1, <2>2
<1>11. ASSUME UNCHANGED PM!vars PROVE Flags /\ Told
  BY <1>1, <1>11 DEF PM!vars, PM!call, PM!proc
<1>12. CASE \E c \in Callers : PM!Mark(c)
  BY <1>5, <1>12
<1>13. CASE ~\E c \in Callers : PM!Mark(c)
  <2>1. ASSUME NEW c \in Callers, PM!Calls(c) PROVE Flags /\ Told
    BY <1>3, <1>7, <1>8, <1>9, <1>13, <2>1 DEF PM!Calls
  <2>2. Flags /\ Told
    <3> HIDE DEF Flags, Told
    <3>1. CASE \E c \in Callers : (\E p \in PM!Procs : PM!Begin(c, p) \/ PM!Continue(c, p))
                                  \/ PM!Calls(c) \/ PM!InputTaken(c) \/ PM!Expire(c)
      BY <1>6, <1>7, <2>1, <3>1
    <3>2. CASE \E p \in PM!Procs : PM!Write(p) \/ PM!Stop(p) \/ PM!Reap(p) \/ PM!SetExitCode(p) \/ PM!CloseDone(p) \/ PM!Forget(p)
      BY <1>10, <3>2
    <3> QED
      BY <1>11, <3>1, <3>2 DEF PM!Next
  <2> QED
    BY <2>2
<1> QED
  BY <1>12, <1>13

\* What runs is listed, so that the user can stop it (store, Remove, removeCompletedLater).
THEOREM ProcessesStayListed ==
  ASSUME PM!ProcessManagerAssumption
  PROVE  PM!Spec => []PM!LiveProcessesAreListed
<1>1. ProcessesIInv => PM!LiveProcessesAreListed
  BY DEF ProcessesIInv
<1>2. PM!Init => ProcessesIInv
  BY ProcessesInit
<1>3. ProcessesIInv /\ [PM!Next]_(PM!vars) => ProcessesIInv'
  BY ProcessesNext
<1> QED
  BY <1>1, <1>2, <1>3, PTL DEF PM!Spec

\* A result with the exit that was seen is complete, and a loss of output is announced
\* (collect, consumeTruncated, processOutputBuffer.Write).
THEOREM OutputStaysComplete ==
  ASSUME PM!ProcessManagerAssumption
  PROVE  PM!Spec => PM!OutputIsComplete
<1>1. ProcessesIInv => PM!TypeOK /\ PM!ExitLeavesNothing
  BY DEF ProcessesIInv, SeenIsComplete, PM!ExitLeavesNothing
<1>2. ASSUME ProcessesIInv, ProcessesIInv', [PM!Next]_(PM!vars)
      PROVE  [/\ \A p \in PM!Procs : trunc[p] /\ ~trunc'[p] => \E c \in Callers : on[c] = p /\ cut'[c]
              /\ \A c \in Callers : cut[c] /\ ~cut'[c] => pc'[c] = "idle"]_(PM!vars)
  BY <1>2, NoLossIsForgotten
<1>3. PM!Init => ProcessesIInv
  BY ProcessesInit
<1>4. ProcessesIInv /\ [PM!Next]_(PM!vars) => ProcessesIInv'
  BY ProcessesNext
<1> QED
  BY <1>1, <1>2, <1>3, <1>4, PTL DEF PM!Spec, PM!OutputIsComplete, PM!LossIsAnnounced

=============================================================================
