------------------------------- MODULE CronFire -------------------------------
(***************************************************************************)
(* Scheduled jobs: the job store (internal/cron) and the processes that    *)
(* work on it: schedulers (zero cron run, for ever or --once), which list  *)
(* the jobs, claim a due one, execute it and persist the outcome, and the  *)
(* commands add, pause, resume and remove.  Every store operation that     *)
(* takes the job's lock is one step (module TokenLock is about the lock);  *)
(* List and Get take no lock.  Time counts the slots of the schedule.      *)
(***************************************************************************)
EXTENDS Naturals, Sequences, FiniteSets

CONSTANTS Jobs,       \* job ids
          Forever,    \* schedulers that loop
          Once,       \* schedulers started with --once
          Commands,   \* one-shot commands on a job
          Kinds,      \* what the commands do
          Crashes,    \* can schedulers be killed and started again?
          MaxTime     \* bound: slots of the run

Schedulers == Forever \cup Once

ASSUME CronAssumption ==
    /\ Forever \cap Once = {} /\ "none" \notin Jobs
    /\ Kinds \subseteq {"pause", "resume", "remove"}
    /\ MaxTime \in Nat \ {0}

VARIABLES disk,  \* a job's metadata.json, or Absent
          runs,  \* number of lines of its runs.jsonl
          clock, \* the current slot
          sched, \* schedulers
          cmd,   \* commands
          log,   \* history: the slots whose fire was claimed, per job
          overran\* history: a fire or a command has outlasted a slot

vars == <<disk, runs, clock, sched, cmd, log, overran>>

-----------------------------------------------------------------------------
\* A job recurs if its schedule has a next slot.
Job == [status : {"active", "paused"}, recurs : BOOLEAN, next : 0..(MaxTime + 1), fires : Nat]
Absent == [status |-> "absent", recurs |-> FALSE, next |-> 0, fires |-> 0]
\* An id is a time stamp: that of a removed job is not used again.
Removed == [Absent EXCEPT !.status = "removed"]
Exists(j) == disk[j].status \in {"active", "paused"}

\* Schedule.Next, strictly after the given slot.
NextSlot(t) == t + 1

NoList == [j \in Jobs |-> Absent]
Idle == [at |-> "idle", todo |-> {}, list |-> NoList, job |-> "none", fired |-> 0]
Init ==
    /\ disk = [j \in Jobs |-> Absent]
    /\ runs = [j \in Jobs |-> 0]
    /\ clock = 1
    /\ sched = [s \in Schedulers |-> [Idle EXCEPT !.at = "stopped"]]
    /\ cmd = [c \in Commands |-> [at |-> "new", kind |-> "none", job |-> "none", copy |-> Absent]]
    /\ log = [j \in Jobs |-> <<>>]
    /\ overran = FALSE

Write(j, job) == disk' = [disk EXCEPT ![j] = job]

-----------------------------------------------------------------------------
(* Commands *)

\* cronAdd, also with --run-now, which makes the job due at once.  A job whose
\* schedule never fires gets into the store only by hand.
Add(j) ==
    /\ disk[j] = Absent
    /\ \E next \in {clock, NextSlot(clock)}, recurs \in BOOLEAN :
         Write(j, [status |-> "active", recurs |-> recurs, next |-> next, fires |-> 0])
    /\ UNCHANGED <<runs, clock, sched, cmd, log, overran>>

\* cronSetStatus and cronResume read the job ...
Get(c, j) ==
    /\ cmd[c].at = "new" /\ Exists(j)
    /\ \/ /\ "pause" \in Kinds
          /\ cmd' = [cmd EXCEPT ![c] = [at |-> "got", kind |-> "pause", job |-> j,
                         copy |-> [disk[j] EXCEPT !.status = "paused"]]]
       \/ /\ "resume" \in Kinds /\ disk[j].recurs
          /\ cmd' = [cmd EXCEPT ![c] = [at |-> "got", kind |-> "resume", job |-> j,
                         copy |-> [disk[j] EXCEPT !.status = "active",
                                                  !.next = NextSlot(clock)]]]
    /\ UNCHANGED <<disk, runs, clock, sched, log, overran>>

\* ... and write back what they read, changed, unless it was removed.
Update(c) ==
    /\ cmd[c].at = "got"
    /\ IF Exists(cmd[c].job) THEN Write(cmd[c].job, cmd[c].copy) ELSE UNCHANGED disk
    /\ cmd' = [cmd EXCEPT ![c].at = "done"]
    /\ UNCHANGED <<runs, clock, sched, log, overran>>

Remove(c, j) ==
    /\ cmd[c].at = "new" /\ "remove" \in Kinds /\ Exists(j)
    /\ Write(j, Removed)
    /\ runs' = [runs EXCEPT ![j] = 0]
    /\ cmd' = [cmd EXCEPT ![c].at = "done"]
    /\ UNCHANGED <<clock, sched, log, overran>>

-----------------------------------------------------------------------------
(* Schedulers *)

Goto(s, at) == sched' = [sched EXCEPT ![s].at = at]
\* After a job, the next one of the list.
Skip(s, j) == sched' = [sched EXCEPT ![s].at = "listed", ![s].todo = @ \ {j},
                                     ![s].list[j] = Absent, ![s].job = "none",
                                     ![s].fired = 0]

\* Started for ever without --catch-up, a scheduler first reschedules what is
\* overdue; otherwise it fires what is due.
Start(s) ==
    /\ sched[s].at = "stopped"
    /\ \/ sched' = [sched EXCEPT ![s] = Idle]
       \/ s \in Forever /\ sched' = [sched EXCEPT ![s] =
            [Idle EXCEPT !.at = "reconcile", !.list = disk,
                         !.todo = {j \in Jobs : disk[j].status = "active" /\ disk[j].next < clock}]]
    /\ UNCHANGED <<disk, runs, clock, cmd, log, overran>>

\* reconcileOverdue: Update with the job as it was listed.
Reconcile(s, j) ==
    LET late == [sched[s].list[j] EXCEPT !.next = NextSlot(clock)] IN
    /\ sched[s].at = "reconcile" /\ j \in sched[s].todo
    /\ IF Exists(j) /\ late.recurs THEN Write(j, late) ELSE UNCHANGED disk
    /\ sched' = [sched EXCEPT ![s].todo = @ \ {j}]
    /\ UNCHANGED <<runs, clock, cmd, log, overran>>

EndReconcile(s) ==
    /\ sched[s].at = "reconcile" /\ sched[s].todo = {}
    /\ sched' = [sched EXCEPT ![s] = Idle]
    /\ UNCHANGED <<disk, runs, clock, cmd, log, overran>>

\* fireDue: a list of the jobs, those that are not active left out.
List(s) ==
    /\ sched[s].at = "idle"
    /\ sched' = [sched EXCEPT ![s] = [Idle EXCEPT !.at = "listed", !.list = disk,
                     !.todo = {j \in Jobs : disk[j].status = "active"}]]
    /\ UNCHANGED <<disk, runs, clock, cmd, log, overran>>

NotQuiteDue(s, j) ==
    /\ sched[s].at = "listed" /\ j \in sched[s].todo
    /\ sched[s].list[j].next >= clock
    /\ Skip(s, j)
    /\ UNCHANGED <<disk, runs, clock, cmd, log, overran>>

NotDue(s, j) ==
    /\ sched[s].at = "listed" /\ j \in sched[s].todo
    /\ sched[s].list[j].next > clock
    /\ Skip(s, j)
    /\ UNCHANGED <<disk, runs, clock, cmd, log, overran>>

ClaimFromTheList(s, j) ==
    LET job == sched[s].list[j] IN
    /\ sched[s].at = "listed" /\ j \in sched[s].todo
    /\ job.next <= clock /\ Exists(j)
    /\ Write(j, [job EXCEPT !.next = NextSlot(clock)])
    /\ log' = [log EXCEPT ![j] = Append(@, job.next)]
    /\ sched' = [sched EXCEPT ![s].at = "fired", ![s].job = j, ![s].fired = clock]
    /\ UNCHANGED <<runs, clock, cmd, overran>>

\* claimFire: under the lock, the job is read again; the claim moves it to the
\* next slot, or pauses it when it has none.
Claim(s, j) ==
    LET job == disk[j] IN
    /\ sched[s].at = "listed" /\ j \in sched[s].todo
    /\ sched[s].list[j].next <= clock
    /\ IF job.status # "active" \/ job.next > clock
       THEN Skip(s, j) /\ UNCHANGED <<disk, log>>
       ELSE /\ Write(j, IF job.recurs THEN [job EXCEPT !.next = NextSlot(clock)]
                                            ELSE [job EXCEPT !.status = "paused"])
            /\ log' = [log EXCEPT ![j] = Append(@, job.next)]
            /\ sched' = [sched EXCEPT ![s].at = "fired", ![s].job = j, ![s].fired = clock]
    /\ UNCHANGED <<runs, clock, cmd, overran>>

KeepCopyStatus(s, j) ==
    [sched[s].list[j] EXCEPT !.fires = @ + 1, !.next = NextSlot(sched[s].fired)]

\* fireJob after the execution: the schedule is advanced from the slot of this
\* fire, the count from the list; a job without a next slot is paused.
Advanced(s, j) ==
    [disk[j] EXCEPT !.fires = sched[s].list[j].fires + 1,
                    !.next = IF disk[j].recurs THEN NextSlot(sched[s].fired)
                                               ELSE sched[s].list[j].next,
                    !.status = IF disk[j].recurs THEN @ ELSE "paused"]

\* The job is written unless it was removed.
Persist(s) ==
    LET j == sched[s].job IN
    /\ sched[s].at = "fired"
    /\ IF Exists(j) THEN Write(j, Advanced(s, j)) /\ Goto(s, "record")
                    ELSE Skip(s, j) /\ UNCHANGED disk
    /\ UNCHANGED <<runs, clock, cmd, log, overran>>

\* AppendRun, which does nothing for a removed job.
AppendRun(s) ==
    LET j == sched[s].job IN
    /\ sched[s].at = "record"
    /\ IF Exists(j) THEN runs' = [runs EXCEPT ![j] = @ + 1] ELSE UNCHANGED runs
    /\ Skip(s, j)
    /\ UNCHANGED <<disk, clock, cmd, log, overran>>

\* The end of a pass; --once exits.
EndPass(s) ==
    /\ sched[s].at = "listed" /\ sched[s].todo = {}
    /\ sched' = [sched EXCEPT ![s] = [Idle EXCEPT !.at = IF s \in Once THEN "stopped" ELSE "idle"]]
    /\ UNCHANGED <<disk, runs, clock, cmd, log, overran>>

Crash(s) ==
    /\ Crashes /\ sched[s].at # "stopped"
    /\ sched' = [sched EXCEPT ![s] = [Idle EXCEPT !.at = "stopped"]]
    /\ UNCHANGED <<disk, runs, clock, cmd, log, overran>>

AtRest ==
    /\ \A s \in Schedulers : sched[s].at \in {"idle", "stopped"}
    /\ \A c \in Commands : cmd[c].at # "got"

Tick ==
    /\ clock < MaxTime
    /\ clock' = clock + 1
    /\ overran' = (overran \/ ~AtRest)
    /\ UNCHANGED <<disk, runs, sched, cmd, log>>

-----------------------------------------------------------------------------
FireStep(s) ==
    \/ \E j \in Jobs : Reconcile(s, j) \/ NotDue(s, j) \/ Claim(s, j)
    \/ EndReconcile(s) \/ List(s) \/ Persist(s) \/ AppendRun(s) \/ EndPass(s)

Next ==
    \/ \E s \in Schedulers : Start(s) \/ FireStep(s) \/ Crash(s)
    \/ \E j \in Jobs : Add(j) \/ \E c \in Commands : Get(c, j) \/ Remove(c, j)
    \/ \E c \in Commands : Update(c)
    \/ Tick

Spec == Init /\ [][Next]_vars

\* The ticker and the lock retries make a running scheduler go on, and every
\* execution ends; nobody has to issue a command.
FairSpec == Spec /\ \A s \in Forever : WF_vars(FireStep(s))

-----------------------------------------------------------------------------
\* The shape of the state.
TypeOK ==
    /\ disk \in [Jobs -> Job \cup {Absent, Removed}] /\ runs \in [Jobs -> Nat]
    /\ clock \in 1..MaxTime
    /\ \A s \in Schedulers :
         /\ sched[s].at \in {"stopped", "idle", "reconcile", "listed", "fired", "record"}
         /\ sched[s].todo \subseteq Jobs /\ sched[s].list \in [Jobs -> Job \cup {Absent, Removed}]
         /\ sched[s].job \in Jobs <=> sched[s].at \in {"fired", "record"}
    /\ \A c \in Commands : cmd[c].at = "got" => cmd[c].job \in Jobs /\ cmd[c].copy \in Job
    /\ \A j \in Jobs : log[j] \in Seq(0..MaxTime)
    /\ overran \in BOOLEAN

\* As long as fires and commands end within their slot, of all schedulers and
\* passes, crashed ones included, at most one fires a slot (claimFire).
NoSlotFiresTwice ==
    /\ TypeOK
    /\ ~overran => \A j \in Jobs : \A m, n \in DOMAIN log[j] : m # n => log[j][m] # log[j][n]

\* A job that was paused while it executed stays paused: only a resume, or a
\* reconcile that listed it before, makes it active (fireJob, Mutate).
PauseStands ==
    [][\A j \in Jobs : disk[j].status = "paused" /\ disk'[j].status = "active"
         => \/ \E c \in Commands : cmd[c].kind = "resume" /\ cmd[c].job = j /\ cmd'[c] # cmd[c]
            \/ \E s \in Forever : sched[s].at = "reconcile" /\ j \in sched[s].todo \ sched'[s].todo]_vars

\* A job removed while it executed stays removed, and leaves no run records
\* behind (AppendRun, Mutate, Update).
RemovedStaysRemoved ==
    [][\A j \in Jobs : disk[j] = Removed => disk'[j] = Removed /\ runs'[j] = 0]_vars

\* What a command did during an execution is not undone when it ends.
CommandsStand == PauseStands /\ RemovedStaysRemoved

\* Under FairSpec, while a scheduler runs, a due job does not stay due.
DueJobsFire ==
    \A s \in Forever, j \in Jobs :
        disk[j].status = "active" /\ disk[j].next <= clock /\ sched[s].at # "stopped"
            ~> \/ disk[j].status # "active" \/ disk[j].next > clock
               \/ sched[s].at = "stopped"

-----------------------------------------------------------------------------
(* Claims that the interleavings refute.                                   *)

\* claimFire (cron_run.go): "a valid recurring job never double-fires".
NeverDoubleFires ==
    \A j \in Jobs : \A m, n \in DOMAIN log[j] : m # n => log[j][m] # log[j][n]

\* Once its fires are recorded, the count of a job is the number of its runs.
FireCountIsExact ==
    \A j \in Jobs : Exists(j) /\ (\A s \in Schedulers : sched[s].at # "record" \/ sched[s].job # j)
        => disk[j].fires = runs[j]
=============================================================================
