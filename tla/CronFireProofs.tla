---------------------------- MODULE CronFireProofs ----------------------------
(***************************************************************************)
(* Theorems about CronFire, for every set of jobs, schedulers and          *)
(* commands, with and without crashes, and every number of slots.          *)
(***************************************************************************)
EXTENDS CronFire, TLAPS

USE CronAssumption

-----------------------------------------------------------------------------
(* The inductive invariant.                                                *)

\* What the file of a job may be.
Entry == Job \cup {Absent, Removed}

\* What a scheduler remembers from one step to the next ...
SchedulerState ==
    [at : {"stopped", "idle", "reconcile", "listed", "fired", "record"}, todo : SUBSET Jobs,
     list : [Jobs -> Entry], job : Jobs \cup {"none"}, fired : 0..MaxTime]

\* ... and a command.
CommandState ==
    [at : {"new", "got", "done"}, kind : {"none"} \cup Kinds,
     job : Jobs \cup {"none"}, copy : Job \cup {Absent}]

\* The shape of the state: that of TypeOK, written with records.
Shapes ==
    /\ disk \in [Jobs -> Entry] /\ runs \in [Jobs -> Nat]
    /\ clock \in 1..MaxTime /\ overran \in BOOLEAN
    /\ sched \in [Schedulers -> SchedulerState]
    /\ cmd \in [Commands -> CommandState]
    /\ log \in [Jobs -> Seq(0..MaxTime)]

\* Who is at a job knows it, and only who was started for ever reconciles, with
\* what was active in its list.
Fits(s, x) ==
    /\ x.job \in Jobs <=> x.at \in {"fired", "record"}
    /\ x.at = "reconcile" => s \in Forever /\ \A j \in x.todo : x.list[j].status = "active"
SchedulersFit == \A s \in Schedulers : Fits(s, sched[s])

\* What a command is about to write is a job, and an active one only to resume.
CopiesFit ==
    \A c \in Commands : cmd[c].at = "got" =>
       /\ cmd[c].job \in Jobs /\ cmd[c].copy \in Job
       /\ cmd[c].copy.status = "active" => cmd[c].kind = "resume"

\* A removed job has no run records.
RemovedHaveNoRuns == \A j \in Jobs : disk[j] = Removed => runs[j] = 0

\* No slot is fired ahead of its time, or before there is a job.
LogIsPast ==
    \A j \in Jobs :
       /\ disk[j] = Absent => log[j] = <<>>
       /\ \A n \in 1..Len(log[j]) : log[j][n] <= clock

\* Within its slot, a fire and a resume move the job past that slot.
FiresAreCurrent ==
    ~overran => \A s \in Schedulers : sched[s].at = "fired" => sched[s].fired = clock

\* The same of a resume that has read its job.
CopiesAreCurrent ==
    ~overran => \A c \in Commands :
        cmd[c].at = "got" /\ cmd[c].copy.status = "active" => cmd[c].copy.next = clock + 1

\* An active job waits for a slot later than all it was fired for.
NextIsAhead ==
    ~overran => \A j \in Jobs : disk[j].status = "active" =>
                    \A n \in 1..Len(log[j]) : log[j][n] < disk[j].next

\* What NoSlotFiresTwice says.
SlotsDiffer ==
    ~overran => \A j \in Jobs : \A m, n \in 1..Len(log[j]) : m # n => log[j][m] # log[j][n]

\* All of it.
IInv ==
    /\ Shapes /\ SchedulersFit /\ CopiesFit
    /\ RemovedHaveNoRuns /\ LogIsPast
    /\ FiresAreCurrent /\ CopiesAreCurrent
    /\ NextIsAhead /\ SlotsDiffer

-----------------------------------------------------------------------------
(* Jobs.                                                                   *)

\* The fields of a file, whether there is a job in it or not.
LEMMA EntryFacts ==
  ASSUME NEW e \in Entry
  PROVE  /\ e.status \in {"active", "paused", "absent", "removed"} /\ e.recurs \in BOOLEAN
         /\ e.next \in 0..(MaxTime + 1) /\ e.fires \in Nat
         /\ e.status \in {"active", "paused"} => e \in Job
<1>1. CASE e \in Job
  BY <1>1 DEF Job
<1>2. CASE e = Absent
  BY <1>2 DEF Absent
<1>3. CASE e = Removed
  BY <1>3 DEF Removed, Absent
<1> QED
  BY <1>1, <1>2, <1>3 DEF Entry

\* The two files without a job.
LEMMA NoJobs ==
  /\ Absent \in Entry /\ Absent.status = "absent"
  /\ Removed \in Entry /\ Removed.status = "removed"
BY DEF Removed, Absent, Entry

\* A job stays one when its slot or its status changes.
LEMMA JobFacts ==
  ASSUME NEW e \in Job
  PROVE  /\ e \in Entry /\ e # Absent /\ e # Removed /\ e.status \in {"active", "paused"}
         /\ \A n \in 0..(MaxTime + 1) :
              /\ [e EXCEPT !.next = n] \in Job /\ [e EXCEPT !.next = n].next = n
              /\ [e EXCEPT !.next = n].status = e.status
         /\ [e EXCEPT !.status = "paused"] \in Job
         /\ [e EXCEPT !.status = "paused"].status = "paused"
BY DEF Job, Entry, Absent, Removed

\* Whoever writes a job leaves it as it was or moves it past the present slot.
LEMMA JobIsWritten ==
  ASSUME IInv, NEW j \in Jobs, NEW job \in Job, Write(j, job), disk[j] # Removed,
         UNCHANGED <<runs, log, clock, overran>>,
         ~overran /\ job.status = "active" =>
            \/ job.next = clock + 1
            \/ disk[j].status = "active" /\ job.next = disk[j].next
            \/ disk[j] = Absent
  PROVE  disk' \in [Jobs -> Entry] /\ RemovedHaveNoRuns' /\ LogIsPast' /\ NextIsAhead' /\ SlotsDiffer'
<1>1. disk'[j] = job /\ \A k \in Jobs : k # j => disk'[k] = disk[k]
  BY DEF IInv, Shapes, Write
<1>2. disk' \in [Jobs -> Entry]
  BY JobFacts DEF IInv, Shapes, Write
<1>3. RemovedHaveNoRuns'
  BY ZenonT(60), ZenonT(60), <1>1, JobFacts DEF IInv, RemovedHaveNoRuns
<1>4. LogIsPast'
  BY <1>1, JobFacts DEF IInv, LogIsPast
<1>5. ASSUME ~overran, job.status = "active", NEW n \in 1..Len(log[j])
      PROVE  log[j][n] < job.next
  <2>1. log[j][n] <= clock /\ log[j][n] \in 0..MaxTime /\ clock \in 1..MaxTime /\ disk[j] # Absent
    BY <1>5 DEF IInv, LogIsPast, Shapes
  <2> QED
    BY <1>5, <2>1 DEF IInv, NextIsAhead
<1>6. NextIsAhead'
  BY <1>1, <1>5 DEF IInv, NextIsAhead
<1>7. SlotsDiffer'
  BY DEF IInv, SlotsDiffer
<1> QED
  BY <1>2, <1>3, <1>4, <1>6, <1>7

-----------------------------------------------------------------------------
(* Schedulers.                                                             *)

\* A scheduler's memory keeps its shape.
LEMMA StateFacts ==
  ASSUME NEW x \in SchedulerState
  PROVE  /\ x.at \in {"stopped", "idle", "reconcile", "listed", "fired", "record"}
         /\ x.todo \subseteq Jobs /\ x.list \in [Jobs -> Entry] /\ x.fired \in 0..MaxTime
         /\ [x EXCEPT !.at = "record"] \in SchedulerState
         /\ \A todo \in SUBSET Jobs : [x EXCEPT !.todo = todo] \in SchedulerState
         /\ \A j \in Jobs, n \in 0..MaxTime : [x EXCEPT !.at = "fired", !.job = j, !.fired = n] \in SchedulerState
BY DEF SchedulerState

\* An idle scheduler is at no job.
LEMMA IdleFacts ==
  /\ Idle \in SchedulerState /\ Idle.at = "idle" /\ Idle.job = "none"
  /\ \A s \in Schedulers : Fits(s, Idle)
<1>1. NoList \in [Jobs -> Entry]
  BY DEF NoList, Entry
<1> QED
  BY <1>1 DEF Idle, SchedulerState, Fits

\* Nor is one that stops.
LEMMA RestFacts ==
  ASSUME NEW s \in Schedulers, NEW at \in {"stopped", "idle"}
  PROVE  LET x == [Idle EXCEPT !.at = at] IN x \in SchedulerState /\ x.at = at /\ Fits(s, x)
BY IdleFacts DEF SchedulerState, Fits

\* Nor is one that has just listed the jobs.
LEMMA ListFacts ==
  ASSUME NEW s \in Schedulers, NEW at \in {"listed", "reconcile"}, at = "reconcile" => s \in Forever,
         NEW list \in [Jobs -> Entry], NEW todo, todo \subseteq {j \in Jobs : list[j].status = "active"},
         NEW x, x = [Idle EXCEPT !.at = at, !.list = list, !.todo = todo]
  PROVE  x \in SchedulerState /\ x.at = at /\ Fits(s, x)
BY IdleFacts DEF SchedulerState, Fits

\* A scheduler that moves on within the slot, at a slot that is fired now.
LEMMA SchedulerMoves ==
  ASSUME IInv, NEW s \in Schedulers, NEW x \in SchedulerState, sched' = [sched EXCEPT ![s] = x],
         Fits(s, x), ~overran /\ x.at = "fired" => x.fired = clock,
         UNCHANGED <<clock, overran>>
  PROVE  sched' \in [Schedulers -> SchedulerState] /\ SchedulersFit' /\ FiresAreCurrent'
<1>1. sched'[s] = x /\ \A r \in Schedulers : r # s => sched'[r] = sched[r]
  BY DEF IInv, Shapes
<1>2. sched' \in [Schedulers -> SchedulerState]
  BY DEF IInv, Shapes
<1>3. SchedulersFit'
  BY <1>1 DEF IInv, SchedulersFit, Fits
<1>4. FiresAreCurrent'
  BY <1>1 DEF IInv, FiresAreCurrent
<1> QED
  BY <1>2, <1>3, <1>4

\* When it changes nothing else, that is all there is to show.
LEMMA OnlySchedulerMoves ==
  ASSUME IInv, NEW s \in Schedulers, NEW x \in SchedulerState, sched' = [sched EXCEPT ![s] = x],
         Fits(s, x), x.at # "fired",
         UNCHANGED <<disk, runs, clock, cmd, log, overran>>
  PROVE  IInv'
<1>1. sched' \in [Schedulers -> SchedulerState] /\ SchedulersFit' /\ FiresAreCurrent'
  BY SchedulerMoves
<1> QED
  BY <1>1 DEF IInv, Shapes, CopiesFit, RemovedHaveNoRuns, LogIsPast, CopiesAreCurrent, NextIsAhead, SlotsDiffer

\* After a job: the rest of the list.
LEMMA SkipFacts ==
  ASSUME IInv, NEW s \in Schedulers, NEW j \in Jobs, Skip(s, j)
  PROVE  \E x \in SchedulerState :
            sched' = [sched EXCEPT ![s] = x] /\ Fits(s, x) /\ x.at = "listed"
<1> DEFINE x == [at |-> "listed", todo |-> sched[s].todo \ {j},
                 list |-> [sched[s].list EXCEPT ![j] = Absent], job |-> "none", fired |-> 0]
<1>0. sched \in [Schedulers -> SchedulerState]
  BY DEF IInv, Shapes
<1>1. sched[s] \in SchedulerState /\ sched'[s] = x
  BY ZenonT(60), ZenonT(60), <1>0 DEF Skip, SchedulerState
<1>2. x \in SchedulerState /\ Fits(s, x)
  BY <1>1 DEF SchedulerState, Entry, Fits
<1>3. sched' = [sched EXCEPT ![s] = sched'[s]]
  BY ZenonT(60), ZenonT(60), <1>0 DEF Skip
<1> QED
  BY <1>1, <1>2, <1>3

-----------------------------------------------------------------------------
(* Every action keeps the invariant: the commands.                         *)

\* A new job has no runs and no fires.
LEMMA AddKeeps ==
  ASSUME IInv, NEW j \in Jobs, Add(j)
  PROVE  IInv'
<1>1. PICK job \in Job : Write(j, job) /\ job.status = "active"
  <2>1. PICK next \in {clock, NextSlot(clock)}, recurs \in BOOLEAN :
           Write(j, [status |-> "active", recurs |-> recurs, next |-> next, fires |-> 0])
    BY DEF Add
  <2>2. next \in 0..(MaxTime + 1)
    BY DEF NextSlot, IInv, Shapes
  <2>3. [status |-> "active", recurs |-> recurs, next |-> next, fires |-> 0] \in Job
    BY <2>2 DEF Job
  <2> QED
    BY <2>1, <2>3
<1>2. disk' \in [Jobs -> Entry] /\ RemovedHaveNoRuns' /\ LogIsPast' /\ NextIsAhead' /\ SlotsDiffer'
  BY <1>1, JobIsWritten, NoJobs DEF Add
<1> QED
  BY <1>2 DEF Add, IInv, Shapes, SchedulersFit, CopiesFit, FiresAreCurrent, CopiesAreCurrent

\* A resume moves the slot of its copy past the present one.
LEMMA GetKeeps ==
  ASSUME IInv, NEW c \in Commands, NEW j \in Jobs, Get(c, j)
  PROVE  IInv'
<1>1. disk[j] \in Job /\ clock \in 1..MaxTime
  BY EntryFacts DEF IInv, Shapes, Get, Exists
<1>2. PICK x \in CommandState :
         /\ cmd' = [cmd EXCEPT ![c] = x] /\ x.job = j /\ x.copy \in Job
         /\ x.copy.status = "active" => x.kind = "resume" /\ x.copy.next = clock + 1
  <2>1. CASE /\ "pause" \in Kinds
             /\ cmd' = [cmd EXCEPT ![c] = [at |-> "got", kind |-> "pause", job |-> j,
                            copy |-> [disk[j] EXCEPT !.status = "paused"]]]
    <3> DEFINE y == [disk[j] EXCEPT !.status = "paused"]
               x == [at |-> "got", kind |-> "pause", job |-> j, copy |-> y]
    <3>1. y \in Job /\ y.status = "paused"
      BY <1>1, JobFacts
    <3> HIDE DEF y
    <3>2. x \in CommandState
      BY <2>1, <3>1 DEF CommandState
    <3> QED
      BY <2>1, <3>1, <3>2 DEF y
  <2>2. CASE /\ "resume" \in Kinds
             /\ cmd' = [cmd EXCEPT ![c] = [at |-> "got", kind |-> "resume", job |-> j,
                            copy |-> [disk[j] EXCEPT !.status = "active", !.next = NextSlot(clock)]]]
    <3> DEFINE y == [disk[j] EXCEPT !.status = "active", !.next = NextSlot(clock)]
               x == [at |-> "got", kind |-> "resume", job |-> j, copy |-> y]
    <3>1. NextSlot(clock) = clock + 1 /\ NextSlot(clock) \in 0..(MaxTime + 1)
      BY <1>1 DEF NextSlot
    <3>2. y \in Job /\ y.next = NextSlot(clock)
      BY <1>1, <3>1 DEF Job
    <3> HIDE DEF y
    <3>3. x \in CommandState
      BY <2>2, <3>2 DEF CommandState
    <3> QED
      BY <2>2, <3>1, <3>2, <3>3 DEF y
  <2> QED
    BY <2>1, <2>2 DEF Get
<1>3. cmd'[c] = x /\ \A d \in Commands : d # c => cmd'[d] = cmd[d]
  BY <1>2 DEF IInv, Shapes
<1>4. cmd' \in [Commands -> CommandState]
  BY <1>2 DEF IInv, Shapes
<1>5. CopiesFit' /\ CopiesAreCurrent'
  BY <1>2, <1>3 DEF Get, IInv, CopiesFit, CopiesAreCurrent
<1> QED
  BY SMTT(60), SMTT(60), <1>4, <1>5 DEF Get, IInv, Shapes, SchedulersFit, RemovedHaveNoRuns, LogIsPast, FiresAreCurrent, NextIsAhead, SlotsDiffer

\* A command that is done holds nothing.
LEMMA CommandEnds ==
  ASSUME IInv, NEW c \in Commands, cmd' = [cmd EXCEPT ![c].at = "done"], UNCHANGED <<clock, overran>>
  PROVE  cmd' \in [Commands -> CommandState] /\ CopiesFit' /\ CopiesAreCurrent'
<1>1. cmd[c] \in CommandState /\ [cmd[c] EXCEPT !.at = "done"] \in CommandState
  BY ZenonT(60), ZenonT(60) DEF IInv, Shapes, CommandState
<1>2. cmd' \in [Commands -> CommandState] /\ \A d \in Commands : d # c => cmd'[d] = cmd[d]
  BY <1>1 DEF IInv, Shapes
<1>3. cmd'[c].at = "done"
  BY <1>1 DEF IInv, Shapes, CommandState
<1> QED
  BY <1>2, <1>3 DEF IInv, CopiesFit, CopiesAreCurrent

\* A command writes its copy, a pause or a slot that is ahead.
LEMMA UpdateKeeps ==
  ASSUME IInv, NEW c \in Commands, Update(c)
  PROVE  IInv'
<1>1. cmd' \in [Commands -> CommandState] /\ CopiesFit' /\ CopiesAreCurrent'
  BY CommandEnds DEF Update
<1>2. disk' \in [Jobs -> Entry] /\ RemovedHaveNoRuns' /\ LogIsPast' /\ NextIsAhead' /\ SlotsDiffer'
  <2>1. CASE Exists(cmd[c].job)
    BY <2>1, JobIsWritten, NoJobs DEF Update, IInv, CopiesFit, CopiesAreCurrent, Exists
  <2>2. CASE ~Exists(cmd[c].job)
    BY <2>2 DEF Update, IInv, Shapes, RemovedHaveNoRuns, LogIsPast, NextIsAhead, SlotsDiffer
  <2> QED
    BY <2>1, <2>2
<1> QED
  BY <1>1, <1>2 DEF Update, IInv, Shapes, SchedulersFit, FiresAreCurrent

\* The run records go with the job.
LEMMA RemoveKeeps ==
  ASSUME IInv, NEW c \in Commands, NEW j \in Jobs, Remove(c, j)
  PROVE  IInv'
<1>1. cmd' \in [Commands -> CommandState] /\ CopiesFit' /\ CopiesAreCurrent'
  BY CommandEnds DEF Remove
<1>2. disk'[j] = Removed /\ \A k \in Jobs : k # j => disk'[k] = disk[k]
  BY DEF Remove, Write, IInv, Shapes
<1>3. disk' \in [Jobs -> Entry] /\ runs' \in [Jobs -> Nat] /\ runs'[j] = 0 /\ \A k \in Jobs : k # j => runs'[k] = runs[k]
  BY NoJobs DEF Remove, Write, IInv, Shapes
<1>4. Removed # Absent /\ Removed.status # "active"
  BY NoJobs
<1>5. RemovedHaveNoRuns' /\ LogIsPast' /\ NextIsAhead' /\ SlotsDiffer'
  BY <1>2, <1>3, <1>4 DEF Remove, IInv, RemovedHaveNoRuns, LogIsPast, NextIsAhead, SlotsDiffer
<1> QED
  BY <1>1, <1>3, <1>5 DEF Remove, IInv, Shapes, SchedulersFit, FiresAreCurrent

-----------------------------------------------------------------------------
(* ... and the schedulers.                                                 *)

\* A scheduler that starts has fired nothing.
LEMMA StartKeeps ==
  ASSUME IInv, NEW s \in Schedulers, Start(s)
  PROVE  IInv'
<1>1. \E x \in SchedulerState : sched' = [sched EXCEPT ![s] = x] /\ Fits(s, x) /\ x.at # "fired"
  <2>1. CASE sched' = [sched EXCEPT ![s] = Idle]
    BY <2>1, IdleFacts
  <2>2. CASE s \in Forever /\ sched' = [sched EXCEPT ![s] =
               [Idle EXCEPT !.at = "reconcile", !.list = disk,
                            !.todo = {j \in Jobs : disk[j].status = "active" /\ disk[j].next < clock}]]
    <3> DEFINE todo == {j \in Jobs : disk[j].status = "active" /\ disk[j].next < clock}
               x == [Idle EXCEPT !.at = "reconcile", !.list = disk, !.todo = todo]
    <3>1. disk \in [Jobs -> Entry] /\ todo \subseteq {j \in Jobs : disk[j].status = "active"}
      BY DEF IInv, Shapes
    <3>2. x \in SchedulerState /\ x.at = "reconcile" /\ Fits(s, x)
      BY <2>2, <3>1, ListFacts
    <3> QED
      BY <2>2, <3>2
  <2> QED
    BY <2>1, <2>2 DEF Start
<1> QED
  BY <1>1, OnlySchedulerMoves DEF Start

\* The reconcile ends with nothing left to do.
LEMMA EndReconcileKeeps ==
  ASSUME IInv, NEW s \in Schedulers, EndReconcile(s)
  PROVE  IInv'
BY IdleFacts, OnlySchedulerMoves DEF EndReconcile

\* What is listed is what is stored.
LEMMA ListKeeps ==
  ASSUME IInv, NEW s \in Schedulers, List(s)
  PROVE  IInv'
<1> DEFINE todo == {j \in Jobs : disk[j].status = "active"}
           x == [Idle EXCEPT !.at = "listed", !.list = disk, !.todo = todo]
<1>1. disk \in [Jobs -> Entry] /\ todo \subseteq {j \in Jobs : disk[j].status = "active"}
  BY DEF IInv, Shapes
<1>2. x \in SchedulerState /\ x.at = "listed" /\ Fits(s, x)
  BY <1>1, ListFacts
<1> QED
  BY <1>2, OnlySchedulerMoves DEF List

\* A job that is not due is passed over.
LEMMA NotDueKeeps ==
  ASSUME IInv, NEW s \in Schedulers, NEW j \in Jobs, NotDue(s, j)
  PROVE  IInv'
BY SkipFacts, OnlySchedulerMoves DEF NotDue

\* A pass ends with nothing left to do.
LEMMA EndPassKeeps ==
  ASSUME IInv, NEW s \in Schedulers, EndPass(s)
  PROVE  IInv'
BY RestFacts, OnlySchedulerMoves DEF EndPass

\* A crash takes the memory of the scheduler and leaves the files.
LEMMA CrashKeeps ==
  ASSUME IInv, NEW s \in Schedulers, Crash(s)
  PROVE  IInv'
BY RestFacts, OnlySchedulerMoves DEF Crash

\* Reconcile moves an overdue slot past the present one.
LEMMA ReconcileKeeps ==
  ASSUME IInv, NEW s \in Schedulers, NEW j \in Jobs, Reconcile(s, j)
  PROVE  IInv'
<1> DEFINE x == [sched[s] EXCEPT !.todo = @ \ {j}]
           late == [sched[s].list[j] EXCEPT !.next = NextSlot(clock)]
<1>1. sched[s] \in SchedulerState /\ Fits(s, sched[s]) /\ sched[s].at = "reconcile" /\ j \in sched[s].todo
  BY DEF Reconcile, IInv, Shapes, SchedulersFit
<1>2. x \in SchedulerState /\ Fits(s, x) /\ x.at = "reconcile"
  BY <1>1 DEF SchedulerState, Fits
<1>3. sched' = [sched EXCEPT ![s] = x]
  BY DEF Reconcile, IInv, Shapes
<1>4. sched' \in [Schedulers -> SchedulerState] /\ SchedulersFit' /\ FiresAreCurrent'
  BY <1>2, <1>3, SchedulerMoves DEF Reconcile
<1>5. late \in Job /\ late.next = clock + 1
  <2>1. sched[s].list[j] \in Job
    BY ZenonT(60), ZenonT(60), <1>1, EntryFacts, StateFacts DEF Fits
  <2>2. NextSlot(clock) = clock + 1 /\ NextSlot(clock) \in 0..(MaxTime + 1)
    BY DEF NextSlot, IInv, Shapes
  <2> QED
    BY ZenonT(60), ZenonT(60), <2>1, <2>2, JobFacts
<1>6. disk' \in [Jobs -> Entry] /\ RemovedHaveNoRuns' /\ LogIsPast' /\ NextIsAhead' /\ SlotsDiffer'
  <2>1. CASE Exists(j) /\ Write(j, late)
    BY <1>5, <2>1, JobIsWritten, NoJobs DEF Reconcile, Exists
  <2>2. CASE UNCHANGED disk
    BY SMTT(60), SMTT(60), <2>2 DEF Reconcile, IInv, Shapes, RemovedHaveNoRuns, LogIsPast, NextIsAhead, SlotsDiffer
  <2> QED
    BY <2>1, <2>2 DEF Reconcile
<1> QED
  BY <1>4, <1>6 DEF Reconcile, IInv, Shapes, CopiesFit, CopiesAreCurrent

\* The slot that is claimed under the lock is one no fire is logged for: it is now, and
\* the job waits for the next one.
LEMMA ClaimKeeps ==
  ASSUME IInv, NEW s \in Schedulers, NEW j \in Jobs, Claim(s, j)
  PROVE  IInv'
<1>1. CASE disk[j].status # "active" \/ disk[j].next > clock
  BY <1>1, SkipFacts, OnlySchedulerMoves DEF Claim
<1>2. CASE disk[j].status = "active" /\ ~(disk[j].next > clock)
  <2> DEFINE x == [sched[s] EXCEPT !.at = "fired", !.job = j, !.fired = clock]
             job == IF disk[j].recurs THEN [disk[j] EXCEPT !.next = NextSlot(clock)]
                                      ELSE [disk[j] EXCEPT !.status = "paused"]
  <2>1. disk[j] \in Job /\ disk[j].next \in 0..MaxTime /\ disk[j].next <= clock /\ clock \in 1..MaxTime
    BY <1>2, EntryFacts DEF IInv, Shapes
  <2>2. job \in Job /\ (job.status = "active" => job.next = clock + 1)
    BY <2>1, JobFacts DEF NextSlot
  <2>3. disk' = [disk EXCEPT ![j] = job] /\ log' = [log EXCEPT ![j] = Append(@, disk[j].next)]
    BY <1>2 DEF Claim, Write
  <2>4. sched' = [sched EXCEPT ![s] = x]
    BY <1>2 DEF Claim, IInv, Shapes
  <2>5. x \in SchedulerState /\ Fits(s, x) /\ x.fired = clock
    <3>1. sched[s] \in SchedulerState /\ clock \in 0..MaxTime
      BY <2>1 DEF IInv, Shapes
    <3>2. x.at = "fired" /\ x.job = j /\ x.fired = clock
      BY <3>1 DEF SchedulerState
    <3> QED
      BY <3>1, <3>2, StateFacts DEF Fits
  <2>6. sched' \in [Schedulers -> SchedulerState] /\ SchedulersFit' /\ FiresAreCurrent'
    BY <2>4, <2>5, SchedulerMoves DEF Claim
  <2> HIDE DEF job
  <2>7. /\ disk' \in [Jobs -> Entry] /\ disk'[j] # Absent /\ disk'[j] # Removed
        /\ disk'[j].status = "active" => disk'[j].next = clock + 1
        /\ \A k \in Jobs : k # j => disk'[k] = disk[k] /\ log'[k] = log[k]
    BY ZenonT(60), ZenonT(60), <2>2, <2>3, JobFacts DEF IInv, Shapes
  <2>8. /\ log' \in [Jobs -> Seq(0..MaxTime)] /\ Len(log'[j]) = Len(log[j]) + 1
        /\ Len(log[j]) \in Nat
        /\ log'[j][Len(log[j]) + 1] = disk[j].next
        /\ \A n \in 1..Len(log[j]) : log'[j][n] = log[j][n] /\ log[j][n] \in 0..MaxTime
    <3>1. log[j] \in Seq(0..MaxTime) /\ Append(log[j], disk[j].next) \in Seq(0..MaxTime)
      BY <2>1 DEF IInv, Shapes
    <3>2. log'[j] = Append(log[j], disk[j].next)
      BY <2>3 DEF IInv, Shapes
    <3> QED
      BY <2>3, <3>1, <3>2 DEF IInv, Shapes
  <2>9. RemovedHaveNoRuns'
    BY <2>7 DEF Claim, IInv, RemovedHaveNoRuns
  <2>10. LogIsPast'
    <3>1. ASSUME NEW n \in 1..Len(log'[j])
          PROVE  log'[j][n] <= clock
      <4>1. n \in 1..Len(log[j]) \/ n = Len(log[j]) + 1
        BY <2>8
      <4>2. CASE n \in 1..Len(log[j])
        BY <2>8, <4>2 DEF IInv, LogIsPast
      <4>3. CASE n = Len(log[j]) + 1
        BY <2>1, <2>8, <4>3
      <4> QED
        BY <4>1, <4>2, <4>3
    <3> QED
      BY <2>7, <3>1 DEF Claim, IInv, LogIsPast
  <2>11. NextIsAhead'
    <3>1. \A n \in 1..Len(log'[j]) : log'[j][n] <= clock /\ log'[j][n] \in 0..MaxTime
      <4> SUFFICES ASSUME NEW n \in 1..Len(log'[j])
                   PROVE  log'[j][n] <= clock /\ log'[j][n] \in 0..MaxTime
        OBVIOUS
      <4>1. n \in 1..Len(log[j]) \/ n = Len(log[j]) + 1
        BY <2>8
      <4>2. CASE n \in 1..Len(log[j])
        BY <2>8, <4>2 DEF IInv, LogIsPast
      <4>3. CASE n = Len(log[j]) + 1
        BY <2>1, <2>8, <4>3 DEF IInv, Shapes
      <4> QED
        BY <4>1, <4>2, <4>3
    <3>2. disk'[j].status = "active" => \A n \in 1..Len(log'[j]) : log'[j][n] < disk'[j].next
      BY <2>1, <2>7, <3>1
    <3> QED
      BY <2>7, <3>2 DEF Claim, IInv, NextIsAhead
  <2>12. SlotsDiffer'
    <3>1. ~overran => \A n \in 1..Len(log[j]) : log[j][n] < disk[j].next
      BY <1>2 DEF IInv, NextIsAhead
    <3>2. ~overran => \A m, n \in 1..Len(log'[j]) : m # n => log'[j][m] # log'[j][n]
      <4> SUFFICES ASSUME ~overran, NEW m \in 1..Len(log'[j]), NEW n \in 1..Len(log'[j]), m < n
                   PROVE  log'[j][m] # log'[j][n]
        BY <2>8
      <4>1. m \in 1..Len(log[j]) /\ (n \in 1..Len(log[j]) \/ n = Len(log[j]) + 1)
        BY SMTT(60), SMTT(60), <2>8
      <4>2. CASE n \in 1..Len(log[j])
        BY <2>8, <4>1, <4>2 DEF IInv, SlotsDiffer
      <4>3. CASE n = Len(log[j]) + 1
        BY <2>1, <2>8, <3>1, <4>1, <4>3
      <4> QED
        BY <4>1, <4>2, <4>3
    <3> QED
      BY <2>7, <3>2 DEF Claim, IInv, SlotsDiffer
  <2> QED
    BY <2>6, <2>7, <2>8, <2>9, <2>10, <2>11, <2>12 DEF Claim, IInv, Shapes, CopiesFit, CopiesAreCurrent
<1> QED
  BY <1>1, <1>2

\* The result of a run is written into the job as it is now.
LEMMA PersistKeeps ==
  ASSUME IInv, NEW s \in Schedulers, Persist(s)
  PROVE  IInv'
<1> DEFINE j == sched[s].job
           x == [sched[s] EXCEPT !.at = "record"]
<1>1. sched[s] \in SchedulerState /\ Fits(s, sched[s]) /\ sched[s].at = "fired" /\ j \in Jobs
  BY DEF Persist, IInv, Shapes, SchedulersFit, Fits
<1>2. CASE ~Exists(j)
  BY <1>1, <1>2, SkipFacts, OnlySchedulerMoves DEF Persist
<1>3. CASE Exists(j)
  <2>1. x \in SchedulerState /\ Fits(s, x) /\ x.at = "record"
    BY <1>1 DEF SchedulerState, Fits
  <2>2. sched' = [sched EXCEPT ![s] = x]
    BY <1>3 DEF Persist, Goto, IInv, Shapes
  <2>3. sched' \in [Schedulers -> SchedulerState] /\ SchedulersFit' /\ FiresAreCurrent'
    BY <2>1, <2>2, SchedulerMoves DEF Persist
  <2>4. disk[j] \in Job /\ sched[s].list[j] \in Entry
    BY ZenonT(60), ZenonT(60), <1>1, <1>3, EntryFacts, StateFacts DEF Exists, IInv, Shapes
  <2>5. /\ Advanced(s, j) \in Job
        /\ ~overran /\ Advanced(s, j).status = "active" => Advanced(s, j).next = clock + 1
    <3>1. sched[s].list[j].fires \in Nat /\ sched[s].list[j].next \in 0..(MaxTime + 1) /\ sched[s].fired \in 0..MaxTime
      BY <1>1, <2>4, EntryFacts, StateFacts
    <3>2. ~overran => sched[s].fired = clock
      BY <1>1 DEF IInv, FiresAreCurrent
    <3>3. NextSlot(sched[s].fired) = sched[s].fired + 1 /\ NextSlot(sched[s].fired) \in 0..(MaxTime + 1)
      BY <3>1 DEF NextSlot
    <3>4. CASE disk[j].recurs
      <4>1. Advanced(s, j) = [disk[j] EXCEPT !.fires = sched[s].list[j].fires + 1, !.next = NextSlot(sched[s].fired)]
        BY <2>4, <3>4 DEF Advanced, Job
      <4>2. sched[s].list[j].fires + 1 \in Nat
        BY <3>1
      <4>3. Advanced(s, j) \in Job
        BY <2>4, <3>3, <4>1, <4>2 DEF Job
      <4>4. Advanced(s, j).next = NextSlot(sched[s].fired)
        BY <2>4, <4>1 DEF Job
      <4> QED
        BY <3>2, <3>3, <4>3, <4>4
    <3>5. CASE ~disk[j].recurs
      <4>1. Advanced(s, j) = [disk[j] EXCEPT !.fires = sched[s].list[j].fires + 1, !.next = sched[s].list[j].next,
                                             !.status = "paused"]
        BY <2>4, <3>5 DEF Advanced, Job
      <4>2. sched[s].list[j].fires + 1 \in Nat
        BY <3>1
      <4>3. Advanced(s, j) \in Job
        BY <2>4, <3>1, <4>1, <4>2 DEF Job
      <4>4. Advanced(s, j).status = "paused"
        BY <2>4, <4>1 DEF Job
      <4> QED
        BY <4>3, <4>4
    <3> QED
      BY <3>4, <3>5
  <2>6. disk' \in [Jobs -> Entry] /\ RemovedHaveNoRuns' /\ LogIsPast' /\ NextIsAhead' /\ SlotsDiffer'
    BY <1>1, <1>3, <2>5, JobIsWritten, NoJobs DEF Persist, Exists
  <2> QED
    BY <2>3, <2>6 DEF Persist, IInv, Shapes, CopiesFit, CopiesAreCurrent
<1> QED
  BY <1>2, <1>3

\* A run record is appended only to a job that is not removed.
LEMMA AppendRunKeeps ==
  ASSUME IInv, NEW s \in Schedulers, AppendRun(s)
  PROVE  IInv'
<1>1. sched[s].job \in Jobs
  BY DEF AppendRun, IInv, SchedulersFit, Fits
<1>2. PICK x \in SchedulerState : sched' = [sched EXCEPT ![s] = x] /\ Fits(s, x) /\ x.at = "listed"
  BY <1>1, SkipFacts DEF AppendRun
<1>3. sched' \in [Schedulers -> SchedulerState] /\ SchedulersFit' /\ FiresAreCurrent'
  BY <1>2, SchedulerMoves DEF AppendRun
<1>4. runs' \in [Jobs -> Nat]
  BY <1>1 DEF AppendRun, IInv, Shapes
<1>5. RemovedHaveNoRuns'
  BY <1>1, NoJobs DEF AppendRun, Exists, IInv, Shapes, RemovedHaveNoRuns
<1> QED
  BY <1>3, <1>4, <1>5 DEF AppendRun, IInv, Shapes, CopiesFit, LogIsPast, CopiesAreCurrent, NextIsAhead, SlotsDiffer

\* Time passes within a slot only when nobody is at a job or holds a copy.
LEMMA TickKeeps ==
  ASSUME IInv, Tick
  PROVE  IInv'
<1>1. clock' = clock + 1 /\ clock' \in 1..MaxTime /\ overran' \in BOOLEAN /\ (~overran' => ~overran /\ AtRest)
  <2>1. clock' = clock + 1 /\ clock' \in 1..MaxTime
    BY DEF Tick, IInv, Shapes
  <2>2. overran' \in BOOLEAN /\ (~overran' => ~overran /\ AtRest)
    BY DEF Tick
  <2> QED
    BY <2>1, <2>2
<1>2. Shapes' /\ SchedulersFit' /\ CopiesFit' /\ RemovedHaveNoRuns'
  BY <1>1 DEF Tick, IInv, Shapes, SchedulersFit, CopiesFit, RemovedHaveNoRuns
<1>3. LogIsPast'
  BY <1>1 DEF Tick, IInv, Shapes, LogIsPast
<1>4. FiresAreCurrent' /\ CopiesAreCurrent'
  BY <1>1 DEF Tick, AtRest, FiresAreCurrent, CopiesAreCurrent
<1>5. NextIsAhead' /\ SlotsDiffer'
  BY <1>1 DEF Tick, IInv, NextIsAhead, SlotsDiffer
<1> QED
  BY <1>2, <1>3, <1>4, <1>5 DEF IInv

-----------------------------------------------------------------------------
(* The theorems.                                                           *)

\* Without jobs the invariant holds.
LEMMA InitIInv == Init => IInv
<1> SUFFICES ASSUME Init PROVE IInv
  OBVIOUS
<1>1. disk \in [Jobs -> Entry] /\ runs \in [Jobs -> Nat] /\ log \in [Jobs -> Seq(0..MaxTime)]
  BY NoJobs DEF Init
<1>2. sched \in [Schedulers -> SchedulerState] /\ \A s \in Schedulers : sched[s].at = "stopped" /\ Fits(s, sched[s])
  BY RestFacts DEF Init
<1>3. cmd \in [Commands -> CommandState] /\ \A c \in Commands : cmd[c].at = "new"
  BY DEF Init, CommandState
<1>4. \A j \in Jobs : disk[j].status = "absent" /\ disk[j] # Removed /\ log[j] = <<>>
  BY NoJobs DEF Init
<1>5. clock \in 1..MaxTime /\ overran \in BOOLEAN
  <2>1. clock = 1 /\ overran = FALSE
    BY DEF Init
  <2>2. 1 \in 1..MaxTime
    OBVIOUS
  <2> QED
    BY <2>1, <2>2
<1>6. SchedulersFit /\ FiresAreCurrent
  BY <1>2 DEF SchedulersFit, FiresAreCurrent
<1>7. CopiesFit /\ CopiesAreCurrent
  BY <1>3 DEF CopiesFit, CopiesAreCurrent
<1>8. RemovedHaveNoRuns /\ LogIsPast /\ NextIsAhead /\ SlotsDiffer
  BY <1>4 DEF RemovedHaveNoRuns, LogIsPast, NextIsAhead, SlotsDiffer
<1> QED
  BY <1>1, <1>2, <1>3, <1>5, <1>6, <1>7, <1>8 DEF IInv, Shapes

\* Every step keeps it.
LEMMA NextKeepsIInv ==
  ASSUME IInv, [Next]_vars
  PROVE  IInv'
<1>1. CASE Next
  BY <1>1, AddKeeps, GetKeeps, UpdateKeeps, RemoveKeeps, StartKeeps, ReconcileKeeps, EndReconcileKeeps, ListKeeps,
     NotDueKeeps, ClaimKeeps, PersistKeeps, AppendRunKeeps, EndPassKeeps, CrashKeeps, TickKeeps
     DEF Next, FireStep
<1>2. CASE UNCHANGED vars
  <2>1. Shapes' /\ SchedulersFit' /\ CopiesFit' /\ RemovedHaveNoRuns' /\ LogIsPast'
    BY <1>2 DEF vars, IInv, Shapes, SchedulersFit, CopiesFit, RemovedHaveNoRuns, LogIsPast
  <2>2. FiresAreCurrent' /\ CopiesAreCurrent' /\ NextIsAhead' /\ SlotsDiffer'
    BY <1>2 DEF vars, IInv, FiresAreCurrent, CopiesAreCurrent, NextIsAhead, SlotsDiffer
  <2> QED
    BY <2>1, <2>2 DEF IInv
<1> QED
  BY <1>1, <1>2

\* The invariant holds in every behaviour.
LEMMA Inductive == Spec => []IInv
<1>1. IInv /\ [Next]_vars => IInv'
  BY NextKeepsIInv
<1> QED
  BY <1>1, InitIInv, PTL DEF Spec

\* As long as fires and commands end within their slot, at most one pass of one
\* scheduler fires a slot: claimFire reads the job again under the lock
\* (cron_run.go).
THEOREM SlotsFireOnce == Spec => []NoSlotFiresTwice
<1>1. IInv => TypeOK
  <2> SUFFICES ASSUME IInv PROVE TypeOK
    OBVIOUS
  <2>1. \A s \in Schedulers :
          /\ sched[s].at \in {"stopped", "idle", "reconcile", "listed", "fired", "record"}
          /\ sched[s].todo \subseteq Jobs /\ sched[s].list \in [Jobs -> Job \cup {Absent, Removed}]
          /\ sched[s].job \in Jobs <=> sched[s].at \in {"fired", "record"}
    BY StateFacts DEF IInv, Shapes, SchedulersFit, Fits, Entry
  <2> QED
    BY <2>1 DEF IInv, Shapes, Entry, CopiesFit, TypeOK
<1>2. IInv => (~overran => \A j \in Jobs : \A m, n \in DOMAIN log[j] : m # n => log[j][m] # log[j][n])
  BY SMTT(60), SMTT(60) DEF IInv, Shapes, SlotsDiffer
<1>3. IInv => NoSlotFiresTwice
  BY <1>1, <1>2 DEF NoSlotFiresTwice
<1> QED
  BY <1>3, Inductive, PTL

\* What RemovedStaysRemoved says of one step ...
RemovalStands == \A j \in Jobs : disk[j] = Removed => disk'[j] = Removed /\ runs'[j] = 0

\* ... and PauseStands of one job.
PauseStandsFor(j) ==
    disk[j].status = "paused" /\ disk'[j].status = "active"
       => \/ \E c \in Commands : cmd[c].kind = "resume" /\ cmd[c].job = j /\ cmd'[c] # cmd[c]
          \/ \E s \in Forever : sched[s].at = "reconcile" /\ j \in sched[s].todo \ sched'[s].todo

\* A job that was removed while it executed stays removed, and AppendRun leaves no
\* run records behind (store.go: Mutate, Update and AppendRun look for the job).
THEOREM RemovalsStand == Spec => RemovedStaysRemoved
<1>1. ASSUME IInv, Next
      PROVE  RemovalStands
  <2> SUFFICES ASSUME NEW j \in Jobs, disk[j] = Removed
               PROVE  disk'[j] = Removed /\ runs'[j] = 0
    BY DEF RemovalStands
  <2>1. runs[j] = 0 /\ ~Exists(j) /\ disk[j] # Absent /\ disk[j].status # "active"
    BY <1>1, NoJobs DEF IInv, RemovedHaveNoRuns, Exists
  <2>2. ASSUME NEW k \in Jobs, Add(k)
        PROVE  disk'[j] = Removed /\ runs'[j] = 0
    BY <1>1, <2>1, <2>2 DEF IInv, Shapes, Add, Write
  <2>3. ASSUME NEW c \in Commands, NEW k \in Jobs, Get(c, k) \/ Remove(c, k)
        PROVE  disk'[j] = Removed /\ runs'[j] = 0
    BY <1>1, <2>1, <2>3 DEF IInv, Shapes, Get, Remove, Write
  <2>4. ASSUME NEW c \in Commands, Update(c)
        PROVE  disk'[j] = Removed /\ runs'[j] = 0
    BY <1>1, <2>1, <2>4 DEF IInv, Shapes, Update, Write
  <2>5. ASSUME NEW s \in Schedulers, NEW k \in Jobs, Reconcile(s, k) \/ NotDue(s, k) \/ Claim(s, k)
        PROVE  disk'[j] = Removed /\ runs'[j] = 0
    BY <1>1, <2>1, <2>5 DEF IInv, Shapes, Reconcile, NotDue, Claim, Write
  <2>6. ASSUME NEW s \in Schedulers, Persist(s) \/ AppendRun(s)
        PROVE  disk'[j] = Removed /\ runs'[j] = 0
    BY <1>1, <2>1, <2>6 DEF IInv, Shapes, Persist, AppendRun, Write
  <2>7. ASSUME NEW s \in Schedulers, Start(s) \/ EndReconcile(s) \/ List(s) \/ EndPass(s) \/ Crash(s)
        PROVE  disk'[j] = Removed /\ runs'[j] = 0
    BY <2>1, <2>7 DEF Start, EndReconcile, List, EndPass, Crash
  <2>8. CASE Tick
    BY <2>1, <2>8 DEF Tick
  <2> QED
    BY <1>1, <2>2, <2>3, <2>4, <2>5, <2>6, <2>7, <2>8 DEF Next, FireStep
<1>2. ASSUME IInv, [Next]_vars
      PROVE  [RemovalStands]_vars
  BY <1>1, <1>2
<1> QED
  BY <1>2, Inductive, PTL DEF Spec, RemovedStaysRemoved, RemovalStands

\* A job that was paused while it executed stays paused: fireJob and claimFire keep
\* the status they find (cron_run.go), only a resume and reconcileOverdue write an
\* active one.
THEOREM PausesStand == Spec => PauseStands
<1>1. ASSUME IInv, Next, NEW j \in Jobs
      PROVE  PauseStandsFor(j)
  <2> SUFFICES ASSUME disk[j].status = "paused", disk'[j].status = "active"
               PROVE  \/ \E c \in Commands : cmd[c].kind = "resume" /\ cmd[c].job = j /\ cmd'[c] # cmd[c]
                      \/ \E s \in Forever : sched[s].at = "reconcile" /\ j \in sched[s].todo \ sched'[s].todo
    BY DEF PauseStandsFor
  <2>1. disk'[j] # disk[j] /\ disk[j] \in Job /\ disk[j] # Absent
    BY <1>1, EntryFacts, NoJobs DEF IInv, Shapes
  <2>2. \A k \in Jobs : \A job : Write(k, job) => k = j /\ job.status = "active"
    BY <1>1, <2>1 DEF Write, IInv, Shapes
  <2>3. CASE \E c \in Commands : Update(c)
    <3> PICK c \in Commands : Update(c)
      BY <2>3
    <3>1. cmd[c].job = j /\ cmd[c].kind = "resume" /\ cmd[c].at = "got"
      BY <1>1, <2>1, <2>2 DEF Update, IInv, CopiesFit
    <3>2. cmd'[c].at = "done"
      BY <1>1 DEF Update, IInv, Shapes, CommandState
    <3> QED
      BY <3>1, <3>2
  <2>4. CASE \E s \in Schedulers, k \in Jobs : Reconcile(s, k)
    <3> PICK s \in Schedulers, k \in Jobs : Reconcile(s, k)
      BY <2>4
    <3>1. k = j /\ s \in Forever /\ sched[s].at = "reconcile" /\ j \in sched[s].todo
      BY <1>1, <2>1, <2>2 DEF Reconcile, IInv, SchedulersFit, Fits
    <3>2. sched'[s].todo = sched[s].todo \ {j}
      BY <1>1, <3>1 DEF Reconcile, IInv, Shapes, SchedulerState
    <3> QED
      BY <3>1, <3>2
  <2>5. ASSUME NEW s \in Schedulers, NEW k \in Jobs, Claim(s, k)
        PROVE  FALSE
    BY <2>1, <2>2, <2>5 DEF Claim
  <2>6. ASSUME NEW s \in Schedulers, Persist(s)
        PROVE  FALSE
    <3>1. sched[s].job = j /\ Advanced(s, j).status = "active"
      BY <1>1, <2>1, <2>2, <2>6 DEF Persist, IInv, SchedulersFit, Fits
    <3> QED
      BY <2>1, <3>1 DEF Advanced, Job
  <2>7. ASSUME NEW k \in Jobs, Add(k) \/ \E c \in Commands : Get(c, k) \/ Remove(c, k)
        PROVE  FALSE
    BY <2>1, <2>2, <2>7, NoJobs DEF Add, Get, Remove
  <2>8. ASSUME NEW s \in Schedulers,
               Start(s) \/ EndReconcile(s) \/ List(s) \/ EndPass(s) \/ Crash(s) \/ AppendRun(s) \/ \E k \in Jobs : NotDue(s, k)
        PROVE  FALSE
    BY <2>1, <2>8 DEF Start, EndReconcile, List, EndPass, Crash, AppendRun, NotDue
  <2>9. CASE Tick
    BY <2>1, <2>9 DEF Tick
  <2> QED
    BY <1>1, <2>3, <2>4, <2>5, <2>6, <2>7, <2>8, <2>9 DEF Next, FireStep
<1>2. ASSUME IInv, [Next]_vars
      PROVE  [\A j \in Jobs : PauseStandsFor(j)]_vars
  BY <1>1, <1>2
<1> QED
  BY <1>2, Inductive, PTL DEF Spec, PauseStands, PauseStandsFor

\* Both: what a command did during an execution is not undone when it ends.
THEOREM CommandsStayDone == Spec => CommandsStand
BY PausesStand, RemovalsStand DEF CommandsStand

=============================================================================
