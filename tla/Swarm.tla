------------------------------- MODULE Swarm -------------------------------
(***************************************************************************)
(* The swarm of internal/swarm: an orchestrator spawns tasks, each run by  *)
(* a member of a team with a bounded number of slots and a FIFO queue of   *)
(* overflow specs (team.go, lifecycle.go); the coordinator records the     *)
(* life of every task and wakes collectors that wait for a team to settle  *)
(* (coordinator.go).                                                       *)
(*                                                                         *)
(* One action is one critical section of a mutex of the code: the lock of  *)
(* the coordinator, the lock of a team, or the id counter.  Between two    *)
(* critical sections of a goroutine every other goroutine may step.  A     *)
(* member is named by its spec id, and phase[m] says how far the goroutine *)
(* that carries the spec (the caller of dispatch, then the member's watch, *)
(* or the watch of the member whose exit freed the slot) has come.         *)
(***************************************************************************)
EXTENDS Naturals, Sequences, FiniteSets

CONSTANTS Teams,              \* the team names in use
          MaxTeamSize,        \* slots of one team (Options.MaxTeamSize)
          MaxMemberRestarts,  \* relaunches of one member (maxMemberRestarts)
          LaunchMayFail,      \* whether a MemberLauncher may refuse a spec
          MaxIds,             \* bound on the ids minted in one behaviour
          Callers,            \* concurrent callers of Handoff and AdoptOrphans
          Waiters             \* concurrent callers of CollectWait

ASSUME SwarmAssumption ==
    /\ Teams # {}
    /\ MaxTeamSize \in Nat \ {0}
    /\ MaxMemberRestarts \in Nat
    /\ LaunchMayFail \in BOOLEAN
    /\ MaxIds \in Nat

VARIABLES
    nextId,     \* idSeq: the last id minted
    status,     \* coordinator: status of each task
    owner,      \* coordinator: AgentID of each task
    taskTeam,   \* coordinator: team of each task
    phase,      \* progress of the goroutine that carries spec m
    specTask,   \* MemberSpec.TaskID
    restarts,   \* Member.restarts
    members,    \* Team.members: ids with a live member
    queue,      \* Team.queue: specs that wait for a slot
    running,    \* Team.running: occupied slots
    call,       \* the Handoff or AdoptOrphans in progress of each caller
    waiter,     \* the WaitSettled in progress of each waiter
    handedFrom, \* auxiliary: the task a handoff replaced by this one, or 0
    closed      \* baseCtx has been cancelled by Close

board == <<status, owner, taskTeam>>
slots == <<members, queue, running>>
vars  == <<nextId, board, phase, specTask, restarts, slots, call, waiter,
           handedFrom, closed>>

Ids      == 1..MaxIds
Terminal == {"done", "failed", "handed-off"}
Status   == {"unknown", "pending", "running"} \cup Terminal

(***************************************************************************)
(* dispatching: registered, admit not yet called.  launching: the slot is  *)
(* reserved, Launch and addMember are still to come.  joined: in           *)
(* t.members, the task not yet marked running.  running: watch awaits the  *)
(* member.  recorded: the outcome is in the coordinator.  leaving: out of  *)
(* t.members, the slot not yet given back.                                 *)
(***************************************************************************)
HoldsSlot == {"launching", "joined", "running", "recorded", "leaving"}
Phase     == {"none", "registered", "dispatching", "queued", "gone"} \cup HoldsSlot

Idle  == [op |-> "idle"]
Call  == {Idle}
         \cup [op : {"handoff"}, task : Ids, team : Teams]
         \cup [op : {"retire"}, task : Ids, new : Ids]
         \cup [op : {"list"}, team : Teams, live : SUBSET Ids]
         \cup [op : {"adopt"}, team : Teams, live : SUBSET Ids,
               todo : SUBSET Ids, cur : 0..MaxIds]
Waiter == [pc : {"idle", "scan", "blocked"}, team : Teams]

\* Type invariant of the coordinator's tasks, the teams' counters and queues,
\* the phases of the specs and the calls in progress.
TypeOK ==
    /\ nextId \in 0..MaxIds
    /\ status \in [Ids -> Status]
    /\ owner \in [Ids -> 0..MaxIds]
    /\ taskTeam \in [Ids -> Teams]
    /\ phase \in [Ids -> Phase]
    /\ specTask \in [Ids -> 0..MaxIds]
    /\ restarts \in [Ids -> 0..MaxMemberRestarts]
    /\ members \in [Teams -> SUBSET Ids]
    /\ queue \in [Teams -> Seq(Ids)]
    /\ running \in [Teams -> 0..MaxTeamSize]
    /\ call \in [Callers -> Call]
    /\ waiter \in [Waiters -> Waiter]
    /\ handedFrom \in [Ids -> 0..MaxIds]
    /\ closed \in BOOLEAN

Init ==
    /\ nextId = 0
    /\ status = [i \in Ids |-> "unknown"]
    /\ owner = [i \in Ids |-> 0]
    /\ taskTeam = [i \in Ids |-> CHOOSE t \in Teams : TRUE]
    /\ phase = [i \in Ids |-> "none"]
    /\ specTask = [i \in Ids |-> 0]
    /\ restarts = [i \in Ids |-> 0]
    /\ members = [t \in Teams |-> {}]
    /\ queue = [t \in Teams |-> <<>>]
    /\ running = [t \in Teams |-> 0]
    /\ call = [c \in Callers |-> Idle]
    /\ waiter = [w \in Waiters |-> [pc |-> "idle", team |-> CHOOSE t \in Teams : TRUE]]
    /\ handedFrom = [i \in Ids |-> 0]
    /\ closed = FALSE

Team(m) == taskTeam[specTask[m]]
Open(k) == status[k] \notin Terminal \cup {"unknown"}

-----------------------------------------------------------------------------
(* The coordinator.  The operators below are its critical sections; each   *)
(* sets the primed value of status and waiter.                             *)

\* notifyChangeLocked: closing the channel wakes every blocked WaitSettled.
NotifyChange ==
    waiter' = [w \in Waiters |-> IF waiter[w].pc = "blocked"
                                 THEN [waiter[w] EXCEPT !.pc = "scan"]
                                 ELSE waiter[w]]

Register(n, t) ==
    /\ status' = [status EXCEPT ![n] = "pending"]
    /\ owner' = [owner EXCEPT ![n] = n]
    /\ taskTeam' = [taskTeam EXCEPT ![n] = t]
    /\ NotifyChange

SetStatusUnguarded(k, s) ==
    /\ status' = [status EXCEPT ![k] = s]
    /\ NotifyChange

\* A transition out of a terminal state is rejected; the callers in
\* lifecycle.go drop the error.
SetStatus(k, s) ==
    IF status[k] \in Terminal /\ status[k] # s
    THEN UNCHANGED <<status, waiter>>
    ELSE /\ status' = [status EXCEPT ![k] = s]
         /\ NotifyChange

FinishUnnoticed(k, s) ==
    /\ status' = IF status[k] \in Terminal THEN status ELSE [status EXCEPT ![k] = s]
    /\ UNCHANGED waiter

Finish(k, s) ==
    IF status[k] \in Terminal
    THEN UNCHANGED <<status, waiter>>
    ELSE /\ status' = [status EXCEPT ![k] = s]
         /\ NotifyChange

-----------------------------------------------------------------------------
(* The life of one spec: dispatch, launch, watch, afterExit.               *)

\* Spawn up to its dispatch: nextID, Register, buildSpec.
Spawn(t) ==
    /\ nextId < MaxIds
    /\ LET n == nextId + 1 IN
       /\ nextId' = n
       /\ Register(n, t)
       /\ specTask' = [specTask EXCEPT ![n] = n]
       /\ phase' = [phase EXCEPT ![n] = "dispatching"]
    /\ UNCHANGED <<restarts, slots, call, handedFrom, closed>>

AdmitOneTooMany(m) ==
    /\ phase[m] = "dispatching"
    /\ LET t == Team(m) IN
       \/ /\ running[t] <= MaxTeamSize
          /\ running' = [running EXCEPT ![t] = @ + 1]
          /\ phase' = [phase EXCEPT ![m] = "launching"]
          /\ UNCHANGED queue
       \/ /\ running[t] > MaxTeamSize
          /\ queue' = [queue EXCEPT ![t] = Append(@, m)]
          /\ phase' = [phase EXCEPT ![m] = "queued"]
          /\ UNCHANGED running
    /\ UNCHANGED <<nextId, board, specTask, restarts, members, call, waiter,
                   handedFrom, closed>>

\* admit: reserve a slot, or queue the spec.
Admit(m) ==
    /\ phase[m] = "dispatching"
    /\ LET t == Team(m) IN
       \/ /\ running[t] < MaxTeamSize
          /\ running' = [running EXCEPT ![t] = @ + 1]
          /\ phase' = [phase EXCEPT ![m] = "launching"]
          /\ UNCHANGED queue
       \/ /\ running[t] >= MaxTeamSize
          /\ queue' = [queue EXCEPT ![t] = Append(@, m)]
          /\ phase' = [phase EXCEPT ![m] = "queued"]
          /\ UNCHANGED running
    /\ UNCHANGED <<nextId, board, specTask, restarts, members, call, waiter,
                   handedFrom, closed>>

\* launch: Launch succeeds and addMember lists the member.
Launch(m) ==
    /\ phase[m] = "launching"
    /\ members' = [members EXCEPT ![Team(m)] = @ \cup {m}]
    /\ phase' = [phase EXCEPT ![m] = "joined"]
    /\ UNCHANGED <<nextId, board, specTask, restarts, queue, running, call,
                   waiter, handedFrom, closed>>

LaunchFailsKeepsSlot(m) ==
    /\ LaunchMayFail
    /\ phase[m] = "launching"
    /\ Finish(specTask[m], "failed")
    /\ phase' = [phase EXCEPT ![m] = "gone"]
    /\ UNCHANGED <<nextId, owner, taskTeam, specTask, restarts, slots, call,
                   handedFrom, closed>>

\* launch: a synchronous failure fails the task; afterExit follows.  The
\* MemberLauncher interface allows it; FuncLauncher with a Run func never does.
LaunchFails(m) ==
    /\ LaunchMayFail
    /\ phase[m] = "launching"
    /\ Finish(specTask[m], "failed")
    /\ phase' = [phase EXCEPT ![m] = "leaving"]
    /\ UNCHANGED <<nextId, owner, taskTeam, specTask, restarts, slots, call,
                   handedFrom, closed>>

\* launch: SetStatus(running), then the watch goroutine starts.
MarkRunning(m) ==
    /\ phase[m] = "joined"
    /\ SetStatus(specTask[m], "running")
    /\ phase' = [phase EXCEPT ![m] = "running"]
    /\ UNCHANGED <<nextId, owner, taskTeam, specTask, restarts, slots, call,
                   handedFrom, closed>>

\* watch: a temporary failure is relaunched with the same spec, in the same
\* slot, at most MaxMemberRestarts times.
WatchRelaunch(m) ==
    /\ phase[m] = "running"
    /\ restarts[m] < MaxMemberRestarts
    /\ restarts' = [restarts EXCEPT ![m] = @ + 1]
    /\ UNCHANGED <<nextId, board, phase, specTask, slots, call, waiter,
                   handedFrom, closed>>

\* watch: the member exited and its outcome is final.  "failed" stands for a
\* permanent error, a temporary one past the cap, and a relaunch that failed.
WatchRecord(m, outcome) ==
    /\ phase[m] = "running"
    /\ Finish(specTask[m], outcome)
    /\ phase' = [phase EXCEPT ![m] = "recorded"]
    /\ UNCHANGED <<nextId, owner, taskTeam, specTask, restarts, slots, call,
                   handedFrom, closed>>

RemoveMember(m) ==
    /\ phase[m] = "recorded"
    /\ members' = [members EXCEPT ![Team(m)] = @ \ {m}]
    /\ phase' = [phase EXCEPT ![m] = "leaving"]
    /\ UNCHANGED <<nextId, board, specTask, restarts, queue, running, call,
                   waiter, handedFrom, closed>>

OnExitWithoutDrain(m) ==
    /\ phase[m] = "leaving"
    /\ running' = [running EXCEPT ![Team(m)] = IF @ > 0 THEN @ - 1 ELSE @]
    /\ phase' = [phase EXCEPT ![m] = "gone"]
    /\ UNCHANGED <<nextId, board, specTask, restarts, members, queue, call,
                   waiter, handedFrom, closed>>

OnExitKeepsHead(m) ==
    /\ phase[m] = "leaving"
    /\ LET t == Team(m) IN
       \/ /\ queue[t] # <<>>
          /\ phase' = [phase EXCEPT ![m] = "gone", ![Head(queue[t])] = "launching"]
          /\ UNCHANGED running
       \/ /\ queue[t] = <<>>
          /\ running' = [running EXCEPT ![t] = @ - 1]
          /\ phase' = [phase EXCEPT ![m] = "gone"]
    /\ UNCHANGED <<nextId, board, specTask, restarts, members, queue, call,
                   waiter, handedFrom, closed>>

\* onExit: give the slot back and, if a spec waits and there is room, reserve
\* it again for the head of the queue; afterExit goes on to launch that spec.
OnExit(m) ==
    /\ phase[m] = "leaving"
    /\ LET t    == Team(m)
           left == IF running[t] > 0 THEN running[t] - 1 ELSE running[t]
       IN  \/ /\ queue[t] # <<>> /\ left < MaxTeamSize
              /\ queue' = [queue EXCEPT ![t] = Tail(@)]
              /\ running' = [running EXCEPT ![t] = left + 1]
              /\ phase' = [phase EXCEPT ![m] = "gone", ![Head(queue[t])] = "launching"]
           \/ /\ queue[t] = <<>> \/ left >= MaxTeamSize
              /\ running' = [running EXCEPT ![t] = left]
              /\ phase' = [phase EXCEPT ![m] = "gone"]
              /\ UNCHANGED queue
    /\ UNCHANGED <<nextId, board, specTask, restarts, members, call, waiter,
                   handedFrom, closed>>

-----------------------------------------------------------------------------
(* Handoff: Get, Send, Register, SetStatus, dispatch: five critical        *)
(* sections, and the task may finish between any two of them.              *)

HandoffCheck(c, k, t) ==
    /\ call[c] = Idle
    /\ Open(k)
    /\ call' = [call EXCEPT ![c] = [op |-> "handoff", task |-> k, team |-> t]]
    /\ UNCHANGED <<nextId, board, phase, specTask, restarts, slots, waiter,
                   handedFrom, closed>>

HandoffNoteFailsAfterRegister(c) ==
    /\ call[c].op = "handoff"
    /\ nextId < MaxIds
    /\ nextId' = nextId + 1
    /\ Register(nextId + 1, call[c].team)
    /\ call' = [call EXCEPT ![c] = Idle]
    /\ UNCHANGED <<phase, specTask, restarts, slots, handedFrom, closed>>

\* The mailbox refuses the note: an id is spent, nothing is registered.
HandoffNoteFails(c) ==
    /\ call[c].op = "handoff"
    /\ nextId < MaxIds
    /\ nextId' = nextId + 1
    /\ call' = [call EXCEPT ![c] = Idle]
    /\ UNCHANGED <<board, phase, specTask, restarts, slots, waiter,
                   handedFrom, closed>>

HandoffRegister(c) ==
    /\ call[c].op = "handoff"
    /\ nextId < MaxIds
    /\ LET n == nextId + 1 IN
       /\ nextId' = n
       /\ Register(n, call[c].team)
       /\ specTask' = [specTask EXCEPT ![n] = n]
       /\ phase' = [phase EXCEPT ![n] = "registered"]
       /\ handedFrom' = [handedFrom EXCEPT ![n] = call[c].task]
       /\ call' = [call EXCEPT ![c] = [op |-> "retire", task |-> call[c].task, new |-> n]]
    /\ UNCHANGED <<restarts, slots, closed>>

HandoffRetire(c) ==
    /\ call[c].op = "retire"
    /\ SetStatus(call[c].task, "handed-off")
    /\ phase' = [phase EXCEPT ![call[c].new] = "dispatching"]
    /\ call' = [call EXCEPT ![c] = Idle]
    /\ UNCHANGED <<nextId, owner, taskTeam, specTask, restarts, slots,
                   handedFrom, closed>>

-----------------------------------------------------------------------------
(* AdoptOrphans: liveAgents under the team's lock, then List under the     *)
(* coordinator's, then one Reassign and dispatch per task that the two     *)
(* snapshots make an orphan.                                               *)

QueuedIn(t) == {queue[t][i] : i \in DOMAIN queue[t]}

AdoptLive(c, t) ==
    /\ call[c] = Idle
    /\ call' = [call EXCEPT ![c] = [op   |-> "list", team |-> t,
                                    live |-> members[t] \cup QueuedIn(t)]]
    /\ UNCHANGED <<nextId, board, phase, specTask, restarts, slots, waiter,
                   handedFrom, closed>>

AdoptList(c) ==
    /\ call[c].op = "list"
    /\ LET t == call[c].team
           orphans == {k \in Ids : /\ Open(k) /\ taskTeam[k] = t
                                   /\ owner[k] \notin call[c].live}
       IN  call' = [call EXCEPT ![c] =
                      [op |-> "adopt", team |-> t, live |-> call[c].live,
                       todo |-> orphans, cur |-> 0]]
    /\ UNCHANGED <<nextId, board, phase, specTask, restarts, slots, waiter,
                   handedFrom, closed>>

\* The previous dispatch of this call has returned.
Dispatched(c) ==
    call[c].cur # 0 => phase[call[c].cur] \notin {"dispatching", "launching", "joined"}

\* Reassign in creation order; a task that has become terminal is skipped.
AdoptNext(c) ==
    /\ call[c].op = "adopt"
    /\ Dispatched(c)
    /\ nextId < MaxIds
    /\ nextId' = nextId + 1
    /\ \E k \in call[c].todo :
         /\ \A j \in call[c].todo : k <= j
         /\ \/ /\ status[k] \in Terminal
               /\ call' = [call EXCEPT ![c].todo = @ \ {k}]
               /\ UNCHANGED <<status, owner, waiter, specTask, phase>>
            \/ /\ status[k] \notin Terminal
               /\ status' = [status EXCEPT ![k] = "pending"]
               /\ owner' = [owner EXCEPT ![k] = nextId + 1]
               /\ NotifyChange
               /\ specTask' = [specTask EXCEPT ![nextId + 1] = k]
               /\ phase' = [phase EXCEPT ![nextId + 1] = "dispatching"]
               /\ call' = [call EXCEPT ![c].todo = @ \ {k}, ![c].cur = nextId + 1]
    /\ UNCHANGED <<taskTeam, restarts, slots, handedFrom, closed>>

AdoptReturn(c) ==
    /\ call[c].op = "adopt"
    /\ Dispatched(c)
    /\ call[c].todo = {} 
    /\ call' = [call EXCEPT ![c] = Idle]
    /\ UNCHANGED <<nextId, board, phase, specTask, restarts, slots, waiter,
                   handedFrom, closed>>

-----------------------------------------------------------------------------
(* CollectWait and Close.                                                  *)

Settled(t) == \A k \in Ids : taskTeam[k] = t => ~Open(k)

Collect(w, t) ==
    /\ waiter[w].pc = "idle"
    /\ waiter' = [waiter EXCEPT ![w] = [pc |-> "scan", team |-> t]]
    /\ UNCHANGED <<nextId, board, phase, specTask, restarts, slots, call,
                   handedFrom, closed>>

\* One pass of WaitSettled under the read lock: return, or take the current
\* channel and block on it.
Scan(w) ==
    /\ waiter[w].pc = "scan"
    /\ waiter' = [waiter EXCEPT ![w].pc = IF Settled(waiter[w].team) THEN "idle" ELSE "blocked"]
    /\ UNCHANGED <<nextId, board, phase, specTask, restarts, slots, call,
                   handedFrom, closed>>

\* The wait's own context is done: the partial snapshot is returned.
CollectTimeout(w) ==
    /\ waiter[w].pc = "blocked"
    /\ waiter' = [waiter EXCEPT ![w].pc = "idle"]
    /\ UNCHANGED <<nextId, board, phase, specTask, restarts, slots, call,
                   handedFrom, closed>>

Close ==
    /\ ~closed
    /\ closed' = TRUE
    /\ UNCHANGED <<nextId, board, phase, specTask, restarts, slots, call,
                   waiter, handedFrom>>

-----------------------------------------------------------------------------

\* What a member or its launcher decides.
MemberStep(m) ==
    \/ WatchRelaunch(m)
    \/ \E outcome \in {"done", "failed"} : WatchRecord(m, outcome)

\* What the goroutine that carries spec m does on its own.
CarrierStep(m) ==
    \/ Admit(m)
    \/ Launch(m)
    \/ LaunchFails(m)
    \/ MarkRunning(m)
    \/ RemoveMember(m)
    \/ OnExit(m)

CallerStep(c) ==
    \/ HandoffNoteFails(c)
    \/ HandoffRegister(c)
    \/ HandoffRetire(c)
    \/ AdoptList(c)
    \/ AdoptNext(c)
    \/ AdoptReturn(c)

Next ==
    \/ \E t \in Teams : Spawn(t)
    \/ \E m \in Ids : CarrierStep(m) \/ MemberStep(m)
    \/ \E c \in Callers, k \in Ids, t \in Teams : HandoffCheck(c, k, t)
    \/ \E c \in Callers, t \in Teams : AdoptLive(c, t)
    \/ \E c \in Callers : CallerStep(c)
    \/ \E w \in Waiters, t \in Teams : Collect(w, t)
    \/ \E w \in Waiters : Scan(w) \/ CollectTimeout(w)
    \/ Close

Spec == Init /\ [][Next]_vars

(***************************************************************************)
(* Goroutines are scheduled: every carrier, every API call in progress and *)
(* every scan goes on.  A running member need not ever exit on its own; it *)
(* does once Close has cancelled its context.                              *)
(***************************************************************************)
Fairness ==
    /\ \A m \in Ids : WF_vars(CarrierStep(m) \/ (closed /\ \E o \in {"done", "failed"} : WatchRecord(m, o)))
    /\ \A c \in Callers : WF_vars(CallerStep(c))
    /\ \A w \in Waiters : WF_vars(Scan(w))

FairSpec == Spec /\ Fairness

-----------------------------------------------------------------------------
(* Safety.                                                                 *)

\* Slot accounting (team.go admit/onExit, lifecycle.go afterExit): the counter
\* of a team is exactly the number of specs between the reservation of their
\* slot and its release, whatever mix of launches, relaunches, launch failures
\* and hand-overs to queued specs came before, so a team never exceeds its cap.
Holders(t) == {m \in Ids : phase[m] \in HoldsSlot /\ Team(m) = t}

\* The counter and the set it stands for agree in every state.
SlotAccounting == \A t \in Teams : running[t] = Cardinality(Holders(t))

\* Work conservation (onExit drains at most one spec per exit): a spec waits in
\* the queue only while every slot of its team is taken.
NoStrandedQueue == \A t \in Teams : queue[t] # <<>> => running[t] = MaxTeamSize

\* The queue holds each waiting spec of the team once, and nothing else.
QueueIsWaiting ==
    \A t \in Teams :
       /\ \A i \in DOMAIN queue[t] : phase[queue[t][i]] = "queued" /\ Team(queue[t][i]) = t
       /\ \A i, j \in DOMAIN queue[t] : i # j => queue[t][i] # queue[t][j]
       /\ \A m \in Ids : phase[m] = "queued" /\ Team(m) = t => m \in QueuedIn(t)

\* No goroutine leaks, invents or hoards a slot: the three hold only together,
\* since the counter stays right only if the head of a queue really waits.
SlotsAreSound == SlotAccounting /\ QueueIsWaiting /\ NoStrandedQueue

\* Every task that is not settled has a goroutine on its way to settle it: no
\* path of Spawn, Handoff, AdoptOrphans, relaunch or launch failure leaves a
\* phantom task behind that a collector would wait for in vain.
Custodian(m) == phase[m] \in {"registered", "dispatching", "queued", "launching", "joined", "running"}

\* An open task has such a goroutine for itself or for the spec that stands for
\* it after a handoff or an adoption.
OpenTasksHaveACustodian ==
    \A k \in Ids : Open(k) => \E m \in Ids : specTask[m] = k /\ Custodian(m)

\* Each team is a bounded lease of MaxTeamSize slots: first come, first served,
\* and the slot of an exiting or failed member goes to the head of the queue,
\* whatever the other teams do.
Lease(t) == INSTANCE BoundedLease WITH
               Clients <- Ids, Capacity <- MaxTeamSize, holders <- Holders(t), line <- queue[t]

\* Admission, queueing and hand-over implement BoundedLease in every team.
TeamsAreLeases ==
    /\ \A t \in Teams : Lease(t)!Init
    /\ [][\A t \in Teams : [Lease(t)!Next]_(Lease(t)!vars)]_vars

\* A collector that sleeps on the change channel has something to wait for: no
\* transition that settles its team slips between its scan and its wait
\* (WaitSettled takes the channel in the same locked pass as the snapshot).
NoMissedSettle ==
    \A w \in Waiters : waiter[w].pc = "blocked" => ~Settled(waiter[w].team)

\* "a late member update cannot resurrect a finished task": neither a late
\* SetStatus(running), nor a second member's outcome, nor an adoption, nor a
\* handoff moves a task out of a terminal status.
TerminalIsFinal ==
    [][\A k \in Ids : status[k] \in Terminal => status'[k] = status[k]]_vars

-----------------------------------------------------------------------------
(* Claims of the comments that the interleavings refute.                   *)

\* "so orphan adoption never re-dispatches (and thus double-executes) a task
\* whose member is merely waiting for a slot" (team.go, liveAgents).
NoDoubleDispatch ==
    \A m, n \in Ids : Custodian(m) /\ Custodian(n) /\ specTask[m] = specTask[n] => m = n

\* "A handoff of an already-terminal task is rejected (fail closed)"
\* (lifecycle.go, Handoff): the member of a handed-off task is dispatched only
\* after the original has been retired as handed off.
HandoffRetiresTheOriginal ==
    \A n \in Ids : handedFrom[n] # 0 /\ phase[n] # "registered"
                       => status[handedFrom[n]] = "handed-off"

-----------------------------------------------------------------------------
(* Liveness, under FairSpec.                                               *)

\* After Close every task in the registry reaches a terminal status, the
\* queued ones included, since each exit drains the queue by one; and every
\* collector returns, without the timeout of its own context.
CloseSettlesEveryTask ==
    closed ~> /\ \A t \in Teams : Settled(t)
              /\ \A w \in Waiters : waiter[w].pc # "blocked"
=============================================================================
