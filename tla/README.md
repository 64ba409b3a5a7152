# Kez: formal models

Kez is a terminal coding agent written in Go. This directory holds TLA+ models of
the parts of it where several goroutines, processes or failures meet, the TLC
instances that check them, and TLAPS proofs about all twelve. Every definition is
read from the code; `PROJECT.json` maps each to the lines it stands for.

Run everything from this directory:

    tlc -workers 2 -config Swarm.cfg MCSwarm      # one run; others likewise
    tlapm SwarmProofs.tla                         # its proofs; other *Proofs likewise

## 1. The system

A surface (the TUI, `exec`, ACP) starts `agent.Run`, a loop of model requests and
tool calls. Around it: sessions record what happened, background specialists and
swarm members run further agents, a daemon runs agents as worker processes for
clients, cron fires them on a schedule. The processes share only files (session
directories, task and job files, lock files); inside a process, goroutines share
mutex-guarded tables.

| Part | State it keeps | Operations | Who else touches it | Hard behaviour | Correct when | Module |
|---|---|---|---|---|---|---|
| agent loop (`internal/agent`) | transcript, turn, guards, batch | request, stream, retry, compact, run tools, nudge, return | the user cancels; diagnostics arrive | recoveries inside recoveries; leaving a batch half way | what is sent is replayable, text is shown once, calls run once and in order, the run ends | `AgentLoop` |
| swarm (`internal/swarm`) | task board, teams: members, slots, queue | spawn, launch, exit, relaunch, handoff, adopt, collect, close | one goroutine per member, any number of callers | state read in one critical section and used in the next | no slot leaks, no queued spec starves, no finished task changes, nothing open is forgotten | `Swarm` |
| daemon pool (`internal/daemon/pool.go`) | slots, workers, draining | run with retries, drain | server shutdown, worker exits | launch racing drain, retry racing shutdown | slots are leases; shutdown leaves nothing | `DaemonPool` |
| daemon session (`session.go`) | ring of lines, subscribers | line, subscribe, finish | clients that lag or leave | full channels, the seam of history and live lines | a client sees the stream or is told what is missing | `DaemonSession` |
| daemon registry (`session.go`, `server.go`) | sessions by id, order | start, prune, attach | sessions finish without its lock | eviction between two lookups | live sessions stay, the oldest finished go | `DaemonRegistry` |
| token lock (`cron`, `hooks`, `oauth` `lock.go`, `lockutil`) | one lock file | acquire, reclaim, release | processes; crashes | every system call is a step of its own | at most one holder; a dead holder is replaced | `TokenLock` |
| session store (`internal/sessions`) | log, metadata, blobs, workspace files | append, retitle, checkpoint, rewind, fork | TUI, exec, CLI on one directory | crash between two writes; torn lines | no event lost or renumbered; a rewind undoes the edits | `SessionStore` |
| background manager (`internal/background`) | task table and its files | register, pid, exit, kill, load | waiters, killers, another process | stop racing exit; a kill that fails | killed stays killed; ended tasks are ended | `BackgroundTasks` |
| cron (`internal/cron`, `cli/cron*.go`) | job files | list, claim, execute, persist, commands | several schedulers, commands | state held over an execution of any length | a slot fires once, a pause or removal stands | `CronFire` |
| process manager (`internal/execution`) | background terminals, their buffered output | start, continue, stop, evict, forget | two agents on one terminal, the process, the user | output, exit code and table under a lock each | no output is lost with the exit, what runs can be stopped | `ProcessManager` |
| OAuth tokens (`internal/oauth`) | the token file, refresh locks | refresh, log in, log out, save | goroutines and processes that share a login | single-use refresh tokens, a lock file that may break | one refresh at a time, no save undoes another | `OAuthTokens` |
| runs of the TUI (`internal/tui`) | the model that `Update` replaces | prompt, queue, cancel, dialogs, loops, sessions, compact, rewind, exit | a goroutine per run, one for a compaction | messages that arrive after what they are about has changed | a waiting run can be answered, events reach their session | `TuiRuns` |

The models meet where the parts do. `AgentLoop` is what runs in a worker of
`DaemonPool`, in a member of `Swarm`, in a run of `TuiRuns` and in an execution of
`CronFire`; each of them sees of it that it ends, in one of several ways, at any
time. `TokenLock` is the lock of the job files in `CronFire` and of the token file in
`OAuthTokens`. The log of `SessionStore` is that of `TuiRuns`.

### Not modelled

Parts without a module, and why, are the `not_modelled` components of
`PROJECT.json`. Planned and not yet written are asynchronous diagnostics, the swarm
mailbox and scheduler, server shutdown, the daemon's instance lock, and the
JSON-RPC peers of ACP and MCP (section 7). The greater part of the code, by lines,
is none of this: what the TUI draws and its setup wizards, the translation of
providers' wire formats, the individual tools, the policy of the sandbox,
configuration, catalogs and the command line are decisions over data or plain I/O,
in one goroutine. A model of them would repeat them.

## 2. How the models are written

One action is what one actor does without anybody else being able to step in: one
critical section of a mutex, one channel operation, one system call, or, in the
sequential agent loop, one stretch between two points where its environment
chooses. Where the code lets go of a lock and comes back, there are two actions,
and everything the first one read is kept in the state. Data is reduced to what
the properties tell apart: a task is a number, a tool result is small or large, a
file content a model value, a cron slot a number. The environment is
nondeterministic: models answer anything, tools succeed or fail, workers exit in
five ways, disks refuse, processes die.

`BoundedLease` is an abstract specification with no code of its own: at most
`Capacity` holders, first come first served, nobody waits while a lease is free.
The worker pool and every team of the swarm implement it (`PoolIsALease`,
`TeamsAreLeases`): a refinement checked step by step, with the set of holders and
the line computed from the concrete state. `BreakableLock` is the other: one holder
at a time until a live lock file has been moved aside. `TokenLock`, in which every
system call is a step, implements it (`LockExcludes`, a part of `ReclaimIsSafe`), and
`OAuthTokens` has it as the lock of the token file, which `Displace` may break. In
`CronFire` the operations of the store that hold the lock are single steps: there the
lock of a job does not break.

Operators whose name says what goes wrong (`OnExitWithoutDrain`,
`NaiveBoundary`, `ReloadIgnored` ...) are not used by the specifications.
Each is an operator of the module with a plausible bug; put in its place, TLC
finds the property violated that `PROJECT.json` lists with it. They document that
no property holds for want of a way to break it.

A property that a run checks may be a conjunction of named parts (`SlotsAreSound`,
`RetentionIsSound`, `RecordsAreTrue` ...): facts about one mechanism that hold
together and that one run checks together. To see which part a change breaks, name
the parts in the configuration. The type invariant of each module is one such
part; `Swarm`, which has a theorem of its own about it, keeps it separate.

Where a guarantee of the code holds under a proviso, the property states it, and
a history variable records whether the proviso was kept: `displaced` in
`TokenLock` (`broken` in `OAuthTokens`), `raced` and `disturbed` in `SessionStore`, `lost` in
`BackgroundTasks`, `overran` in `CronFire`, `spent` in `OAuthTokens`, `disturbed` and
`late` in `TuiRuns`. The same claim without its proviso is
in the module too, as a definition among the refuted claims (section 6).

## 3. The modules and the code

**Swarm** (`coordinator.go`, `team.go`, `lifecycle.go`, `member.go`). `status`,
`owner`, `taskTeam` are the coordinator's board; `members`, `queue`, `running` a
team; `phase[m]` says how far the goroutine that carries spec `m` has come
(dispatch, launch, `watch`, `afterExit`). `Admit` and `OnExit` are the two
critical sections of the slots; `LaunchFails` gives the slot to the next queued
spec; `WatchRelaunch` restarts a failed member up to `MaxMemberRestarts` times.
`HandoffCheck`, `HandoffNoteFails`, `HandoffRegister` and `HandoffRetire` are the
separate sections of `Handoff`; `AdoptLive`, `AdoptList`, `AdoptNext` and
`AdoptReturn` those of `AdoptOrphans`, which only tests call so far. `Scan` is
the locked pass of `WaitSettled`.

**DaemonPool** (`pool.go`, `launcher.go`, `server.go`). `pc[r]` is where the
`Run` of request `r` is; `slots` and `senders` are the buffered channel and the
goroutines blocked on it, which Go serves in order; `active` is `p.active`;
`drainer` is `Drain`; a kill of a worker that has ended already does nothing.
`Launch` and `Track` are two actions, as in `runOnce`.

**DaemonSession** (`session.go`, `streamToClient`). `Line` appends to the ring and
offers to each subscriber under one lock; `Offer` is the drop count and gap
notice. `Finish` takes the subscribers under the lock, `CloseChannel` closes them
after it. `Subscribe` takes history and channel in one section.

**DaemonRegistry** (`SessionManager`, `handleAttach`). The pruning loop holds
`m.mu`, but sessions finish without it, so each look at one is a `Prune` step.
The attach handler looks its session up twice.

**TokenLock** (`cron/lock.go`, `lockutil/reclaim.go`; `hooks` and `oauth` have the
same form). A file is named by the acquisition that created it and keeps its name
through renames, so that the model knows whose file is at the path. Time is one
action, `GrowOld`: a file that nobody uses any more passes the stale threshold.
That a hold is short against the threshold is an assumption, and the code's.

**SessionStore** (`store.go`, `checkpoint.go`, `rewind.go`). `log`
has the complete lines, `tail` an unterminated one; appending to it produces a
line that does not parse. An append is prepared under the lock, then written,
then counted in the metadata: three steps a crash can come between, and
`BreakWrite` stops the second in the middle. `CaptureToolCheckpoint` (exec) stores
blob and event under one lock, `SnapshotForCheckpoint` (TUI) keeps the event in
memory until `Flush`. `ApplyRewind` to `PruneOrphanBlobs` are the parts of one
rewind. The comment of `SnapshotForCheckpoint` says that a rewind of another process
may prune the blob of such a checkpoint: `SnapshotContract` is what that asks for, two
properties depend on it, and the instance that is checked meets it. The rewind of the
command line (`cli/sessions.go:384`), run beside a TUI at work, does not.

**BackgroundTasks** (`manager.go`, `terminate.go`, and the part of the specialist
runner that uses them). Every change is persisted first and made in memory then.
`Kill` marks, signals, and undoes the mark when the signal failed.

**CronFire** (`cron_run.go`, `cron.go`, `store.go`). Store operations that take
the job's lock are one step; `List` and the `Get` of the commands are not
protected, and what they read is kept in `sched` and `cmd`. `Claim` is
`claimFire`, `Persist` and `AppendRun` follow the execution.

**AgentLoop** (`loop.go`, `compaction.go`, `prune.go`, `parallel_tools.go`,
`guardrails.go`, `completion_policy.go` ...). `messages` is the transcript with
roles, turn numbers and call numbers; `pc` the place in `Run`. Whether the token
threshold is passed is a free choice before every request, which covers every
calibration of it. Reconnects are folded into `Connect`, and `executeToolCall`
is one step with any outcome.

**ProcessManager** (`process_manager.go`). A call holds no lock while it collects:
`Drain`, `Mark`, `SeeDone`, `Report` and `RemoveExited` are the sections of
`collectResult` and its callers on the buffer, the truncated flag, `done`, the exit
code and the table. `Store`, `Note` and `Terminate` are the eviction; `Reap`,
`SetExitCode` and `CloseDone` what the waiting goroutine does at the end of the
process. Output is counted in units, `Cap` to a full buffer; that a call runs into
its own limit of 2 MiB is a free choice. `earlier[p]` are the processes used before
`p`, for the choice of the least recently used. That a notice of each other caller
fits into an empty buffer is an assumption: a notice has some 54 bytes, a buffer
holds 2 MiB. `get` and `touch` of one call are one step,
and `StopAll` is a `Stop` of each process listed. Left out: a pid that the system
uses again, and the copier of a pseudo terminal that has not finished when `done` is
closed. A write to a terminal has no deadline: `InputTaken` may never come, and the
specification has no fairness.

**OAuthTokens** (`manager.go`, `store.go`, `flow.go`). `Load`, `LockRefresh`, `Reload`
and `Refresh` are a refresh: read, wait for the lock of the manager, read again,
post. `LockStore`, `LockFile`, `ReadState`, `WriteState` and `Unlock` are a save or
deletion. Tokens are numbered in the order of their issue, and the server takes a
refresh token once, as servers that rotate them do. All other entries of the file are
one boolean. `Die` ends all goroutines of a process; that the lock file of a dead
holder stays until it is stale is left to `TokenLock`. `Displace` is the reclaim that
moves a live lock file aside.

**TuiRuns** (`model.go`, `loop.go`, `permission_prompt.go`, `spec_mode.go`,
`init_command.go`, `session_*.go` ...). `m` is the model of Bubble Tea, which handles
one message at a time: a handler is an action, and the helpers they share
(`Completed`, `Flushed` ...) are functions of `m`. `at` is where the goroutine of each
run is, `compaction` that of `/compact`; what they send is a step of its own, later.
A session is the sequence of what it was told: a prompt, the events of a run, a
cancellation (the record of a compaction is not counted). A run that was cancelled
asks for nothing more; that its tools stop is a property of `AgentLoop`. A loop that
comes due without a provider is a `dud`: it has no iteration and no next time.
One loop at a time; side conversations (`/btw`), stores that fail and the error paths
of handlers are left out.

## 4. The runs

| Run | Instance | States | Shows |
|---|---|---|---|
| `swarm` | 1 team, 1 slot, 3 ids, 1 restart, 1 caller, 1 collector | 1.28 M | slots and queue (`SlotsAreSound`), custodians, no missed wake-up, finality, refinement of `BoundedLease`, close |
| `pool` | 3 requests, 1 slot, 2 attempts | 0.46 M | launches after drain and results (`RunsAreHonest`), refinement of `BoundedLease`, shutdown and drain, no starvation |
| `session` | 2 clients, ring of 1, channels of 2, 4 lines | 0.39 M | no hidden gap, every line accounted, no panic (`ClientsSeeTheStream`), readers reach the end |
| `registry` | 3 ids, 1 retained, 4 starts, 1 client | 0.28 M | indexes, retention, order of eviction, second lookup (`RetentionIsSound`) |
| `lock` | 3 processes, 2 acquisitions each, 1 crash | 0.47 M | exclusion, ownership, only dead files stolen (`ReclaimIsSafe`), a crash is survived |
| `store` | TUI and exec, 1 file, 1 content or none, 3 lines, 2 faults | 3.6 M | numbering and survival (`EventsAreKept`), once-only events and metadata (`WritersAreSerialised`), blobs of session and fork (`BlobsAreKept`), rewind |
| `background` | 2 tasks, 2 killers, 1 loading process | 0.16 M | kill protocol, exits, files (`RecordsAreTrue`), final states, kills complete |
| `cron` | 2 schedulers, 1 command, 3 slots | 1.14 M | claims, pause and removal (`CommandsStand`), due jobs fire |
| `agent` | 2 turns raised to 3, 2 calls, cancellable, gated | 1.3 M | replayable requests, text once, order, aborts and cancellation (`BatchRunsAsTold`), compaction, end |
| `process` | 2 processes, 1 with a terminal, 2 callers, table of 1, buffer of 1 | 3.8 M | an exit leaves no output behind, a loss is told (`OutputIsComplete`), what runs is listed |
| `oauth` | 2 goroutines of one manager, 1 of another, 3 tokens | 0.34 M | until the lock file breaks, one refresh per token and manager and no lost save; operations end |
| `tui` | 2 runs, 2 sessions | 0.64 M | runs and loops wait for something (`NothingWaitsInVain`), events reach their session once, context and log agree, a deferred exit comes |

Why the bounds are enough to mean something:

* `swarm`: one slot and three ids give a member that runs, one that queues and one
  that is minted by a handoff or arrives while a slot changes hands; relaunches,
  failed launches, adoption and `Close` interleave with all of it. More teams are
  independent except for handoffs between them; the theorems of section 5 are for
  any number of teams, slots, ids and callers, as those of the other modules are for
  any value of their constants.
* `pool`: one slot and three requests make a line of two, with a retry in front.
* `session`: four lines overflow a ring of one and channels of two, so that a drop,
  a notice and a further drop happen, with a client that attaches late.
* `registry`: more starts than ids and than retained sessions, so that an id is
  used again by another session while a handler still has the old one.
* `lock`: a race of the reclaim needs three processes (one that steals, one that
  acts on the old observation, one that enters meanwhile); all can come back once.
* `store`: two processes are what the properties are between; three lines are an
  event, a checkpoint and a marker, or two checkpoints of one file and a marker;
  a file is there or not, which a wrong restore confuses as well as two contents;
  two faults let a crash follow a torn write or a rewind be cut short twice.
* `cron`: an overrun needs two schedulers and three slots, a lost pause one command.
* `agent`: a compaction that drops a turn needs three, which the posture escalation
  allows; the order of two calls and the abort of the second need two. Bounds of
  the guards (`MaxStalls`, `MaxEmpty`, `StopAt` ...) are small values of the same
  constants of the code. `StopAt = 1`: any failure stops, as the fifth does.
* `process`: an eviction needs a second start and a table of one; two calls on the
  same process, and one that evicts what the other waits for, need two callers. A
  buffer of one unit is full at once, so that every loss and every notice happens.
* `oauth`: two goroutines meet at the refresh lock of their manager, the third is
  another process, or another manager of the same one, which logs in and out. Three
  tokens are the first login, a refresh and a login or refresh after it.
* `tui`: a cancelled run whose events are still to come, beside an active one, needs
  two runs; a change of session under either needs two sessions.

Bounds that the code has not got are `MaxIds`, `MaxLines`, `MaxStarts`,
`MaxAcquires`, `MaxCrashes`, `MaxFaults`, `MaxLoads`, `MaxTime`, `MaxCalls`,
`MaxTokens`, `MaxRuns` and `MaxSessions`;
the others are options or constants of the code. Deadlock is checked in `swarm`;
the other systems may stop (every request returned, all lines printed, the run
over), and their configurations say `CHECK_DEADLOCK FALSE`.

### Fairness

Only of what the Go scheduler or the kernel drives, and weak but for `OAuthTokens`:

* `Swarm`: every goroutine that carries a spec, every API call in progress, every
  scan. A member need not exit until `Close` cancels its context; nobody has to
  spawn, hand off or close.
* `DaemonPool`: `Run`, `Drain` and killed workers go on; a worker that was not
  killed may run for ever. Only `EveryRunReturns` assumes that workers end
  (`Patience`), as a premise of the property.
* `DaemonSession`: none in the specification. `ReadersReachTheEnd` has as premise
  that readers read (`ReadersGoOn`); the worker may fall silent, and no step of
  `Line` depends on a reader.
* `TokenLock`: acquirers and holders go on unless dead, and unused files grow old.
* `BackgroundTasks`: goroutines run, and a signalled child dies unless the kill
  gives up (SIGTERM is followed by SIGKILL).
* `CronFire`: the steps of a looping scheduler. Restarting a crashed one is not fair.
* `AgentLoop`: the loop, whose model and tools answer in the end (both have
  timeouts, which are among the outcomes).
* `ProcessManager`: none. A command may run, and a call wait for its input to be
  taken, for ever.
* `OAuthTokens`: strong fairness of every operation. A waiter for a Go mutex that
  others take again and again gets it (starvation mode), and an exchange with the
  server and a wait for the lock file have deadlines. Nobody has to begin an operation.
* `TuiRuns`: the goroutine of a run goes on, unless it waits for an answer, and its
  messages are handled. The user need not do anything.

## 5. What is proved

All twelve modules have proofs, those of components that go together in one module:

* `DaemonPoolProofs` has, besides `DaemonPool`, `DaemonSession` (the instance `Session`)
  and `DaemonRegistry` (`Registry`),
* `OAuthTokensProofs` has `TokenLock` (`Path`), which is the lock file it uses,
* `BackgroundTasksProofs` has `ProcessManager` (`PM`).

A theorem holds for every value of the constants that satisfies the one `ASSUME` of the
module it is about (positive capacities, names that differ from reserved ones, and the
like, as the code has them; that of an instance is the hypothesis of its theorems) and
rests on nothing else; only `BlobsStayKept` and `RewindsUndoEdits` have a hypothesis
besides, `SnapshotContract`. Every property that a run checks has a theorem, but for the
liveness properties.

Leaves that the provers need more than a second for name the prover and a longer limit
(`SMTT(60)`, `ZenonT(60)`), so that they do not depend on the load of the machine.

| Proof module | Theorem | Property |
|---|---|---|
| `SwarmProofs` | `TypeCorrect` | `TypeOK` |
| | `SlotsStaySound` | `SlotsAreSound`: a team's counter is the number of its specs that hold a slot (`SlotAccounting`), a queue lists each waiting spec of its team exactly once (`QueueIsWaiting`), nobody queues while a slot is free (`NoStrandedQueue`) |
| | `TerminalStaysFinal` | `TerminalIsFinal`: no step takes a task out of a terminal status |
| | `NoTaskIsForgotten` | `OpenTasksHaveACustodian`: somebody is on the way to settle each open task |
| | `NoSettleIsMissed` | `NoMissedSettle`: a collector that sleeps has something to wait for |
| | `EveryTeamIsALease` | `TeamsAreLeases`: every team implements `BoundedLease` |
| `DaemonPoolProofs` | `RunsStayHonest` | `RunsAreHonest`: one launch at most after a drain has begun, and results that fit the last worker |
| | `ThePoolIsALease` | `PoolIsALease`: the pool implements `BoundedLease` |
| | `StreamsStayWhole` | `ClientsSeeTheStream` of `DaemonSession`: no hidden gap, every line delivered or counted, no send on a closed channel |
| | `RetentionStaysSound` | `RetentionIsSound` of `DaemonRegistry`: both indexes agree, only the oldest finished go, none below the cap, no handler mistakes a session at work for its own |
| `SessionStoreProofs` | `EventsStayKept` | `EventsAreKept`: numbers increase, acknowledged events stay until a rewind |
| | `WritersStaySerialised` | `WritersAreSerialised`: types, one usage event, no title lost, the count follows the log |
| | `BlobsStayKept` | `BlobsAreKept`, under `SnapshotContract` |
| | `RewindsUndoEdits` | `RewindUndoesEdits`, under `SnapshotContract` |
| `OAuthTokensProofs` | `RefreshStaysSingleFlight` | `RefreshIsSingleFlight` |
| | `SavesStayKept` | `SavesAreKept` |
| | `StoreUsesTheLock` | `LockSpec`: the store takes and drops the lock file only as `BreakableLock` has it |
| | `ReclaimStaysSafe` | `ReclaimIsSafe` of `TokenLock`, the three that follow |
| | `LocksExclude` | `LockExcludes`: the lock file implements `BreakableLock` |
| | `OwnersKeepThePath` | `OwnerIsAtPath`: a holder finds its own file until a live one was moved aside |
| | `StolenStayDead` | `StolenLocksAreDead`: what a reclaim removes for good is not in use |
| `BackgroundTasksProofs` | `RecordsStayTrue` | `RecordsAreTrue`: the kill protocol, ended tasks, files that follow the table |
| | `FinalsStayFinal` | `FinalsAreNotRevived` |
| | `ProcessesStayListed` | `LiveProcessesAreListed` of `ProcessManager`: a live process is in the table, or about to be stored |
| | `OutputStaysComplete` | `OutputIsComplete` of `ProcessManager`: no step takes a flag of lost output away unreported, and a call that found `done` closed leaves no output behind when it reports the exit |
| `CronFireProofs` | `SlotsFireOnce` | `NoSlotFiresTwice` |
| | `CommandsStayDone` | `CommandsStand`, that is `RemovedStaysRemoved` (`RemovalsStand`) and `PauseStands` (`PausesStand`) |
| `TuiRunsProofs` | `NoWaitIsInVain` | `NothingWaitsInVain`: a run that waits has a dialog or a cancelled context, a loop that runs has its run |
| | `EventsComeHome` | `EventsReachTheirSession`: what a run did is recorded once, in its session, before the program quits |
| | `ContextStaysTheLog` | `ContextIsTheLog`: what is sent with the next prompt is the log of the session |
| `AgentLoopProofs` | `TextIsShownOnce` | `TextShownOnce` |
| | `BatchesRunAsTold` | `BatchRunsAsTold`: once, in order, nothing with effects that was reported aborted, little after a cancellation |
| | `RequestsStayReplayable` | `RequestsReplay`: each call has its result right after the reply |
| | `FreshResultsStay` | `FreshResultsAreKept`: no compaction takes away a result that no request has carried |

Each module has an inductive invariant, `IInv` or, for `SessionStore`, its layers; TLC
has checked it as an invariant of the module's run before it was proved. There is a lemma, or a step, for each action,
and in it one step for each conjunct that the action can disturb; `[]IInv` is then
temporal logic, and the theorems follow from `IInv` and, for action properties and
refinements, from `IInv` and a step. What `IInv` adds to the properties, and why it has to:

**Swarm.** `IInv = TypeOK /\ IdInv /\ SlotsAreSound`. None of the slot properties is
inductive. The counter is right after `OnExit` only if the head of the queue really
waits in that team and nowhere else, which is `QueueIsWaiting`, and that a queued spec
can be handed a slot without passing the cap is `NoStrandedQueue`; hence the three are
one property, proved together. They rest on facts about identity (`IdInv`): ids above
`nextId` are unused (`FreshIds`), every spec under way names a minted task
(`SpecsExist`), what a call in progress remembers was minted and, for a handoff, is
still waiting to be dispatched (`CallsAreCurrent`), and no two handoffs will dispatch
the same spec (`HandoffsAreApart`). The last one is not obvious in the code: it holds
because the new id is minted in the step that begins the call. `SlotFrame` deals with
all actions that move no spec into or out of a slot or a queue. The custodians and the
collectors are each kept by every step given `IInv`. The refinement maps every step to
a step of the lease of one team that leaves all others alone: a hand-over of `OnExit`
to a release that passes the lease on, a failed launch the same, and most to a stutter.

**DaemonPool.** Which phase of a `Run` has a worker and a result (`PhasesFit`), that
who launched since the drain is past its check (`LateIsLast`), that `slots` counts the
holders (`SlotsAreHeld`), and that blocked senders are there once each and only while
the channel is full (`SendersWait`), without which a release would hand over nothing.

**DaemonSession.** Lines are numbered in the model, and all depends on one idea: what
a client has read, has to replay and has in its channel is one sequence of entries in
which each takes up where the one before it stopped (`StreamsChain`), a notice of a gap
counting for the lines it stands for. A line or a notice is appended to its end, reading
moves the border within it. `LinesAddUp` says where that sequence ends,
`BufferIsRecent` where a late subscriber's begins, and `ChannelsCloseOnce` that a
channel is registered, due to be closed, closed, in this order.

**DaemonRegistry.** The property speaks of registrations that are over; the invariant
holds in the middle of one. A session is registered under its own id (`OwnIds`), the two
indexes agree between the removal of one entry and the next (`OrderIsIndex`), and what the loop has passed and kept
was at work when it began, as long as the registry is over its cap (`PassedWereLive`):
so the first finished entry it meets is the oldest. A handler has a session of the id it
was asked for (`HandlersFit`), also after the eviction of that session.

**TokenLock.** A file is known by the acquisition that made it. No file of an
acquisition is about before its create (`FilesAreCreated`), files in use are young
(`UsedIsYoung`), who looks at a moved file or puts it back has one aside (`AsideIsHeld`),
and as long as only old files are moved none is put back (`OnlyOldIsMoved`). The last one makes
`OwnerIsAtPath` inductive: what disturbs an owner is a file that comes back. The
refinement takes as holders those between the create and the end of the release.

**SessionStore.** The invariant comes in layers, each kept by every step given those
before it. `Shape`: who is between `lockSession` and its end is the one process in
`lock`, and one process at a time carries a checkpoint. `Numbers` speaks of a log that
can be read, since a torn write may end that at any time: the numbers increase, what was
acknowledged is there, and what a process is about to write under the lock follows the
last line (`BatchFollows`) and is there afterwards (`BatchWritten`); a usage event is
written alone, by who found none. `Title`: a job that will write metadata has the title
that was written last. `Counts` holds until the first fault: numbers are places and, but
for the job that is about to write it, the count is that of the log. `Blobs`: what is
named by the log, by a batch under the lock or by a batch kept for later has its blob;
kept batches are why it needs `SnapshotContract`. `FilesAndLines`: between a capture and
its edit the file is what was captured (`Guarded`), so an edit that a checkpoint records
replaced just that (`LinesAreTrue`), and a rewind that has restored a file left it at
what the checkpoint closest to its target captured (`Restored`). Restoring needs the
blob, hence the layer before.

**OAuthTokens.** In two layers, as the lock file may break. `Typed` holds in any case:
all tokens about were issued. `Sound` holds until then: the lock file has one holder, a
refresh holds its manager's lock (`RefreshesAreApart`), a token on its way into the
file is nowhere else (`FreshIsNew`), and a token that was spent is in the hand of who
spent it or no longer stored (`SpentIsReplaced`), so that a second caller, which looks
again under the lock, does not send it. `StoreUsesTheLock` needs besides that two
goroutines of a manager are never both within `Store.mu` (`StoreIsSerial`), or a process
that dies might drop the lock file twice in one step.

**BackgroundTasks.** How far a launch is says what the record and the child are
(`LaunchesFit`), and a kill past its lookup has a recorded pid (`KillersHaveTargets`).

**ProcessManager.** A process on its way into the table is known to the call that
started it alone (`StoredAreNew`), and what a call removes has ended
(`RemovedHaveEnded`). `SeenIsComplete` is about a call that has seen `done` closed and
drains a last time: then no output is in the buffer, nothing but notices of evictions under way
can still be added (`Noting`), and with them it is not full. So no flag is set after the
last look at it, which is what the assumption about the buffer is needed for. The ends of
a process are final (`Ages`); `Touch` and `Drop` keep the order of the uses linear
(`TimesAreOrdered`), so that a least recently used process exists.

**CronFire.** While no execution outlasts its slot, a claimed fire and a resume are about
the current slot (`FiresAreCurrent`, `CopiesAreCurrent`) and an active job waits for a
later one than all it was fired for (`NextIsAhead`): a slot that was fired is never due.
The proviso `~overran` is that of the property.

**TuiRuns.** The handlers share functions of the model, so the lemmas are about these
(`BeginRunSound`, `LaunchPromptSound`, `CancelRunSound`, `CompletedSound`, `FlushedSound`
...) and say that each takes a `Sound` model to a `Sound` one; an action is then one or
two of them. `ModelFits` says that runs and sessions to come have left no trace, that a
review excludes an active run and that the context of the active run is not cancelled:
without the last, a run could go on and leave its dialog behind. `Reached` follows an
undisturbed run: as long as it is not gone it is active in its session or noted there to
be flushed, so a quit that waits for the notes waits for the run, and its events are
nowhere; afterwards they are in the log of its session at one place, and a rewind, which
is refused while there are notes, removes them only if it marks the run.

**AgentLoop.** `Transcript` says of the transcript what is true in the middle of a
batch as well: it is `Matched`, each call with its result and each result with its
call, except for one open reply, the last, that has its first `index - 1` results. What
is appended keeps that; a pruning changes bodies only; a compaction cuts before a reply,
which separates no call from its result. That `Boundary`, a maximum chosen with
`CHOOSE`, is such a cut is a lemma (`BoundaryFacts`): the maximum exists because the
greatest lower bound does, over the well-founded order of the naturals. `BatchFits`
relates what ran, ran ahead and is left; `ShownAsForwarded` counts the prose that the
user saw; `LateIsLast` makes an execution after the cancellation the last step but one.
For `FreshResultsStay` the cut has to lie before the last reply, or a call it would drop
would not be older than it.

### Only model-checked

* Liveness: `CloseSettlesEveryTask`, `StopEmptiesThePool`, `EveryRunReturns`,
  `ReadersReachTheEnd`, `CrashedHolderIsReplaced`, `KillsComplete`, `DueJobsFire`,
  `RunEnds`, `OperationsEnd` and `ExitCompletes`. The prover has neither fairness nor
  `ENABLED`.

Two things are neither proved nor checked. `LocksExclude` says that the lock file
implements `BreakableLock`, `StoreUsesTheLock` that the store asks no more of a
`BreakableLock` than that; that the two together make a store which uses the lock file
is left to the reader, since `TokenLock` and `OAuthTokens` are not composed into one
specification. `CronFire` takes its lock for unbroken.

## 6. Disagreements of code and comments

Each was found as a violation of a claim that a comment, a document or a test makes,
or that one would take for granted. They are definitions in their
modules which no run checks. To see one violated, name it in place of the properties
of the module's configuration: as a `PROPERTY` if it is marked with an asterisk, as
an `INVARIANT` otherwise.

| Definition | Code | What happens |
|---|---|---|
| `Swarm!NoDoubleDispatch` | `lifecycle.go:148` | `AdoptOrphans` looks at live members before tasks; one whose member is on its way is dispatched again |
| `Swarm!HandoffRetiresTheOriginal` | `lifecycle.go:132` | a task that finishes during a handoff stays done and is run again |
| `DaemonPool!DrainLeavesNoWorker` | `pool.go:246` | a worker launched and not yet tracked is missed by `Drain`; `Server.Shutdown` masks it by cancelling first |
| `DaemonSession!LossIsAnnounced` | `session.go:173` | lines dropped at the very end are never announced |
| `DaemonRegistry!EndTellsTheOutcome` | `server.go:312` | the second lookup of an attach may find nothing or a newer session, and reports its outcome |
| `TokenLock!MutualExclusion` | `cron/lock.go:82` | while a live file is aside, a third acquirer enters (`reclaim.go:50` concedes it) |
| `TokenLock!ReleaseSparesOthers` | `cron/lock.go:63` | the token is compared and the path removed in two calls |
| `TokenLock!ReleaseRemovesTheLock` | `reclaim.go:72` | a file restored after its owner released it blocks everybody until it is stale |
| `SessionStore!LogStaysReadable` | `store.go:659` | after a torn append the next one continues the torn line: a complete line that no reader accepts, with an acknowledged event on it |
| `SessionStore!SequencesAreNeverReused` | `store.go:636` | with an unparsable last line the number comes from metadata that may lag |
| `BackgroundTasks!RestoreSparesTheExited` | `manager.go:371` | undoing a failed kill revives a task whose exit was reported during it |
| `BackgroundTasks!LoadKeepsTheRunning` | `manager.go:463` | a second process marks the running tasks of a living owner as failed |
| `CronFire!NeverDoubleFires` | `cli/cron_run.go:215` | a fire that outlasts its slot writes back an older schedule, and a slot claimed meanwhile fires twice |
| `CronFire!FireCountIsExact` | `cli/cron.go:221` | pause and resume write back a whole job read before a fire was recorded |
| `AgentLoop!PrunedResultsWereSeen` * | `prune.go:63` | results of a large batch are pruned before any request carried them |
| `AgentLoop!AbortedCallsNeverRan` | `loop.go:689` | reads that ran ahead get the placeholder of calls that never ran |
| `AgentLoop!CancelKeepsItsCause` | `loop.go:529` | a cancellation that cuts a retried stream, or the summarizer of a reactive compaction, is returned as an error with the text of `ctx.Err()` only |
| `ProcessManager!ExitMeansComplete` | `process_manager.go:412` | output is drained before the exit code is read: a process that ends in between is reported as ended and removed, with output left |
| `ProcessManager!TerminalsAreBounded` | `process_manager.go:355` | what is evicted stays in the table until its end and may be chosen again, so that others run beyond the cap (shown with `MaxStarts = 3`) |
| `ProcessManager!EvictionSparesTheUsed` | `process_manager.go:338` | a process that a call turns to after it was chosen is terminated |
| `OAuthTokens!RefreshTokensAreSpentOnce` | `manager.go:350` | the lock around a refresh is one of the manager: two of them send the same single-use token |
| `OAuthTokens!LogoutStands` * | `manager.go:354` | a refresh under way stores its token after a logout |
| `OAuthTokens!LoginStands` * | `manager.go:354` | a refresh of the old login replaces the token of a new one |
| `TuiRuns!NoRunIsPutAside` | `init_command.go:13` | `/init` during a run starts another: the first is not cancelled, and its events are dropped |
| `TuiRuns!LoopsRun` | `loop.go:353` | a loop that comes due without a provider is left without an iteration; the next prompt counts as one |
| `TuiRuns!SessionsAreNotSwapped` * | `model.go:2600` | the result of a compaction sets the session that was active when it began, undoing a `/resume` or a `/spec` |

Also, `Fork` reads events and blobs of its parent in two unlocked steps
(`sessions/store.go:465`): a rewind of the parent in between leaves the fork
without blobs. `ForkCarriesItsBlobs` (in `BlobsAreKept`) holds with the proviso
`~fork.raced` and not without it. The same goes for a rewind and a tool call of
another process that overlap (`RewindUndoesEdits`, `~disturbed`).

## 7. Plan

In order of importance, and one instance per module, as here:

1. `RpcPeer` (`internal/acp/jsonrpc.go`, `internal/mcp/client.go`): every call
   returns; responses, cancellation and the end of the connection compete for one
   pending entry; a write under the client's mutex.
2. `SwarmMailbox` over `BreakableLock`, `SwarmScheduler` composed with `Swarm`.
3. `DaemonServer` (shutdown of listener and connections) composed with `DaemonPool`,
   and `DaemonLock`.
4. `AsyncDiagnostics`: the last check of a file begins after its last edit.
