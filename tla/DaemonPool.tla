----------------------------- MODULE DaemonPool -----------------------------
(***************************************************************************)
(* The worker pool of internal/daemon/pool.go: Run leases one of Size      *)
(* slots, launches a worker, retries it after a crash up to MaxAttempts    *)
(* times, and gives the slot back; Drain refuses new work, waits for the   *)
(* workers that are tracked, and kills the stragglers.                     *)
(*                                                                         *)
(* One action is what one goroutine does between two synchronisations: a   *)
(* critical section of p.mu, a channel operation, a launch, a wait.  Each  *)
(* request is one call of Run, all with one context, which the server's    *)
(* Shutdown cancels before it drains the pool; others drain it alone.      *)
(***************************************************************************)
EXTENDS Naturals, Sequences, FiniteSets

CONSTANTS Requests,     \* the calls of Run
          Size,         \* PoolOptions.Size
          MaxAttempts   \* PoolOptions.MaxAttempts

ASSUME DaemonPoolAssumption ==
    /\ Size \in Nat \ {0}
    /\ MaxAttempts \in Nat \ {0}

VARIABLES
    pc,         \* where the Run of each request is
    attempt,    \* its attempt, counted from 1
    worker,     \* the process of its last launch, or how it ended
    result,     \* what Run returned
    slots,      \* len(p.slots)
    senders,    \* requests blocked in the send on p.slots, oldest first
    active,     \* p.active: requests whose worker is tracked
    draining,   \* p.draining
    drained,    \* p.drained is closed
    drainer,    \* where Drain is
    victims,    \* Drain's snapshot: <<request, attempt>> of the handles to kill
    killed,     \* requests whose worker has been killed and not ended yet
    cancelled,  \* the context is done
    late        \* auxiliary: launches of each request since p.draining was set

run   == <<pc, attempt, worker, result>>
lease == <<slots, senders>>
drain == <<draining, drained, drainer, victims, killed>>
vars  == <<run, lease, active, drain, cancelled, late>>

Exit  == {"ok", "tempfail", "permanent", "crash", "error"}
Leased == {"leased", "launch", "launched", "pump", "decide", "backoff", "cooloff", "release"}

\* Type invariant of Pool: phases of Run and runOnce, the slots channel, its
\* senders and the bookkeeping of Drain.
TypeOK ==
    /\ pc \in [Requests -> {"idle", "select", "blocked", "returned"} \cup Leased]
    /\ attempt \in [Requests -> 1..MaxAttempts]
    /\ worker \in [Requests -> {"none", "alive"} \cup Exit]
    /\ result \in [Requests -> {"none", "ok", "draining", "cancelled", "permanent"}]
    /\ slots \in 0..Size
    /\ senders \in Seq(Requests)
    /\ active \subseteq Requests
    /\ draining \in BOOLEAN /\ drained \in BOOLEAN /\ cancelled \in BOOLEAN
    /\ drainer \in {"idle", "close", "poll", "kill", "done"}
    /\ victims \subseteq Requests \X (1..MaxAttempts)
    /\ killed \subseteq Requests
    /\ late \in [Requests -> 0..MaxAttempts]

Init ==
    /\ pc = [r \in Requests |-> "idle"]
    /\ attempt = [r \in Requests |-> 1]
    /\ worker = [r \in Requests |-> "none"]
    /\ result = [r \in Requests |-> "none"]
    /\ slots = 0
    /\ senders = <<>>
    /\ active = {}
    /\ draining = FALSE /\ drained = FALSE /\ cancelled = FALSE
    /\ drainer = "idle"
    /\ victims = {} /\ killed = {}
    /\ late = [r \in Requests |-> 0]

Go(r, to) == pc' = [pc EXCEPT ![r] = to]

Blocked == {r \in Requests : pc[r] = "blocked"}

\* Run gives up with a result: before it holds a slot it returns at once,
\* afterwards the deferred release is still to come.
Refuse(r, why) ==
    /\ Go(r, "returned")
    /\ result' = [result EXCEPT ![r] = why]
    /\ UNCHANGED <<attempt, worker>>

Settle(r, why) ==
    /\ Go(r, "release")
    /\ result' = [result EXCEPT ![r] = why]
    /\ UNCHANGED <<attempt, worker>>

\* Closing a channel that the blocked senders select on wakes them all.
DismissSenders(why) ==
    /\ pc' = [r \in Requests |-> IF r \in Blocked THEN "returned" ELSE pc[r]]
    /\ result' = [r \in Requests |-> IF r \in Blocked THEN why ELSE result[r]]
    /\ senders' = <<>>
    /\ UNCHANGED <<attempt, worker, slots>>

-----------------------------------------------------------------------------
(* acquire and release.                                                    *)

\* acquire: the check of p.draining.
Enter(r) ==
    /\ pc[r] = "idle"
    /\ \/ /\ draining
          /\ Refuse(r, "draining")
       \/ /\ ~draining
          /\ Go(r, "select")
          /\ UNCHANGED <<attempt, worker, result>>
    /\ UNCHANGED <<lease, active, drain, cancelled, late>>

\* acquire: the select.  Any case that is ready may be taken; when none is,
\* the goroutine queues as a sender on p.slots.
Select(r) ==
    /\ pc[r] = "select"
    /\ \/ /\ slots < Size
          /\ slots' = slots + 1
          /\ Go(r, "leased")
          /\ UNCHANGED <<attempt, worker, result, senders>>
       \/ /\ cancelled
          /\ Refuse(r, "cancelled")
          /\ UNCHANGED lease
       \/ /\ drained
          /\ Refuse(r, "draining")
          /\ UNCHANGED lease
       \/ /\ slots = Size /\ ~cancelled /\ ~drained
          /\ senders' = Append(senders, r)
          /\ Go(r, "blocked")
          /\ UNCHANGED <<attempt, worker, result, slots>>
    /\ UNCHANGED <<active, drain, cancelled, late>>

ReleaseLosesSender(r) ==
    /\ pc[r] = "release"
    /\ slots' = slots - 1
    /\ Go(r, "returned")
    /\ UNCHANGED <<attempt, worker, result, senders, active, drain, cancelled, late>>

\* release: the receive takes one token; the oldest blocked sender puts its own
\* token in at once and goes on.
Release(r) ==
    /\ pc[r] = "release"
    /\ \/ /\ senders # <<>>
          /\ senders' = Tail(senders)
          /\ pc' = [pc EXCEPT ![r] = "returned", ![Head(senders)] = "leased"]
          /\ UNCHANGED slots
       \/ /\ senders = <<>>
          /\ slots' = slots - 1
          /\ Go(r, "returned")
          /\ UNCHANGED senders
    /\ UNCHANGED <<attempt, worker, result, active, drain, cancelled, late>>

-----------------------------------------------------------------------------
(* Run and runOnce.                                                        *)

CheckDrainOnce(r) ==
    /\ pc[r] = "leased"
    /\ \/ /\ draining /\ attempt[r] = 1
          /\ Settle(r, "draining")
       \/ /\ ~draining \/ attempt[r] > 1
          /\ Go(r, "launch")
          /\ UNCHANGED <<attempt, worker, result>>
    /\ UNCHANGED <<lease, active, drain, cancelled, late>>

\* The head of the retry loop: isDraining.
CheckDrain(r) ==
    /\ pc[r] = "leased"
    /\ \/ /\ draining
          /\ Settle(r, "draining")
       \/ /\ ~draining
          /\ Go(r, "launch")
          /\ UNCHANGED <<attempt, worker, result>>
    /\ UNCHANGED <<lease, active, drain, cancelled, late>>

\* The Launcher.  exec.CommandContext refuses to start under a context that is
\* done, and may fail anyway.
Launch(r) ==
    /\ pc[r] = "launch"
    /\ \/ /\ ~cancelled
          /\ worker' = [worker EXCEPT ![r] = "alive"]
          /\ late' = [late EXCEPT ![r] = IF draining THEN @ + 1 ELSE @]
          /\ Go(r, "launched")
       \/ /\ worker' = [worker EXCEPT ![r] = "error"]
          /\ Go(r, "decide")
          /\ UNCHANGED late
    /\ UNCHANGED <<attempt, result, lease, active, drain, cancelled>>

Track(r) ==
    /\ pc[r] = "launched"
    /\ active' = active \cup {r}
    /\ Go(r, "pump")
    /\ UNCHANGED <<attempt, worker, result, lease, drain, cancelled, late>>

\* The watcher that exec.CommandContext starts with the process.
ContextKills(r) ==
    /\ worker[r] = "alive" /\ cancelled /\ r \notin killed
    /\ killed' = killed \cup {r}
    /\ UNCHANGED <<run, lease, active, draining, drained, drainer, victims, cancelled, late>>

\* The process ends, on its own or because it was killed.  Under a context that
\* is done, Wait may report the context's error in place of an exit code.
WorkerExits(r) ==
    /\ worker[r] = "alive"
    /\ \E e \in Exit :
          /\ e = "error" => cancelled
          /\ worker' = [worker EXCEPT ![r] = e]
    /\ killed' = killed \ {r}
    /\ UNCHANGED <<pc, attempt, result, lease, active, draining, drained, drainer, victims, cancelled, late>>

\* runOnce returns: the output ended and Wait has the exit code, or a read
\* error made it kill the worker; the deferred untrack runs.
Untrack(r) ==
    /\ pc[r] = "pump"
    /\ \/ /\ worker[r] # "alive"
          /\ UNCHANGED worker
       \/ worker' = [worker EXCEPT ![r] = "error"]
    /\ active' = active \ {r} /\ killed' = killed \ {r}
    /\ Go(r, "decide")
    /\ UNCHANGED <<attempt, result, lease, draining, drained, drainer, victims, cancelled, late>>

\* The switch on the outcome of one attempt.
Decide(r) ==
    /\ pc[r] = "decide"
    /\ \/ /\ worker[r] = "ok"
          /\ Settle(r, "ok")
       \/ /\ worker[r] = "permanent"
          /\ Settle(r, "permanent")
       \/ /\ worker[r] = "error" /\ cancelled
          /\ Settle(r, "cancelled")
       \/ /\ worker[r] = "tempfail"
          /\ Go(r, "cooloff")
          /\ UNCHANGED <<attempt, worker, result>>
       \/ /\ worker[r] = "crash" \/ (worker[r] = "error" /\ ~cancelled)
          /\ attempt[r] = MaxAttempts
          /\ Settle(r, "permanent")
       \/ /\ worker[r] = "crash" \/ (worker[r] = "error" /\ ~cancelled)
          /\ attempt[r] < MaxAttempts
          /\ Go(r, "backoff")
          /\ UNCHANGED <<attempt, worker, result>>
    /\ UNCHANGED <<lease, active, drain, cancelled, late>>

WakeUncounted(r) ==
    /\ pc[r] \in {"backoff", "cooloff"}
    /\ worker' = [worker EXCEPT ![r] = "none"]
    /\ Go(r, "leased")
    /\ UNCHANGED <<attempt, result, lease, active, drain, cancelled, late>>

\* p.sleep returns and the loop goes on: a tempfail of the last attempt still
\* cools off before the loop ends.
Wake(r) ==
    /\ pc[r] \in {"backoff", "cooloff"}
    /\ \/ /\ cancelled
          /\ Settle(r, "cancelled")
       \/ /\ attempt[r] = MaxAttempts
          /\ Settle(r, "permanent")
       \/ /\ attempt[r] < MaxAttempts
          /\ attempt' = [attempt EXCEPT ![r] = @ + 1]
          /\ worker' = [worker EXCEPT ![r] = "none"]
          /\ Go(r, "leased")
          /\ UNCHANGED result
    /\ UNCHANGED <<lease, active, drain, cancelled, late>>

-----------------------------------------------------------------------------
(* Cancellation and Drain.                                                 *)

Cancel ==
    /\ ~cancelled
    /\ cancelled' = TRUE
    /\ DismissSenders("cancelled")
    /\ UNCHANGED <<active, drain, late>>

DrainStart ==
    /\ drainer = "idle"
    /\ draining' = TRUE
    /\ drainer' = "close"
    /\ UNCHANGED <<run, lease, active, drained, victims, killed, cancelled, late>>

DrainForgetsClose ==
    /\ drainer = "close"
    /\ drainer' = "poll"
    /\ UNCHANGED <<run, lease, active, draining, drained, victims, killed, cancelled, late>>

DrainClose ==
    /\ drainer = "close"
    /\ drained' = TRUE
    /\ drainer' = "poll"
    /\ DismissSenders("draining")
    /\ UNCHANGED <<active, draining, victims, killed, cancelled, late>>

\* One pass of the grace loop finds the pool idle.
DrainIdle ==
    /\ drainer = "poll"
    /\ active = {}
    /\ drainer' = "done"
    /\ UNCHANGED <<run, lease, active, draining, drained, victims, killed, cancelled, late>>

\* The grace window is over: snapshot the handles that are still tracked.
DrainDeadline ==
    /\ drainer = "poll"
    /\ victims' = {<<r, attempt[r]>> : r \in active}
    /\ drainer' = "kill"
    /\ UNCHANGED <<run, lease, active, draining, drained, killed, cancelled, late>>

\* Killing a worker that has ended, or was followed by a further attempt, does
\* nothing.
DrainKill ==
    /\ drainer = "kill"
    /\ killed' = killed \cup {r \in Requests : worker[r] = "alive" /\ <<r, attempt[r]>> \in victims}
    /\ victims' = {}
    /\ drainer' = "done"
    /\ UNCHANGED <<run, lease, active, draining, drained, cancelled, late>>

-----------------------------------------------------------------------------

\* What Run does on its own once it has been called.
Progress(r) ==
    \/ Select(r)
    \/ CheckDrain(r)
    \/ Launch(r)
    \/ Track(r)
    \/ Decide(r)
    \/ Wake(r)
    \/ Release(r)

DrainStep == DrainClose \/ DrainIdle \/ DrainDeadline \/ DrainKill

Next ==
    \/ \E r \in Requests : Enter(r) \/ Progress(r) \/ Untrack(r) \/ ContextKills(r) \/ WorkerExits(r)
    \/ Cancel
    \/ DrainStart
    \/ DrainStep

Spec == Init /\ [][Next]_vars

(***************************************************************************)
(* Goroutines and timers go on.  A read error never has to happen.  A      *)
(* worker has to exit only when it was killed: by Drain, or by its         *)
(* context.                                                                *)
(***************************************************************************)
Fairness ==
    /\ \A r \in Requests : WF_vars(Progress(r) \/ (worker[r] # "alive" /\ Untrack(r)))
    /\ \A r \in Requests : WF_vars(ContextKills(r) \/ (r \in killed /\ WorkerExits(r)))
    /\ WF_vars(DrainStep)

FairSpec == Spec /\ Fairness

\* Workers that end on their own, killed or not: what waiting depends on.
Patience == \A r \in Requests : WF_vars(WorkerExits(r))

-----------------------------------------------------------------------------
(* Safety.                                                                 *)

Holders == {r \in Requests : pc[r] \in Leased}

\* Once Drain has begun, a request launches at most the one worker whose check
\* of p.draining came before; no retry and no newly leased request launches.
DrainStopsLaunches == \A r \in Requests : late[r] <= 1

\* What Run returned agrees with how its last worker ended: success only for a
\* clean exit, and no attempt follows a permanent or a clean exit.
ResultFitsWorker ==
    \A r \in Requests :
       /\ worker[r] = "permanent" => pc[r] \in {"launched", "pump", "decide", "release", "returned"}
       /\ result[r] = "ok" <=> pc[r] \in {"release", "returned"} /\ worker[r] = "ok"
       /\ result[r] = "permanent" /\ worker[r] # "permanent" => attempt[r] = MaxAttempts

\* Both: a Run launches no more than it may and reports what came of it.
RunsAreHonest == TypeOK /\ DrainStopsLaunches /\ ResultFitsWorker

\* The pool is a bounded lease: first come, first served, nobody waits while a
\* slot is free, and a slot given back goes to the oldest waiting request.
Lease == INSTANCE BoundedLease WITH
            Clients <- Requests, Capacity <- Size, holders <- Holders, line <- senders

\* Acquire, Release and the hand-over of a Go channel implement it.
PoolIsALease == Lease!Spec

-----------------------------------------------------------------------------
(* Claims of the comments that the interleavings refute.                   *)

\* "Drain stops new work and kills stragglers" (pool.go, Pool): after Drain
\* has returned, every worker that still runs has been killed.
DrainLeavesNoWorker ==
    drainer = "done" => \A r \in Requests : worker[r] = "alive" => r \in killed

-----------------------------------------------------------------------------
(* Liveness, under FairSpec.                                               *)

\* Server.Shutdown cancels the context of every Run before it drains: each then
\* returns and leaves no worker, the queued, the sleeping and those between
\* launch and track included.
ShutdownEmptiesThePool ==
    cancelled ~> \A r \in Requests : pc[r] \in {"idle", "returned"} /\ worker[r] # "alive"

\* Whatever the context does, Drain ends and takes every Run with it but those
\* whose worker it could not see, since it was launched and not yet tracked.
DrainEndsEveryRun ==
    drainer # "idle" ~>
        /\ drainer = "done"
        /\ \A r \in Requests : pc[r] \in {"idle", "returned"} \/ (worker[r] = "alive" /\ r \notin killed)

\* However the daemon stops, with a cancelled context or by Drain alone.
StopEmptiesThePool == ShutdownEmptiesThePool /\ DrainEndsEveryRun

\* When workers end, nobody starves in acquire and no retry goes on for ever:
\* a request is one call of Run, so again and again none is under way.
EveryRunReturns == Patience => []<>(\A r \in Requests : pc[r] \in {"idle", "returned"})
=============================================================================
