--------------------------- MODULE ProcessManager ---------------------------
(***************************************************************************)
(* The background terminals of internal/execution/process_manager.go:      *)
(* exec_command starts a process and yields when it ends or the wait is    *)
(* over, write_stdin continues it, the user stops it, and a full table     *)
(* evicts the least recently used one.                                     *)
(*                                                                         *)
(* A call holds no lock while it collects: the output buffer, the process  *)
(* and the table have a mutex each, and one action is one of their         *)
(* critical sections.  Output is counted in units, Cap to a full buffer.   *)
(***************************************************************************)
EXTENDS Naturals, Sequences, FiniteSets

CONSTANTS MaxStarts,     \* bound on the processes started
          Ttys,          \* those that get a pseudo terminal
          Callers,       \* agents, one tool call at a time each
          MaxProcesses,  \* defaultMaxProcesses
          EvictAbove,    \* 8: a smaller table evicts nobody
          Cap            \* maxPendingOutputBytes

ASSUME ProcessManagerAssumption ==
    /\ MaxStarts \in Nat
    /\ MaxProcesses \in Nat \ {0}
    /\ EvictAbove \in Nat
    /\ Cap \in Nat \ {0}
    /\ IsFiniteSet(Callers)
    /\ Cardinality(Callers) <= Cap + 1  \* a notice of each other caller fits in

Procs == 1..MaxStarts

VARIABLES
    life,    \* "killed": SIGKILL is on its way, "reaped": Wait returned,
             \* "exited": exitCode is set, "done": done is closed
    buffer,  \* its undrained output, with the notice of an eviction
    trunc,   \* the buffer's truncated flag
    table,   \* manager.processes
    earlier, \* of each of those, and of the ones to be stored, which were used before
    pc,      \* where each call is
    fresh,   \* it is a Start that has not been seen cancelled
    on,      \* its process
    aims,    \* the process it has yet to terminate
    cut,     \* its OutputTruncated
    saw      \* it found done closed before its last drain

proc == <<life, buffer, trunc>>
list == <<table, earlier>>
call == <<pc, fresh, on, aims, cut, saw>>
vars == <<proc, list, call>>

None == 0

\* The processes whose time of use matters: the listed and those about to be.
Dated == table \cup {on[c] : c \in {d \in Callers : pc[d] = "store"}}

\* No two were used at the same time.
TimesAreOrdered ==
    /\ \A p, q \in Dated : p \in earlier[q] <=> p # q /\ q \notin earlier[p]
    /\ \A p, q \in Procs : p \in earlier[q] => q \in Dated /\ earlier[p] \subseteq earlier[q]

TypeOK ==
    /\ life \in [Procs -> {"unborn", "running", "killed", "reaped", "exited", "done"}]
    /\ buffer \in [Procs -> Seq({"out", "note"})]
    /\ \A p \in Procs : Len(buffer[p]) <= Cap
    /\ trunc \in [Procs -> BOOLEAN]
    /\ table \subseteq Procs
    /\ earlier \in [Procs -> SUBSET Dated]
    /\ TimesAreOrdered
    /\ pc \in [Callers -> {"idle", "store", "note", "kill", "input", "drain",
                           "mark", "wait", "last", "lastmark", "report", "remove"}]
    /\ fresh \in [Callers -> BOOLEAN]
    /\ on \in [Callers -> Procs \cup {None}]
    /\ aims \in [Callers -> SUBSET Procs]
    /\ cut \in [Callers -> BOOLEAN]
    /\ saw \in [Callers -> BOOLEAN]

Init ==
    /\ life = [p \in Procs |-> "unborn"]
    /\ buffer = [p \in Procs |-> <<>>]
    /\ trunc = [p \in Procs |-> FALSE]
    /\ table = {}
    /\ earlier = [p \in Procs |-> {}]
    /\ pc = [c \in Callers |-> "idle"]
    /\ fresh = [c \in Callers |-> FALSE]
    /\ on = [c \in Callers |-> None]
    /\ aims = [c \in Callers |-> {}]
    /\ cut = [c \in Callers |-> FALSE]
    /\ saw = [c \in Callers |-> FALSE]

\* lastUsedAt is set to now.
Touch(p) == earlier' = [q \in Procs |-> IF q = p THEN Dated \ {p} ELSE earlier[q] \ {p}]

\* Processes leave the table.
Drop(gone) == earlier' = [q \in Procs |-> IF q \in gone THEN {} ELSE earlier[q] \ gone]

Go(c, to) == pc' = [pc EXCEPT ![c] = to]

Return(c) ==
    /\ Go(c, "idle")
    /\ fresh' = [fresh EXCEPT ![c] = FALSE]
    /\ on' = [on EXCEPT ![c] = None]
    /\ aims' = [aims EXCEPT ![c] = {}]
    /\ cut' = [cut EXCEPT ![c] = FALSE]
    /\ saw' = [saw EXCEPT ![c] = FALSE]

\* processOutputBuffer.Write keeps the newest Cap units.
Append1(p, unit) ==
    LET all == Append(buffer[p], unit)
        full == Len(all) > Cap
    IN /\ buffer' = [buffer EXCEPT ![p] = IF full THEN Tail(all) ELSE all]
       /\ trunc' = [trunc EXCEPT ![p] = @ \/ full]

-----------------------------------------------------------------------------
(* Start.                                                                  *)

\* The transport starts the process, which gets the next id and its time of use.
Begin(c, p) ==
    /\ pc[c] = "idle"
    /\ life[p] = "unborn" /\ \A q \in 1..(p - 1) : life[q] # "unborn"
    /\ life' = [life EXCEPT ![p] = "running"]
    /\ Touch(p)
    /\ on' = [on EXCEPT ![c] = p]
    /\ fresh' = [fresh EXCEPT ![c] = TRUE]
    /\ Go(c, "store")
    /\ UNCHANGED <<buffer, trunc, table, aims, cut, saw>>

Lives(p) == life[p] \in {"running", "killed"}
Done(p) == life[p] = "done"
LeastUsed(set) == {p \in set : earlier[p] \cap set = {}}

\* processToPruneLocked: the first that is done, or the first of a large table.
ToPrune ==
    LET ended == {p \in table : Done(p)}
    IN IF ended # {} THEN LeastUsed(ended)
       ELSE IF Cardinality(table) > EvictAbove THEN LeastUsed(table) ELSE {}

StoreDropsTheEvicted(c) ==
    /\ pc[c] = "store"
    /\ LET pruned == IF Cardinality(table) >= MaxProcesses THEN ToPrune ELSE {}
       IN /\ table' = (table \ pruned) \cup {on[c]}
          /\ Drop(table \ table')
          /\ aims' = [aims EXCEPT ![c] = {p \in pruned : ~Done(p)}]
          /\ Go(c, IF aims'[c] = {} THEN "drain" ELSE "note")
    /\ UNCHANGED <<proc, fresh, on, cut, saw>>

\* store: a pruned process that is done leaves the table, a live one is evicted.
Store(c) ==
    /\ pc[c] = "store"
    /\ LET pruned == IF Cardinality(table) >= MaxProcesses THEN ToPrune ELSE {}
       IN /\ table' = (table \ {p \in pruned : Done(p)}) \cup {on[c]}
          /\ Drop(table \ table')
          /\ aims' = [aims EXCEPT ![c] = {p \in pruned : ~Done(p)}]
          /\ Go(c, IF aims'[c] = {} THEN "drain" ELSE "note")
    /\ UNCHANGED <<proc, fresh, on, cut, saw>>

\* The evicted process is told, and terminated, after the table is unlocked.
Note(c) ==
    /\ pc[c] = "note"
    /\ \E p \in aims[c] : Append1(p, "note")
    /\ Go(c, "kill")
    /\ UNCHANGED <<life, list, fresh, on, aims, cut, saw>>

-----------------------------------------------------------------------------
(* terminate: SIGKILL to the group of a process that has not been reaped.   *)
(* One that is reaped between the look and the signal is not there any     *)
(* more for the signal either.                                             *)

Signalled(l) == IF l = "running" THEN "killed" ELSE l

Terminate(c) ==
    /\ pc[c] = "kill"
    /\ \E p \in aims[c] :
          /\ life' = [life EXCEPT ![p] = Signalled(@)]
          /\ aims' = [aims EXCEPT ![c] = @ \ {p}]
    /\ Go(c, "drain")
    /\ UNCHANGED <<buffer, trunc, list, fresh, on, cut, saw>>

-----------------------------------------------------------------------------
(* Continue and Stop.                                                      *)

\* get and touch, which nothing tells apart; then a poll, an interrupt, or input,
\* which is refused unless the process has a terminal.
Continue(c, p) ==
    /\ pc[c] = "idle" /\ p \in table
    /\ Touch(p)
    /\ \/ /\ Go(c, "drain") /\ on' = [on EXCEPT ![c] = p] /\ UNCHANGED aims
       \/ /\ Go(c, "kill") /\ on' = [on EXCEPT ![c] = p] /\ aims' = [aims EXCEPT ![c] = {p}]
       \/ /\ p \in Ttys
          /\ Go(c, "input") /\ on' = [on EXCEPT ![c] = p] /\ UNCHANGED aims
       \/ p \notin Ttys /\ UNCHANGED <<pc, on, aims>>
    /\ UNCHANGED <<proc, table, fresh, cut, saw>>

\* The write to the terminal knows no deadline and no context: it returns when
\* the process has read enough.
InputTaken(c) ==
    /\ pc[c] = "input" /\ (Lives(on[c]) \/ life[on[c]] = "reaped")
    /\ Go(c, "drain")
    /\ UNCHANGED <<proc, list, fresh, on, aims, cut, saw>>

\* Once the process has ended the write fails; that is an error of the call
\* unless done is closed.
InputFails(c) ==
    /\ pc[c] = "input" /\ ~Lives(on[c])
    /\ \/ /\ Done(on[c])
          /\ Go(c, "drain")
          /\ UNCHANGED <<fresh, on, aims, cut, saw>>
       \/ /\ ~Done(on[c])
          /\ Return(c)
    /\ UNCHANGED <<life, buffer, trunc, list>>

\* Stop by the user.  A process that was found and runs is still listed when it
\* is terminated, so that one step stands for both, and StopAll is a Stop of
\* each that was listed.
Stop(p) ==
    /\ p \in table /\ life[p] = "running"
    /\ life' = [life EXCEPT ![p] = "killed"]
    /\ UNCHANGED <<buffer, trunc, list, call>>

-----------------------------------------------------------------------------
(* collectResult.                                                          *)

\* A drain; appendBoundedProcessOutput may have to drop what the call had before.
Collect(c, next) ==
    LET chunk == buffer[on[c]]
    IN /\ buffer' = [buffer EXCEPT ![on[c]] = <<>>]
       /\ \E over \in {FALSE, chunk # <<>>} : cut' = [cut EXCEPT ![c] = @ \/ over]
       /\ Go(c, next)
       /\ UNCHANGED <<life, trunc, list, fresh, on, aims, saw>>

Drain(c) == pc[c] = "drain" /\ Collect(c, "mark")
LastDrain(c) == pc[c] = "last" /\ Collect(c, "lastmark")

\* consumeTruncated, in a section of its own after each drain.
Mark(c) ==
    /\ \/ pc[c] = "mark" /\ Go(c, "wait")
       \/ pc[c] = "lastmark" /\ Go(c, "report")
    /\ cut' = [cut EXCEPT ![c] = @ \/ trunc[on[c]]]
    /\ trunc' = [trunc EXCEPT ![on[c]] = FALSE]
    /\ UNCHANGED <<life, buffer, list, fresh, on, aims, saw>>

SeeDoneAndReport(c) ==
    /\ pc[c] = "wait" /\ Done(on[c])
    /\ saw' = [saw EXCEPT ![c] = TRUE]
    /\ Go(c, "report")
    /\ UNCHANGED <<proc, list, fresh, on, aims, cut>>

\* The process is done, the deadline has passed or the context is cancelled, or
\* there is more to collect.
SeeDone(c) ==
    /\ pc[c] = "wait" /\ Done(on[c])
    /\ saw' = [saw EXCEPT ![c] = TRUE]
    /\ Go(c, "last")
    /\ UNCHANGED <<proc, list, fresh, on, aims, cut>>

Expire(c) ==
    /\ pc[c] = "wait"
    /\ Go(c, "last")
    /\ UNCHANGED <<proc, list, fresh, on, aims, cut, saw>>

Wake(c) ==
    /\ pc[c] = "wait" /\ buffer[on[c]] # <<>>
    /\ Go(c, "drain")
    /\ UNCHANGED <<proc, list, fresh, on, aims, cut, saw>>

HasExitCode(p) == life[p] \in {"exited", "done"}

\* The exit code is read after the drain.  A start that was cancelled, and has
\* not seen an exit, terminates the process and collects once more.
Report(c) ==
    /\ pc[c] = "report"
    /\ \/ /\ HasExitCode(on[c])
          /\ Go(c, "remove")
          /\ UNCHANGED <<fresh, on, aims, cut, saw>>
       \/ /\ ~HasExitCode(on[c])
          /\ Return(c)
       \/ /\ ~HasExitCode(on[c]) /\ fresh[c]
          /\ fresh' = [fresh EXCEPT ![c] = FALSE]
          /\ aims' = [aims EXCEPT ![c] = {on[c]}]
          /\ Go(c, "kill")
          /\ UNCHANGED <<on, cut, saw>>
    /\ UNCHANGED <<life, buffer, trunc, list>>

RemoveExited(c) ==
    /\ pc[c] = "remove"
    /\ table' = table \ {on[c]}
    /\ Drop({on[c]})
    /\ Return(c)
    /\ UNCHANGED <<life, buffer, trunc>>

-----------------------------------------------------------------------------
(* The process, and the goroutine that waits for it.                       *)

\* Output comes until Wait returns; after it the denial report of AfterWait
\* and what a pseudo terminal still holds.
Write(p) ==
    /\ life[p] \in {"running", "killed", "reaped"}
    /\ Append1(p, "out")
    /\ UNCHANGED <<life, list, call>>

Becomes(p, from, to) ==
    /\ life[p] \in from
    /\ life' = [life EXCEPT ![p] = to]
    /\ UNCHANGED <<buffer, trunc, list, call>>

Reap(p) == Becomes(p, {"running", "killed"}, "reaped")

\* markDone sets the exit code and then, unlocked, closes done.
SetExitCode(p) == Becomes(p, {"reaped"}, "exited")
CloseDone(p) == Becomes(p, {"exited"}, "done")

\* removeCompletedLater, completedRetention after the end.
Forget(p) ==
    /\ Done(p) /\ p \in table
    /\ table' = table \ {p}
    /\ Drop({p})
    /\ UNCHANGED <<proc, call>>

-----------------------------------------------------------------------------

Calls(c) ==
    \/ Store(c) \/ Note(c) \/ Terminate(c) \/ InputFails(c)
    \/ Drain(c) \/ LastDrain(c) \/ Mark(c) \/ SeeDone(c) \/ Wake(c) \/ Report(c) \/ RemoveExited(c)

Next ==
    \/ \E c \in Callers :
          \/ \E p \in Procs : Begin(c, p) \/ Continue(c, p)
          \/ Calls(c) \/ InputTaken(c) \/ Expire(c)
    \/ \E p \in Procs : Write(p) \/ Stop(p) \/ Reap(p) \/ SetExitCode(p) \/ CloseDone(p) \/ Forget(p)

Spec == Init /\ [][Next]_vars

-----------------------------------------------------------------------------
(* Properties.                                                             *)

HasOutput(p) == \E k \in DOMAIN buffer[p] : buffer[p][k] = "out"

\* A call that found done closed and reports the exit leaves no output behind,
\* nor a loss of output to be told: what the process wrote, the denial report
\* included, is in a result before the process is removed.
ExitLeavesNothing ==
    \A c \in Callers : pc[c] \in {"report", "remove"} /\ saw[c] =>
        ~HasOutput(on[c]) /\ ~trunc[on[c]]

\* That output was dropped is never forgotten on the way: the flag of the buffer
\* goes to a call under way, whose result carries it to its end.
LossIsAnnounced ==
    [][/\ \A p \in Procs : trunc[p] /\ ~trunc'[p] => \E c \in Callers : on[c] = p /\ cut'[c]
       /\ \A c \in Callers : cut[c] /\ ~cut'[c] => pc'[c] = "idle"]_vars

OutputIsComplete == [](TypeOK /\ ExitLeavesNothing) /\ LossIsAnnounced

\* /ps and /stop reach every process that runs: it is listed, from the moment
\* its starter has stored it until its end, whoever was evicted meanwhile.
LiveProcessesAreListed ==
    \A p \in Procs : life[p] \in {"running", "killed", "reaped"} =>
        p \in table \/ \E c \in Callers : pc[c] = "store" /\ on[c] = p

-----------------------------------------------------------------------------
(* Claims that the interleavings refute.                                   *)

\* "output was lost or duplicated" (process_manager_test.go): the result with
\* the exit has all that was left of the output.
ExitMeansComplete ==
    \A c \in Callers : pc[c] = "remove" => ~HasOutput(on[c])

\* "session evicted: too many background terminals": no more than MaxProcesses
\* run without having been told to go.  It takes three starts.
TerminalsAreBounded ==
    Cardinality({p \in table : life[p] = "running"})
        <= MaxProcesses + Cardinality({c \in Callers : pc[c] \in {"note", "kill"}})

\* A process that a call has just turned to is not the least recently used one.
EvictionSparesTheUsed ==
    \A c, d \in Callers :
        pc[c] = "kill" /\ fresh[c] /\ c # d => on[d] \notin aims[c]
=============================================================================
