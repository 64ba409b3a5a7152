---------------------------- MODULE SessionStore ----------------------------
(***************************************************************************)
(* One session directory of the session store (internal/sessions): the     *)
(* append-only events.jsonl, metadata.json, the checkpoint blobs, and the  *)
(* workspace files that checkpoints capture and rewinds restore.  Several  *)
(* processes (a TUI, an exec run, a CLI rewind) share the directory and    *)
(* serialize their changes with lockSession; any of them can crash at any  *)
(* step, and a write can stop in the middle of a line.                     *)
(*                                                                         *)
(* writeMetadata and writeFileAtomicSync (temp file, fsync, rename, fsync  *)
(* of the directory) are single steps: a crash leaves the old file or the  *)
(* new one.  An append to the log is not: BreakWrite leaves a prefix.      *)
(***************************************************************************)
EXTENDS Integers, Sequences, FiniteSets, SequencesExt, FiniteSetsExt

CONSTANTS Procs,      \* processes that open the session
          Agents,     \* those that run tool calls, one run of the session at a time
          Batchers,   \* the agents that batch checkpoints (TUI); the others capture at once (exec)
          Rewinders,  \* those that rewind
          Others,     \* those that append, retitle, account usage
          Forkers,    \* those that fork the session
          Files,      \* workspace files the tool calls mutate
          Contents,   \* contents such a file can have
          Absent,     \* the file does not exist
          NoProc,     \* nobody holds the session lock
          Titles,     \* titles a session can be given
          ShortWrites,\* a write can stop in the middle of a line
          MaxLines,   \* bound: lines the log may reach
          MaxFaults   \* bound: crashes and broken writes

ASSUME StoreAssumption ==
    /\ Agents \cup Rewinders \cup Others \cup Forkers \subseteq Procs
    /\ NoProc \notin Procs
    /\ Absent \notin Contents
    /\ Batchers \subseteq Agents
    /\ MaxLines \in Nat \ {0}
    /\ MaxFaults \in Nat

VARIABLES log,     \* the complete lines of events.jsonl
          tail,    \* <<>>, or the one unterminated line after them
          meta,    \* metadata.json: EventCount and Title
          blobs,   \* contents stored under checkpoints/blobs
          ws,      \* the workspace files
          lock,    \* the process inside lockSession
          job,     \* what each process is doing
          fork,    \* a fork of this session: the blobs its events name and it has not got
          faults,  \* crashes and broken writes so far
          named,   \* history: the title last written
          acked    \* history: sequences of appends that returned without error

vars == <<log, tail, meta, blobs, ws, lock, job, fork, faults, named, acked>>

-----------------------------------------------------------------------------
(* Lines and events.  An event carries what the properties tell apart: a   *)
(* checkpoint its file and the content it captured, and, as history, the   *)
(* content the edit it guards replaced.                                    *)

NoEdit == "no edit"
Event(n, type) == [seq |-> n, type |-> type, file |-> "", content |-> "",
                   before |-> NoEdit]
Checkpoint(f) == [Event(0, "session_checkpoint") EXCEPT
                      !.file = f, !.content = ws[f]]
Malformed == Event(0, "malformed")
Parses(line) == line.type # "malformed"

\* A complete line that does not parse fails ReadEvents; a last line without
\* its newline is dropped when it does not parse.
Readable == \A i \in DOMAIN log : Parses(log[i])
Events == log \o IF tail # <<>> /\ Parses(tail[1]) THEN tail ELSE <<>>

\* The sequence of the last complete line.  When that line does not parse,
\* ReadEvents fails on it too and the caller falls back to the metadata.
LastEventSequence == IF log = <<>> THEN 0 ELSE Last(log).seq

NextSequence ==
    IF log # <<>> /\ Parses(Last(log)) /\ LastEventSequence >= meta.count + 1
    THEN LastEventSequence + 1
    ELSE meta.count + 1

\* Numbering the events of a batch from a base.
Numbered(batch, base) ==
    [i \in DOMAIN batch |-> [batch[i] EXCEPT !.seq = base + i - 1]]

\* The log after the lines were written: the first of them continues the
\* unterminated line, if there is one, and nothing parses such a line.
Extend(lines) ==
    IF lines = <<>> THEN log
    ELSE log \o [lines EXCEPT ![1] = IF tail = <<>> THEN lines[1] ELSE Malformed]

Referenced(events) ==
    {ev.content : ev \in {e \in ToSet(events) : e.type = "session_checkpoint"}} \ {Absent}

CheckpointsAfter(f, target) ==
    LET events == Events
    IN  {i \in DOMAIN events : /\ events[i].type = "session_checkpoint"
                               /\ events[i].file = f
                               /\ events[i].seq > target}

-----------------------------------------------------------------------------
Idle == [at |-> "idle", meta |-> [count |-> 0, title |-> "none"], batch |-> <<>>,
         target |-> 0, todo |-> {}, disturbed |-> FALSE]

Init ==
    /\ log = <<>> /\ tail = <<>>
    /\ meta = [count |-> 0, title |-> "none"]
    /\ blobs = {}
    /\ ws \in [Files -> Contents \cup {Absent}]
    /\ lock = NoProc
    /\ job = [p \in Procs |-> Idle]
    /\ fork = [at |-> "none", missing |-> {}, raced |-> FALSE]
    /\ faults = 0
    /\ named = "none"
    /\ acked = {}

IsIdle(p) == job[p].at = "idle"
\* lockSession: the in-process mutex and the flock of the session's lock file.
Lock(p) == lock = NoProc /\ lock' = p
Unlock(p) == lock' = IF lock = p THEN NoProc ELSE lock
Room(n) == Len(log) + Len(tail) + n <= MaxLines

\* readMetadata, then the events numbered from the log or the metadata.
PrepareAppend(p, batch) ==
    job' = [job EXCEPT ![p] = [Idle EXCEPT !.at = "write", !.meta = meta,
                                           !.batch = Numbered(batch, NextSequence)]]

\* AppendEvents with one event or with a batch of two.
AppendEvents(p) ==
    /\ p \in Others /\ IsIdle(p)
    /\ \E n \in 1..2 :
         /\ Room(n)
         /\ PrepareAppend(p, [i \in 1..n |-> Event(0, "message")])
    /\ Lock(p)
    /\ UNCHANGED <<log, tail, meta, blobs, ws, fork, faults, named, acked>>

UnlessExistsUnlocked(p) ==
    /\ p \in Others /\ IsIdle(p) /\ Room(1)
    /\ Readable
    /\ ~\E ev \in ToSet(Events) : ev.type = "usage"
    /\ PrepareAppend(p, <<Event(0, "usage")>>)
    /\ UNCHANGED <<lock, log, tail, meta, blobs, ws, fork, faults, named, acked>>

\* AppendEventUnlessExists: the log is read under the lock; an unreadable log
\* or an event already there ends the call with nothing changed.
AppendEventUnlessExists(p) ==
    /\ p \in Others /\ IsIdle(p) /\ Room(1)
    /\ Readable
    /\ ~\E ev \in ToSet(Events) : ev.type = "usage"
    /\ PrepareAppend(p, <<Event(0, "usage")>>)
    /\ Lock(p)
    /\ UNCHANGED <<log, tail, meta, blobs, ws, fork, faults, named, acked>>

\* The whole batch reaches the log and is synced.
WriteLog(p) ==
    /\ job[p].at = "write"
    /\ log' = Extend(job[p].batch)
    /\ tail' = <<>>
    /\ job' = [job EXCEPT ![p].at = "meta"]
    /\ UNCHANGED <<meta, blobs, ws, lock, fork, faults, named, acked>>

\* After a successful append or a failed one, a tool call goes on to its edit.
AfterAppend(p) ==
    [Idle EXCEPT !.at = IF job[p].batch[1].type = "session_checkpoint" /\ p \notin Batchers
                        THEN "tool" ELSE "idle",
                 !.batch = IF job[p].batch[1].type = "session_checkpoint" /\ p \notin Batchers
                           THEN job[p].batch ELSE <<>>]

\* metadata.EventCount follows the log, the lock is released, the call returns.
WriteCount(p) ==
    /\ job[p].at = "meta"
    /\ meta' = [job[p].meta EXCEPT !.count = Last(job[p].batch).seq]
    /\ acked' = acked \cup {job[p].batch[i].seq : i \in DOMAIN job[p].batch}
    /\ job' = [job EXCEPT ![p] = AfterAppend(p)]
    /\ Unlock(p)
    /\ UNCHANGED <<log, tail, blobs, ws, fork, faults, named>>

\* UpdateTitle: read under the lock, then rewritten with the new title.
UpdateTitle(p) ==
    /\ p \in Others /\ IsIdle(p)
    /\ job' = [job EXCEPT ![p] = [Idle EXCEPT !.at = "title", !.meta = meta]]
    /\ Lock(p)
    /\ UNCHANGED <<log, tail, meta, blobs, ws, fork, faults, named, acked>>

WriteTitle(p) ==
    /\ job[p].at = "title"
    /\ \E t \in Titles \ {job[p].meta.title} :
         /\ meta' = [job[p].meta EXCEPT !.title = t]
         /\ named' = t
    /\ job' = [job EXCEPT ![p] = Idle]
    /\ Unlock(p)
    /\ UNCHANGED <<log, tail, blobs, ws, fork, faults, acked>>

-----------------------------------------------------------------------------
(* Checkpoints: before a tool call mutates a file, its content is stored   *)
(* as a blob and an event that names it is appended.                       *)

\* A session has one run at a time; a later one may be of another process.
MayRun(p) ==
    /\ IsIdle(p)
    /\ \A q \in Agents \ {p} :
         ~\E i \in DOMAIN job[q].batch : job[q].batch[i].type = "session_checkpoint"

StoreBlob(f) == blobs' = blobs \cup ({ws[f]} \ {Absent})

CaptureInTwoSteps(p) ==
    /\ p \in Agents \ Batchers /\ MayRun(p)
    /\ \E f \in Files :
         /\ StoreBlob(f)
         /\ job' = [job EXCEPT ![p] = [Idle EXCEPT !.at = "flush",
                                                   !.batch = <<Checkpoint(f)>>]]
    /\ UNCHANGED <<lock, log, tail, meta, ws, fork, faults, named, acked>>

\* CaptureToolCheckpoint: blob and event under one lock.
CaptureToolCheckpoint(p) ==
    /\ p \in Agents \ Batchers /\ MayRun(p) /\ Room(1)
    /\ \E f \in Files : StoreBlob(f) /\ PrepareAppend(p, <<Checkpoint(f)>>)
    /\ Lock(p)
    /\ UNCHANGED <<log, tail, meta, ws, fork, faults, named, acked>>

\* SnapshotForCheckpoint: the blob only, without the lock; the event is kept
\* in memory and flushed after the tool ran.
SnapshotForCheckpoint(p) ==
    /\ p \in Batchers /\ MayRun(p)
    /\ \E f \in Files :
         /\ StoreBlob(f)
         /\ job' = [job EXCEPT ![p] = [Idle EXCEPT !.at = "tool",
                                                   !.batch = <<Checkpoint(f)>>]]
    /\ UNCHANGED <<log, tail, meta, ws, lock, fork, faults, named, acked>>

\* The log with the content an edit replaced noted on the checkpoint of it.
Noted(lines, ckpt) ==
    [i \in DOMAIN lines |->
        IF lines[i] = ckpt THEN [ckpt EXCEPT !.before = ws[ckpt.file]] ELSE lines[i]]

\* The tool call writes, creates or deletes its file; no lock covers it.  History:
\* it and a rewind of another process that overlap disturb each other.
Tool(p) ==
    /\ job[p].at = "tool"
    /\ LET ckpt == job[p].batch[1] IN
         /\ \E c \in (Contents \cup {Absent}) \ {ws[ckpt.file]} :
              ws' = [ws EXCEPT ![ckpt.file] = c]
         /\ log' = IF job[p].disturbed THEN log ELSE Noted(log, ckpt)
         /\ job' = [q \in Procs |->
              IF q # p THEN [job[q] EXCEPT !.disturbed = job[q].at = "restore"]
              ELSE IF p \in Batchers
                   THEN [job[p] EXCEPT !.at = "flush", !.batch = Noted(@, ckpt)]
                   ELSE Idle]
    /\ UNCHANGED <<tail, meta, blobs, lock, fork, faults, named, acked>>

\* The flush at the end of the run, and on cancel.
Flush(p) ==
    /\ job[p].at = "flush" /\ Room(2)
    /\ PrepareAppend(p, job[p].batch \o <<Event(0, "message")>>)
    /\ Lock(p)
    /\ UNCHANGED <<log, tail, meta, blobs, ws, fork, faults, named, acked>>

-----------------------------------------------------------------------------
(* ApplyRewind: restore, truncate, prune and the marker under one lock.    *)

ApplyRewind(p) ==
    /\ p \in Rewinders /\ IsIdle(p) /\ Room(1)
    /\ Readable /\ Events # <<>>
    /\ \E target \in 0..Last(Events).seq :
         job' = [q \in Procs |->
                  IF q = p
                  THEN [Idle EXCEPT !.at = "restore", !.target = target,
                          !.todo = {f \in Files : CheckpointsAfter(f, target) # {}}]
                  ELSE [job[q] EXCEPT !.disturbed = job[q].at = "tool"]]
    /\ Lock(p)
    /\ UNCHANGED <<log, tail, meta, blobs, ws, fork, faults, named, acked>>

NewestCheckpoint(f, target) == Events[Max(CheckpointsAfter(f, target))]

\* The checkpoint of a file closest to the target wins.
Closest(f, target) == Events[Min(CheckpointsAfter(f, target))]

\* One file: written from its blob, deleted, or skipped when the blob is gone.
RestoreFile(p) ==
    /\ job[p].at = "restore"
    /\ \E f \in job[p].todo :
         LET c == Closest(f, job[p].target).content IN
         /\ ws' = IF c \in blobs \cup {Absent} THEN [ws EXCEPT ![f] = c] ELSE ws
         /\ job' = [job EXCEPT ![p].todo = @ \ {f}]
    /\ UNCHANGED <<log, tail, meta, blobs, lock, fork, faults, named, acked>>

\* The elements of s at the places of I, in their order.
Chosen(s, I) ==
    [k \in 1..Cardinality(I) |-> s[CHOOSE i \in I : Cardinality({j \in I : j <= i}) = k]]

KeptBefore(target) ==
    LET events == Events
    IN  Chosen(events, {i \in DOMAIN events : events[i].seq < target})

Kept(target) ==
    LET events == Events
    IN  Chosen(events, {i \in DOMAIN events : events[i].seq <= target})

\* truncateEventsLocked: the log is replaced ...
TruncateLog(p) ==
    /\ job[p].at = "restore" /\ job[p].todo = {}
    /\ log' = Kept(job[p].target)
    /\ tail' = <<>>
    /\ acked' = {n \in acked : n <= job[p].target}
    /\ job' = [job EXCEPT ![p].at = "recount"]
    /\ UNCHANGED <<meta, blobs, ws, lock, fork, faults, named>>

\* ... and then the metadata, with the number of events kept.
TruncateCount(p) ==
    /\ job[p].at = "recount"
    /\ meta' = [meta EXCEPT !.count = Len(log)]
    /\ job' = [job EXCEPT ![p].at = "prune"]
    /\ UNCHANGED <<log, tail, blobs, ws, lock, fork, faults, named, acked>>

\* A fork that is being copied may lose blobs it has read the references of.
RaceFork == fork' = [fork EXCEPT !.raced = @ \/ fork.at = "copying"]

\* pruneOrphanBlobsLocked, then the marker is prepared.
PruneOrphanBlobs(p) ==
    /\ job[p].at = "prune"
    /\ blobs' = blobs \cap Referenced(Events)
    /\ PrepareAppend(p, <<Event(0, "session_rewind")>>)
    /\ RaceFork
    /\ UNCHANGED <<log, tail, meta, ws, lock, faults, named, acked>>

-----------------------------------------------------------------------------
(* Fork: the parent's events are read and its blobs copied without the     *)
(* parent's lock.                                                          *)

ForkRead(p) ==
    /\ p \in Forkers /\ fork.at = "none"
    /\ Readable
    /\ fork' = [at |-> "copying", missing |-> Referenced(Events), raced |-> FALSE]
    /\ UNCHANGED <<log, tail, meta, blobs, ws, lock, job, faults, named, acked>>

ForkCopyBlobs(p) ==
    /\ p \in Forkers /\ fork.at = "copying"
    /\ fork' = [fork EXCEPT !.at = "done", !.missing = @ \ blobs]
    /\ UNCHANGED <<log, tail, meta, blobs, ws, lock, job, faults, named, acked>>

-----------------------------------------------------------------------------
(* Faults.                                                                 *)

Fault == faults < MaxFaults /\ faults' = faults + 1

\* A process dies; the kernel releases its flock.
Crash(p) ==
    /\ Fault /\ ~IsIdle(p)
    /\ job' = [job EXCEPT ![p] = Idle]
    /\ Unlock(p)
    /\ UNCHANGED <<log, tail, meta, blobs, ws, fork, named, acked>>

\* The append fails before it wrote, or in the middle: some whole lines, and
\* of the next line a part or all but its newline.  The call returns its error
\* (the process may also die: Crash) and nothing removes what was written.
BreakWrite(p) ==
    /\ Fault /\ job[p].at = "write"
    /\ \/ UNCHANGED <<log, tail>>
       \/ /\ ShortWrites
          /\ \E k \in 0..(Len(job[p].batch) - 1) :
               /\ log' = Extend(SubSeq(job[p].batch, 1, k))
               /\ tail' \in {<<Malformed>>} \cup
                    (IF k = 0 /\ tail # <<>> THEN {} ELSE {<<job[p].batch[k + 1]>>})
    /\ job' = [job EXCEPT ![p] = AfterAppend(p)]
    /\ Unlock(p)
    /\ UNCHANGED <<meta, blobs, ws, fork, named, acked>>

\* The log was written and the sync or the metadata write failed.
BreakSync(p) ==
    /\ Fault /\ job[p].at = "meta"
    /\ job' = [job EXCEPT ![p] = AfterAppend(p)]
    /\ Unlock(p)
    /\ UNCHANGED <<log, tail, meta, blobs, ws, fork, named, acked>>

Next == \E p \in Procs :
    \/ AppendEvents(p) \/ AppendEventUnlessExists(p) \/ WriteLog(p) \/ WriteCount(p)
    \/ UpdateTitle(p) \/ WriteTitle(p)
    \/ CaptureToolCheckpoint(p) \/ SnapshotForCheckpoint(p) \/ Tool(p) \/ Flush(p)
    \/ ApplyRewind(p) \/ RestoreFile(p) \/ TruncateLog(p) \/ TruncateCount(p)
    \/ PruneOrphanBlobs(p)
    \/ ForkRead(p) \/ ForkCopyBlobs(p)
    \/ Crash(p) \/ BreakWrite(p) \/ BreakSync(p)

Spec == Init /\ [][Next]_vars

-----------------------------------------------------------------------------
Line == [seq : Nat,
         type : {"message", "usage", "session_checkpoint", "session_rewind", "malformed"},
         file : Files \cup {""}, content : Contents \cup {Absent, ""},
         before : Contents \cup {Absent, NoEdit}]

Metadata == [count : Nat, title : Titles \cup {"none"}]

Job == [at : {"idle", "write", "meta", "title", "tool", "flush", "restore", "recount", "prune"},
        meta : Metadata, batch : Seq(Line), target : Nat, todo : SUBSET Files,
        disturbed : BOOLEAN]

\* The shape of the state: lines, metadata and jobs are what the code writes.
TypeOK ==
    /\ log \in Seq(Line) /\ tail \in Seq(Line) /\ Len(tail) <= 1
    /\ meta \in Metadata
    /\ blobs \subseteq Contents
    /\ ws \in [Files -> Contents \cup {Absent}]
    /\ lock \in Procs \cup {NoProc}
    /\ job \in [Procs -> Job]
    /\ fork \in [at : {"none", "copying", "done"}, missing : SUBSET Contents,
                 raced : BOOLEAN]
    /\ faults \in 0..MaxFaults
    /\ named \in Titles \cup {"none"}
    /\ acked \subseteq Nat

\* As long as the log can be read, the sequences of its events increase: no
\* crash between the log and the metadata, and no rewind, makes the next
\* append reuse a number (store.go, appendPreparedEventsLocked).
SequencesIncrease ==
    LET events == Events
    IN  Readable => \A i \in 2..Len(events) : events[i - 1].seq < events[i].seq

\* Two callers, in two processes or in two attempts, never both record the
\* event that AppendEventUnlessExists guards.
UsageIsRecordedOnce ==
    LET events == Events
        usage == {i \in DOMAIN events : events[i].type = "usage"}
    IN  Readable => Cardinality(usage) <= 1

\* An event whose append returned without error is read back until a rewind
\* drops it: no concurrent rewind or append loses it.
AcknowledgedEventsSurvive ==
    LET events == Events
    IN  Readable => acked \subseteq {events[i].seq : i \in DOMAIN events}

\* A log that can be read has what was acknowledged, in the order it was given.
EventsAreKept == SequencesIncrease /\ AcknowledgedEventsSurvive

\* Nobody's rewrite of the metadata loses somebody else's: the title last
\* written stays, and without faults the count is that of the log.
MetadataIsNotClobbered ==
    lock = NoProc =>
        /\ meta.title = named
        /\ faults = 0 => meta.count = Len(log)

\* The writers of a session are serialised by its lock: what one looked at
\* before it writes is still so when it writes.
WritersAreSerialised == TypeOK /\ UsageIsRecordedOnce /\ MetadataIsNotClobbered

\* The contract of SnapshotForCheckpoint (checkpoint.go): a prune between the blob
\* of a batched checkpoint and its event would take the blob, so where checkpoints
\* are batched only the process that batches them, which flushes before it rewinds,
\* rewinds.  The rewind of the command line, in a process of its own, does not keep it.
SnapshotContract == \A b \in Batchers : Rewinders \subseteq {b}

\* Every checkpoint in the log has its blob: prune never runs between the
\* blob of a capture and its event.  A batched checkpoint is safe only under
\* SnapshotContract.
CheckpointsHaveBlobs == Referenced(Events) \subseteq blobs

\* When a rewind has restored the files, each file holds what it held before
\* the edit that the first checkpoint after the target guards: the whole chain
\* of later edits is undone, also when an earlier rewind was cut short.  The files
\* are not locked, so this leaves out tool calls of another process that overlap
\* a rewind.
RewindUndoesEdits ==
    \A p \in Procs : job[p].at = "restore" /\ job[p].todo = {} /\ ~job[p].disturbed =>
        \A f \in Files : CheckpointsAfter(f, job[p].target) # {} =>
            LET later == CheckpointsAfter(f, job[p].target)
                edits == {i \in later : Events[i].before # NoEdit}
            IN  (\E i \in edits : \A j \in later : i <= j)
                  => ws[f] = Events[Min(edits)].before

\* copyBlobs (checkpoint.go): a fork "carries the parent's content-addressed
\* blobs and a rewind on the fork can restore file content", unless a rewind of
\* the parent prunes blobs between the two unlocked reads.
ForkCarriesItsBlobs ==
    fork.at = "done" /\ ~fork.raced => fork.missing = {}

\* No checkpoint that a rewind may use, in the session or in a fork of it, has
\* lost its blob.
BlobsAreKept == CheckpointsHaveBlobs /\ ForkCarriesItsBlobs

-----------------------------------------------------------------------------
\* ReadEvents (store.go): a crash in the middle of an append costs the
\* partial record only, "so resume still recovers every complete event".
LogStaysReadable == Readable

\* lastEventSequence (store.go): a crash between the event append and the
\* metadata write "can never cause a reused (duplicate) sequence".
SequencesAreNeverReused ==
    \A i, j \in DOMAIN log :
        i # j /\ Parses(log[i]) /\ Parses(log[j]) => log[i].seq # log[j].seq
=============================================================================
