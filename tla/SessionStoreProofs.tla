--------------------------- MODULE SessionStoreProofs ---------------------------
(***************************************************************************)
(* Theorems about SessionStore, for every set of processes in every role,  *)
(* of files, contents and titles, every length of the log and number of    *)
(* faults, with writes that stop in the middle of a line.  The invariant   *)
(* comes in layers, each with its own step lemmas: Shape, Numbers, Title   *)
(* and Counts, Blobs, FilesAndLines.                                       *)
(***************************************************************************)
EXTENDS SessionStore, FiniteSetTheorems, SequenceTheorems, WellFoundedInduction, TLAPS

USE StoreAssumption

-----------------------------------------------------------------------------
(* The invariant.                                                          *)

\* What p is doing while it is inside lockSession.
Locked == {"write", "meta", "title", "restore", "recount", "prune"}

\* The steps of a rewind.
Rewinding == {"restore", "recount", "prune"}

\* A line that is a checkpoint.
IsCheckpoint(line) == line.type = "session_checkpoint"

\* A line as the code writes it.
LineFits(line) ==
    /\ line \in Line
    /\ IsCheckpoint(line) => line.file \in Files /\ line.content \in Contents \cup {Absent}

\* Process p carries a checkpoint.
Carries(j) == j.batch # <<>> /\ IsCheckpoint(j.batch[1])

\* What the job of a process p may be.
JobFits(p, j) ==
    /\ j \in Job
    /\ j.at \in {"write", "meta", "tool", "flush"} <=> j.batch # <<>>
    /\ \A i \in 1..Len(j.batch) : /\ LineFits(j.batch[i]) /\ Parses(j.batch[i])
                                  /\ IsCheckpoint(j.batch[i]) => i = 1 /\ p \in Agents
    /\ j.at \in {"tool", "flush"} => Carries(j)
    /\ j.at = "flush" => p \in Batchers
    /\ j.at \in {"tool", "flush"} /\ p \in Batchers => Len(j.batch) = 1
    /\ j.at \in Rewinding => p \in Rewinders

\* The types of the state, the lock, and one run at a time.
Shape ==
    /\ TypeOK
    /\ \A i \in 1..Len(log) : LineFits(log[i])
    /\ \A i \in 1..Len(tail) : LineFits(tail[i])
    /\ \A p \in Procs : /\ JobFits(p, job[p])
                        /\ job[p].at \in Locked <=> lock = p
                        /\ job[p].at \in Rewinding => Readable
    /\ \A p, q \in Procs : Carries(job[p]) /\ Carries(job[q]) => p = q

\* The numbers of events increase.
Increasing(events) == \A i, j \in 1..Len(events) : i < j => events[i].seq < events[j].seq

\* There is an event of this type.
Has(events, type) == \E i \in 1..Len(events) : events[i].type = type

\* The numbers of a batch that is to be written.
BatchFollows(j) ==
    /\ \A i \in 1..Len(j.batch) : j.batch[i].seq = j.batch[1].seq + i - 1
    /\ Readable /\ tail = <<>> => \A i \in 1..Len(log) : log[i].seq < j.batch[1].seq
    /\ \A i \in 1..Len(j.batch) : j.batch[i].type = "usage" =>
          Len(j.batch) = 1 /\ (Readable => ~Has(Events, "usage"))

\* A batch that is in the log.
BatchWritten(j) ==
    Readable => \A i \in 1..Len(j.batch) : \E k \in 1..Len(log) : log[k].seq = j.batch[i].seq

\* The numbers of the log, of what was acknowledged and of what is to be written;
\* and one usage event at most.
Numbers ==
    /\ Readable => /\ Increasing(Events)
                   /\ \A n \in acked : \E k \in 1..Len(log) : log[k].seq = n
                   /\ \A i, k \in 1..Len(Events) : Events[i].type = "usage" /\ Events[k].type = "usage" => i = k
    /\ \A p \in Procs : /\ job[p].at = "write" => BatchFollows(job[p])
                        /\ job[p].at = "meta" => BatchWritten(job[p])

\* A job that is to write the metadata has the title from them.
Titled(j) == j.at \in {"write", "meta", "title"} => j.meta.title = named

\* Nobody is about to write an older title.
Title ==
    /\ meta.title = named
    /\ \A p \in Procs : Titled(job[p])

\* Without faults, a job writes what follows the log, and then its count.
Counted(j) ==
    /\ j.at = "write" => j.batch[1].seq = Len(log) + 1
    /\ j.at = "meta" => j.batch[Len(j.batch)].seq = Len(log)
    /\ j.at = "title" => j.meta.count = Len(log)

\* Where the count of the metadata has still to follow the log.
Counting == {"meta", "recount"}

\* As long as nothing failed, numbers are places and the count is that of the log.
Counts ==
    faults = 0 =>
        /\ tail = <<>> /\ Readable
        /\ \A i \in 1..Len(log) : log[i].seq = i
        /\ meta.count = Len(log) \/ \E p \in Procs : job[p].at \in Counting
        /\ \A p \in Procs : Counted(job[p])

\* What is named has its blob: by the log, by a batch to be written or kept for later,
\* and by a fork that no prune has raced.
Blobs ==
    /\ Referenced(Events) \subseteq blobs
    /\ \A p \in Procs : job[p].at = "write" \/ p \in Batchers => Referenced(job[p].batch) \subseteq blobs
    /\ fork.at = "copying" /\ ~fork.raced => fork.missing \subseteq blobs
    /\ fork.at = "done" /\ ~fork.raced => fork.missing = {}

\* The file of p's checkpoint still holds what it captured.
Untouched(j) == ws[j.batch[1].file] = j.batch[1].content

\* A file holds what the checkpoint of it closest to the target captured.
Restored(j, f) ==
    \A i \in CheckpointsAfter(f, j.target) :
       (\A k \in CheckpointsAfter(f, j.target) : i <= k) => ws[f] = Events[i].content

\* An edit replaced what its checkpoint captured.
LineIsTrue(line) == IsCheckpoint(line) => line.before \in {NoEdit, line.content}

\* In the log, in a torn line and in every batch.
LinesAreTrue ==
    /\ \A i \in 1..Len(log) : LineIsTrue(log[i])
    /\ \A i \in 1..Len(tail) : LineIsTrue(tail[i])
    /\ \A p \in Procs : \A i \in 1..Len(job[p].batch) : LineIsTrue(job[p].batch[i])

\* The checkpoint of a job whose edit is still to come.
Awaits(p, j) ==
    Carries(j) /\ (j.at = "tool" \/ (p \notin Batchers /\ j.at \in {"write", "meta"}))

\* Nobody but a rewind that overlaps comes between a capture and its edit.
Guarded(p, j) ==
    /\ Awaits(p, j) /\ ~j.disturbed => Untouched(j)
    /\ j.at = "tool" /\ p \in Batchers => ~j.disturbed
    /\ j.at \in {"write", "meta"} => ~j.disturbed

\* What a rewind has restored so far stays restored, unless an edit overlaps.
FilesFit ==
    \A p \in Procs :
      /\ Guarded(p, job[p])
      /\ job[p].at = "tool" /\ ~job[p].disturbed => \A q \in Procs : job[q].at # "restore"
      /\ job[p].at = "restore" /\ ~job[p].disturbed
            => \A f \in Files \ job[p].todo : Restored(job[p], f)
-----------------------------------------------------------------------------
(* The operators.                                                          *)

\* An event that is not a checkpoint is a line.
LEMMA EventFits ==
  ASSUME NEW n \in Nat, NEW t \in {"message", "usage", "session_rewind", "malformed"}
  PROVE  /\ Event(n, t) \in Line /\ LineFits(Event(n, t)) /\ ~IsCheckpoint(Event(n, t))
         /\ Event(n, t).seq = n /\ Event(n, t).type = t
         /\ Parses(Event(n, t)) <=> t # "malformed"
BY DEF Event, Line, LineFits, IsCheckpoint, Parses, NoEdit

\* So is what cannot be parsed.
LEMMA MalformedFits ==
  /\ Malformed \in Line /\ LineFits(Malformed) /\ ~Parses(Malformed)
  /\ Malformed.type = "malformed" /\ ~IsCheckpoint(Malformed)
BY EventFits DEF Malformed

\* A checkpoint has its file and the content the file has.
LEMMA CheckpointFits ==
  ASSUME TypeOK, NEW f \in Files
  PROVE  /\ Checkpoint(f) \in Line /\ LineFits(Checkpoint(f)) /\ IsCheckpoint(Checkpoint(f))
         /\ Parses(Checkpoint(f)) /\ Checkpoint(f).type = "session_checkpoint"
         /\ Checkpoint(f).file = f /\ Checkpoint(f).content = ws[f]
BY DEF TypeOK, Checkpoint, Event, Line, LineFits, IsCheckpoint, Parses, NoEdit

\* The one element of a sequence that has no more.
LEMMA AtMostOne ==
  ASSUME NEW S, NEW s \in Seq(S), Len(s) <= 1, s # <<>>
  PROVE  Len(s) = 1 /\ s[1] \in S
<1> DEFINE n == Len(s)
<1>1. n \in Nat \ {0} /\ n <= 1
  BY EmptySeq
<1> HIDE DEF n
<1>2. n = 1
  BY <1>1
<1> QED
  BY <1>1, <1>2, ElementOfSeq DEF n

\* The events that can be read, place by place.
LEMMA EventsFacts ==
  ASSUME TypeOK
  PROVE  /\ Events \in Seq(Line)
         /\ Len(log) <= Len(Events)
         /\ \A i \in 1..Len(log) : Events[i] = log[i]
         /\ tail = <<>> \/ ~Parses(tail[1]) => Events = log
         /\ tail # <<>> /\ Parses(tail[1]) => Len(Events) = Len(log) + 1 /\ Events[Len(log) + 1] = tail[1]
         /\ tail # <<>> => Len(tail) = 1 /\ tail[1] \in Line
<1>a. log \in Seq(Line) /\ tail \in Seq(Line) /\ Len(tail) <= 1
  BY DEF TypeOK
<1>b. tail # <<>> => Len(tail) = 1 /\ tail[1] \in Line
  BY <1>a, AtMostOne
<1>1. CASE tail # <<>> /\ Parses(tail[1])
  <2>1. Events = log \o tail
    BY <1>1 DEF Events
  <2> QED
    BY <1>1, <1>a, <1>b, <2>1
<1>2. CASE ~(tail # <<>> /\ Parses(tail[1]))
  <2>1. Events = log \o <<>>
    BY <1>2 DEF Events
  <2>2. Events = log
    BY <1>a, <2>1
  <2> QED
    BY <1>2, <1>a, <1>b, <2>2
<1> QED
  BY <1>1, <1>2

\* The log after a write, place by place.
LEMMA ExtendFacts ==
  ASSUME TypeOK, NEW lines \in Seq(Line)
  PROVE  /\ Extend(lines) \in Seq(Line)
         /\ Len(Extend(lines)) = Len(log) + Len(lines)
         /\ \A i \in 1..Len(log) : Extend(lines)[i] = log[i]
         /\ \A i \in 1..Len(lines) : Extend(lines)[Len(log) + i] =
               IF i = 1 /\ tail # <<>> THEN Malformed ELSE lines[i]
<1>1. CASE lines = <<>>
  BY <1>1 DEF Extend, TypeOK
<1>2. CASE lines # <<>>
  <2> DEFINE more == [lines EXCEPT ![1] = IF tail = <<>> THEN lines[1] ELSE Malformed]
  <2>1. lines[1] \in Line /\ 1 \in 1..Len(lines)
    BY <1>2
  <2>2. more \in Seq(Line) /\ Len(more) = Len(lines)
    BY <2>1, MalformedFits
  <2>3. \A i \in 1..Len(lines) : more[i] = IF i = 1 /\ tail # <<>> THEN Malformed ELSE lines[i]
    BY <2>1
  <2>4. Extend(lines) = log \o more
    BY <1>2 DEF Extend
  <2>5. log \in Seq(Line)
    BY DEF TypeOK
  <2> HIDE DEF more
  <2>6. Extend(lines) \in Seq(Line) /\ Len(Extend(lines)) = Len(log) + Len(lines)
    BY SMTT(60), <2>2, <2>4, <2>5
  <2>7. \A i \in 1..Len(log) : Extend(lines)[i] = log[i]
    BY <2>2, <2>4, <2>5
  <2>8. \A i \in 1..Len(lines) : Extend(lines)[Len(log) + i] = more[i]
    BY <2>2, <2>4, <2>5
  <2> QED
    BY <2>3, <2>6, <2>7, <2>8
<1> QED
  BY <1>1, <1>2

\* Numbering changes nothing but the numbers.
LEMMA NumberedFacts ==
  ASSUME NEW batch \in Seq(Line), NEW base \in Nat \ {0}
  PROVE  /\ Numbered(batch, base) \in Seq(Line) /\ Len(Numbered(batch, base)) = Len(batch)
         /\ \A i \in 1..Len(batch) :
              /\ Numbered(batch, base)[i].seq = base + i - 1
              /\ Numbered(batch, base)[i].type = batch[i].type
              /\ Numbered(batch, base)[i].file = batch[i].file
              /\ Numbered(batch, base)[i].content = batch[i].content
              /\ Numbered(batch, base)[i].before = batch[i].before
<1>1. \A i \in 1..Len(batch) : batch[i] \in Line
  OBVIOUS
<1>2. \A i \in 1..Len(batch) : base + i - 1 \in Nat
  OBVIOUS
<1>3. \A i \in 1..Len(batch) : [batch[i] EXCEPT !.seq = base + i - 1] \in Line
  BY <1>1, <1>2 DEF Line
<1>4. Numbered(batch, base) = [i \in 1..Len(batch) |-> [batch[i] EXCEPT !.seq = base + i - 1]]
  BY DEF Numbered
<1>5. Numbered(batch, base) \in Seq(Line) /\ Len(Numbered(batch, base)) = Len(batch)
  BY <1>3, <1>4
<1>6. ASSUME NEW i \in 1..Len(batch)
      PROVE  /\ Numbered(batch, base)[i].seq = base + i - 1
             /\ Numbered(batch, base)[i].type = batch[i].type
             /\ Numbered(batch, base)[i].file = batch[i].file
             /\ Numbered(batch, base)[i].content = batch[i].content
             /\ Numbered(batch, base)[i].before = batch[i].before
  <2>1. Numbered(batch, base)[i] = [batch[i] EXCEPT !.seq = base + i - 1]
    BY <1>4
  <2> QED
    BY <1>1, <2>1 DEF Line
<1> QED
  BY <1>5, <1>6

\* The lines l2 are the lines l1 but for the history of checkpoints.
SameLine(a, b) ==
    /\ b \in Line
    /\ b.seq = a.seq /\ b.type = a.type /\ b.file = a.file /\ b.content = a.content

\* Two such sequences.
Alike(l1, l2) ==
    /\ l2 \in Seq(Line) /\ Len(l2) = Len(l1)
    /\ \A i \in 1..Len(l1) : SameLine(l1[i], l2[i])

\* The history of an edit is noted on its checkpoint, and on nothing else.
LEMMA NotedFacts ==
  ASSUME TypeOK, NEW lines \in Seq(Line), NEW ckpt \in Line, ckpt.file \in Files
  PROVE  /\ Alike(lines, Noted(lines, ckpt))
         /\ \A i \in 1..Len(lines) : \/ Noted(lines, ckpt)[i] = lines[i]
                                     \/ Noted(lines, ckpt)[i].before = ws[ckpt.file] /\ lines[i] = ckpt
<1> DEFINE new == [ckpt EXCEPT !.before = ws[ckpt.file]]
<1>1. SameLine(ckpt, new) /\ new.before = ws[ckpt.file]
  BY DEF TypeOK, Line, SameLine
<1>2. \A line \in Line : SameLine(line, line)
  BY DEF SameLine
<1>3. Noted(lines, ckpt) = [i \in 1..Len(lines) |-> IF lines[i] = ckpt THEN new ELSE lines[i]]
  BY DEF Noted
<1>4. new \in Line
  BY <1>1 DEF SameLine
<1> HIDE DEF new
<1>5. Noted(lines, ckpt) \in Seq(Line) /\ Len(Noted(lines, ckpt)) = Len(lines)
  BY <1>3, <1>4
<1>6. \A i \in 1..Len(lines) : SameLine(lines[i], Noted(lines, ckpt)[i])
  BY <1>1, <1>2, <1>3
<1> QED
  BY <1>1, <1>3, <1>5, <1>6 DEF Alike

-----------------------------------------------------------------------------
(* The jobs.                                                               *)

\* The job of a process that is to write a batch.
Prepared(batch) == [Idle EXCEPT !.at = "write", !.meta = meta,
                                !.batch = Numbered(batch, NextSequence)]

\* Who has nothing to do carries nothing.
LEMMA IdleFacts ==
  /\ Idle \in Job /\ Idle.at = "idle" /\ Idle.batch = <<>> /\ ~Idle.disturbed
  /\ \A p \in Procs : JobFits(p, Idle)
  /\ ~Carries(Idle)
BY DEF Idle, Job, Metadata, JobFits, Carries, Rewinding

\* The next number follows that of the last line, if it parses.
LEMMA NextSequenceFacts ==
  ASSUME TypeOK
  PROVE  /\ NextSequence \in Nat \ {0}
         /\ NextSequence > meta.count \/ log # <<>>
         /\ log # <<>> /\ Parses(log[Len(log)]) => NextSequence > log[Len(log)].seq
         /\ log = <<>> \/ log[Len(log)].seq <= meta.count => NextSequence = meta.count + 1
<1>1. meta.count \in Nat /\ log \in Seq(Line)
  BY DEF TypeOK, Metadata
<1>2. CASE log = <<>>
  BY <1>1, <1>2 DEF NextSequence
<1>3. CASE log # <<>>
  <2>1. Len(log) \in 1..Len(log)
    BY <1>1, <1>3
  <2>2. Last(log) = log[Len(log)] /\ log[Len(log)].seq \in Nat
    <3>1. log[Len(log)] \in Line
      BY <1>1, <2>1, ElementOfSeq
    <3> QED
      BY <3>1 DEF Last, Line
  <2>3. LastEventSequence = log[Len(log)].seq
    BY <1>3, <2>2 DEF LastEventSequence
  <2> QED
    BY SMTT(60), <1>1, <1>3, <2>2, <2>3 DEF NextSequence
<1> QED
  BY <1>2, <1>3

\* A batch that is prepared.
LEMMA PreparedFacts ==
  ASSUME TypeOK, NEW batch \in Seq(Line), batch # <<>>
  PROVE  /\ Prepared(batch) \in Job
         /\ Prepared(batch).at = "write" /\ Prepared(batch).meta = meta
         /\ Prepared(batch).batch = Numbered(batch, NextSequence)
         /\ ~Prepared(batch).disturbed
         /\ Prepared(batch).batch # <<>> /\ Len(Prepared(batch).batch) = Len(batch)
         /\ Prepared(batch).batch[1].type = batch[1].type
<1>1. NextSequence \in Nat \ {0}
  BY NextSequenceFacts
<1>2. Numbered(batch, NextSequence) \in Seq(Line) /\ Len(Numbered(batch, NextSequence)) = Len(batch)
  BY <1>1, NumberedFacts
<1>3. 1 \in 1..Len(batch)
  BY EmptySeq
<1>4. Numbered(batch, NextSequence)[1].type = batch[1].type
  BY <1>1, <1>3, NumberedFacts
<1>5. Len(batch) # 0
  BY <1>3
<1>6. Numbered(batch, NextSequence) # <<>>
  BY <1>2, <1>5, EmptySeq
<1>7. meta \in Metadata
  BY DEF TypeOK
<1> QED
  BY <1>2, <1>4, <1>6, <1>7 DEF Prepared, Idle, Job, Metadata

\* A batch that is prepared is fit to be written.
LEMMA PreparedFits ==
  ASSUME TypeOK, NEW p \in Procs, NEW batch \in Seq(Line), batch # <<>>,
         \A i \in 1..Len(batch) : /\ LineFits(batch[i]) /\ Parses(batch[i])
                                  /\ IsCheckpoint(batch[i]) => i = 1 /\ p \in Agents
  PROVE  /\ JobFits(p, Prepared(batch))
         /\ Carries(Prepared(batch)) <=> IsCheckpoint(batch[1])
<1>1. NextSequence \in Nat \ {0}
  BY NextSequenceFacts
<1> DEFINE b == Numbered(batch, NextSequence)
<1>2. b \in Seq(Line) /\ Len(b) = Len(batch)
  BY <1>1, NumberedFacts
<1>3. ASSUME NEW i \in 1..Len(b)
      PROVE  LineFits(b[i]) /\ Parses(b[i]) /\ (IsCheckpoint(b[i]) => i = 1 /\ p \in Agents)
  <2>1. b[i].type = batch[i].type /\ b[i].file = batch[i].file /\ b[i].content = batch[i].content
    BY <1>1, <1>2, NumberedFacts
  <2>2. b[i] \in Line
    BY <1>2
  <2> HIDE DEF b
  <2> QED
    BY <1>2, <2>1, <2>2 DEF LineFits, Parses, IsCheckpoint
<1>4. Prepared(batch).batch = b
  BY PreparedFacts
<1> HIDE DEF b
<1> QED
  BY <1>3, <1>4, PreparedFacts DEF JobFits, Carries, IsCheckpoint, Rewinding

\* After an append a process is idle, or goes on to its edit.
LEMMA AfterFacts ==
  ASSUME Shape, NEW p \in Procs, job[p].at \in {"write", "meta"}
  PROVE  /\ JobFits(p, AfterAppend(p))
         /\ ~AfterAppend(p).disturbed
         /\ \/ AfterAppend(p) = Idle
            \/ /\ AfterAppend(p).at = "tool" /\ AfterAppend(p).batch = job[p].batch
               /\ Carries(job[p]) /\ p \notin Batchers
<1>1. JobFits(p, job[p])
  BY DEF Shape
<1>2. CASE job[p].batch[1].type = "session_checkpoint" /\ p \notin Batchers
  <2>1. AfterAppend(p) = [Idle EXCEPT !.at = "tool", !.batch = job[p].batch]
    BY <1>2 DEF AfterAppend
  <2>2. job[p].batch \in Seq(Line)
    BY <1>1 DEF JobFits, Job
  <2>3. /\ AfterAppend(p) \in Job /\ AfterAppend(p).at = "tool"
        /\ AfterAppend(p).batch = job[p].batch /\ AfterAppend(p).disturbed = FALSE
    <3> DEFINE b == job[p].batch
    <3>1. b \in Seq(Line)
      BY <2>2
    <3>2. AfterAppend(p) = [Idle EXCEPT !.at = "tool", !.batch = b]
      BY <2>1
    <3> HIDE DEF b, AfterAppend
    <3>3. /\ AfterAppend(p) \in Job /\ AfterAppend(p).at = "tool"
          /\ AfterAppend(p).batch = b /\ AfterAppend(p).disturbed = FALSE
      <4>1. AfterAppend(p) = [at |-> "tool", meta |-> [count |-> 0, title |-> "none"], batch |-> b,
                              target |-> 0, todo |-> {}, disturbed |-> FALSE]
        BY <3>2 DEF Idle
      <4>2. [count |-> 0, title |-> "none"] \in Metadata
        BY DEF Metadata
      <4> QED
        BY <3>1, <4>1, <4>2 DEF Job
    <3> QED
      BY <3>3 DEF b
  <2>4. Carries(job[p])
    BY <1>1, <1>2 DEF JobFits, Carries, IsCheckpoint
  <2> HIDE DEF AfterAppend
  <2> QED
    BY <1>1, <1>2, <2>3, <2>4 DEF JobFits, Carries, Rewinding
<1>3. CASE ~(job[p].batch[1].type = "session_checkpoint" /\ p \notin Batchers)
  <2>1. AfterAppend(p) = [Idle EXCEPT !.at = "idle", !.batch = <<>>]
    BY <1>3 DEF AfterAppend
  <2>2. AfterAppend(p) = Idle
    BY <2>1 DEF Idle
  <2> QED
    BY <2>2, IdleFacts
<1> QED
  BY <1>2, <1>3

\* TypeOK but for the jobs.
RestFits ==
    /\ log \in Seq(Line) /\ tail \in Seq(Line) /\ Len(tail) <= 1
    /\ meta \in Metadata
    /\ blobs \subseteq Contents
    /\ ws \in [Files -> Contents \cup {Absent}]
    /\ lock \in Procs \cup {NoProc}
    /\ fork \in [at : {"none", "copying", "done"}, missing : SUBSET Contents,
                 raced : BOOLEAN]
    /\ faults \in 0..MaxFaults
    /\ named \in Titles \cup {"none"}
    /\ acked \subseteq Nat

\* The types of the jobs, and of the rest.
LEMMA Types == TypeOK <=> RestFits /\ job \in [Procs -> Job]
BY DEF TypeOK, RestFits

\* A step that changes the job of p alone.
LEMMA JobStep ==
  ASSUME Shape, NEW p \in Procs, NEW j, job' = [job EXCEPT ![p] = j], JobFits(p, j),
         RestFits', \A i \in 1..Len(log') : LineFits(log'[i]), \A i \in 1..Len(tail') : LineFits(tail'[i]),
         j.at \in Locked <=> lock' = p,
         lock' = lock \/ (lock \in {p, NoProc} /\ lock' \in {p, NoProc}),
         Readable' \/ \A q \in Procs : job'[q].at \notin Rewinding,
         Carries(j) => \A q \in Procs \ {p} : ~Carries(job[q])
  PROVE  Shape'
<1>1. job \in [Procs -> Job]
  BY DEF Shape, TypeOK
<1>2. job'[p] = j /\ \A q \in Procs \ {p} : job'[q] = job[q]
  BY <1>1
<1>3. ASSUME NEW q \in Procs
      PROVE  JobFits(q, job'[q])
  BY <1>2 DEF Shape
<1>4. ASSUME NEW q \in Procs
      PROVE  job'[q].at \in Locked <=> lock' = q
  BY <1>2 DEF Shape
<1>5. ASSUME NEW q \in Procs, NEW r \in Procs, Carries(job'[q]), Carries(job'[r])
      PROVE  q = r
  BY <1>2, <1>5 DEF Shape
<1>6. \A q \in Procs : job'[q].at \in Rewinding => Readable'
  OBVIOUS
<1>7. job' \in [Procs -> Job]
  BY <1>1 DEF JobFits
<1>8. TypeOK'
  BY <1>7 DEF TypeOK, RestFits
<1> QED
  BY <1>3, <1>4, <1>5, <1>6, <1>8 DEF Shape, JobFits, Carries

\* A step that leaves the log alone.
LEMMA QuietStep ==
  ASSUME Shape, NEW p \in Procs, NEW j, job' = [job EXCEPT ![p] = j], JobFits(p, j),
         RestFits', log' = log, tail' = tail,
         j.at \in Locked <=> lock' = p,
         lock' = lock \/ (lock \in {p, NoProc} /\ lock' \in {p, NoProc}),
         j.at \in Rewinding => Readable,
         Carries(j) => \A q \in Procs \ {p} : ~Carries(job[q])
  PROVE  Shape'
<1>1. \A i \in 1..Len(log') : LineFits(log'[i])
  BY DEF Shape
<1>2. \A i \in 1..Len(tail') : LineFits(tail'[i])
  BY DEF Shape
<1>3. Readable' <=> Readable
  BY DEF Readable
<1>4. job \in [Procs -> Job]
  BY DEF Shape, TypeOK
<1>5. Readable' \/ \A q \in Procs : job'[q].at \notin Rewinding
  BY <1>3, <1>4 DEF Shape
<1> QED
  BY <1>1, <1>2, <1>5, JobStep

-----------------------------------------------------------------------------
(* The shape of the state is kept.                                         *)

\* A new session has the shape.
LEMMA ShapeInit == Init => Shape
<1> SUFFICES ASSUME Init PROVE Shape
  OBVIOUS
<1>1. job \in [Procs -> Job] /\ \A p \in Procs : job[p] = Idle
  BY IdleFacts DEF Init
<1>2. RestFits
  BY DEF Init, RestFits, Metadata
<1>3. Len(log) = 0 /\ Len(tail) = 0
  BY DEF Init
<1>4. lock = NoProc
  BY DEF Init
<1> QED
  BY <1>1, <1>2, <1>3, <1>4, Types, IdleFacts DEF Shape, Locked, Rewinding

\* A step that changes the metadata or the lock.
LEMMA RestStays ==
  ASSUME RestFits, UNCHANGED <<log, tail, blobs, ws, fork, acked>>,
         meta' \in Metadata, lock' \in Procs \cup {NoProc}, faults' \in 0..MaxFaults,
         named' \in Titles \cup {"none"}
  PROVE  RestFits'
BY DEF RestFits

\* What the lock says of the jobs.
LEMMA Held ==
  ASSUME Shape, NEW p \in Procs
  PROVE  /\ JobFits(p, job[p]) /\ job \in [Procs -> Job] /\ RestFits /\ TypeOK
         /\ job[p].at \in Locked => lock = p /\ p # NoProc
                                    /\ \A q \in Procs \ {p} : job[q].at \notin Locked
         /\ job[p].at \notin Locked => lock # p
         /\ lock = NoProc => \A q \in Procs : job[q].at \notin Locked
BY Types DEF Shape

\* A process that lets go of the lock.
LEMMA UnlockFacts ==
  ASSUME Shape, NEW p \in Procs, Unlock(p)
  PROVE  /\ lock' # p /\ lock' \in Procs \cup {NoProc}
         /\ lock' = lock \/ (lock \in {p, NoProc} /\ lock' \in {p, NoProc})
BY Types DEF Unlock, Shape, RestFits

\* A process that takes the lock.
LEMMA LockFacts ==
  ASSUME Shape, NEW p \in Procs, Lock(p)
  PROVE  /\ lock' = p /\ lock' \in Procs \cup {NoProc}
         /\ lock' = lock \/ (lock \in {p, NoProc} /\ lock' \in {p, NoProc})
BY DEF Lock

\* An event that is prepared.
LEMMA ShapePrepares ==
  ASSUME Shape, NEW p \in Procs, NEW batch \in Seq(Line), batch # <<>>,
         \A i \in 1..Len(batch) : /\ LineFits(batch[i]) /\ Parses(batch[i])
                                  /\ IsCheckpoint(batch[i]) => i = 1 /\ p \in Agents,
         IsCheckpoint(batch[1]) => \A q \in Procs \ {p} : ~Carries(job[q]),
         PrepareAppend(p, batch), RestFits', log' = log, tail' = tail,
         lock' = p, lock \in {p, NoProc}
  PROVE  Shape'
<1>1. job' = [job EXCEPT ![p] = Prepared(batch)]
  BY DEF PrepareAppend, Prepared
<1>2. JobFits(p, Prepared(batch)) /\ (Carries(Prepared(batch)) <=> IsCheckpoint(batch[1]))
  BY PreparedFits, Held
<1>3. Prepared(batch).at = "write"
  BY PreparedFacts, Held
<1> HIDE DEF Prepared
<1> QED
  BY <1>1, <1>2, <1>3, QuietStep DEF Locked, Rewinding

\* The appends of messages and usage, and the flush, prepare a batch.
LEMMA ShapeAppends ==
  ASSUME Shape, NEW p \in Procs,
         AppendEvents(p) \/ AppendEventUnlessExists(p) \/ Flush(p)
  PROVE  Shape'
<1>0. Lock(p)
  BY DEF AppendEvents, AppendEventUnlessExists, Flush
<1>1. RestFits' /\ log' = log /\ tail' = tail /\ lock' = p /\ lock \in {p, NoProc}
  BY <1>0, Held, LockFacts, RestStays DEF Lock, AppendEvents, AppendEventUnlessExists, Flush, RestFits
<1>2. CASE AppendEvents(p)
  <2>1. PICK n \in 1..2 : PrepareAppend(p, [i \in 1..n |-> Event(0, "message")])
    BY <1>2 DEF AppendEvents
  <2> DEFINE b == [i \in 1..n |-> Event(0, "message")]
  <2>2. b \in Seq(Line) /\ Len(b) = n /\ \A i \in 1..Len(b) : b[i] = Event(0, "message")
    BY EventFits
  <2>3. b # <<>> /\ ~IsCheckpoint(b[1])
    BY <2>2, EmptySeq, EventFits
  <2>4. \A i \in 1..Len(b) : LineFits(b[i]) /\ Parses(b[i]) /\ ~IsCheckpoint(b[i])
    BY <2>2, EventFits
  <2>5. PrepareAppend(p, b)
    BY <2>1
  <2> HIDE DEF b
  <2> QED
    BY <1>1, <2>2, <2>3, <2>4, <2>5, ShapePrepares
<1>3. CASE AppendEventUnlessExists(p)
  <2> DEFINE b == <<Event(0, "usage")>>
  <2>2. b \in Seq(Line) /\ Len(b) = 1 /\ b[1] = Event(0, "usage")
    BY EventFits
  <2>3. b # <<>> /\ ~IsCheckpoint(b[1])
    BY <2>2, EmptySeq, EventFits
  <2>4. \A i \in 1..Len(b) : LineFits(b[i]) /\ Parses(b[i]) /\ ~IsCheckpoint(b[i])
    BY <2>2, EventFits
  <2>5. PrepareAppend(p, b)
    BY <1>3 DEF AppendEventUnlessExists
  <2> HIDE DEF b
  <2> QED
    BY <1>1, <2>2, <2>3, <2>4, <2>5, ShapePrepares
<1>4. CASE Flush(p)
  <2> DEFINE old == job[p].batch
             b == old \o <<Event(0, "message")>>
  <2>1. JobFits(p, job[p]) /\ Carries(job[p]) /\ old \in Seq(Line) /\ old # <<>>
    BY <1>4, Held DEF Flush, JobFits, Job
  <2>2. /\ b \in Seq(Line) /\ Len(b) = Len(old) + 1 /\ \A i \in 1..Len(old) : b[i] = old[i]
        /\ b[Len(old) + 1] = Event(0, "message")
    BY <2>1, EventFits
  <2>3. b # <<>> /\ b[1] = old[1]
    BY <2>1, <2>2, EmptySeq
  <2>4. ASSUME NEW i \in 1..Len(b)
        PROVE  LineFits(b[i]) /\ Parses(b[i]) /\ (IsCheckpoint(b[i]) => i = 1 /\ p \in Agents)
    <3>1. CASE i \in 1..Len(old)
      BY <2>1, <2>2, <3>1 DEF JobFits
    <3>2. CASE i = Len(old) + 1
      BY <2>2, <3>2, EventFits
    <3> QED
      BY SMTT(60), <2>1, <2>2, <3>1, <3>2
  <2>5. PrepareAppend(p, b)
    BY <1>4 DEF Flush
  <2>6. \A q \in Procs \ {p} : ~Carries(job[q])
    BY <2>1 DEF Shape
  <2> HIDE DEF b
  <2> QED
    BY <1>1, <2>2, <2>3, <2>4, <2>5, <2>6, ShapePrepares
<1> QED
  BY <1>2, <1>3, <1>4

\* A run that may begin is the only one.
LEMMA AloneToRun ==
  ASSUME Shape, NEW p \in Procs, MayRun(p)
  PROVE  \A q \in Procs \ {p} : ~Carries(job[q])
<1> SUFFICES ASSUME NEW q \in Procs \ {p}, Carries(job[q]) PROVE FALSE
  OBVIOUS
<1>1. JobFits(q, job[q])
  BY Held
<1>2. job[q].batch \in Seq(Line) /\ job[q].batch # <<>>
  BY <1>1 DEF JobFits, Job, Carries
<1>3. 1 \in 1..Len(job[q].batch) /\ 1 \in DOMAIN job[q].batch
  BY <1>2, EmptySeq
<1>4. q \in Agents
  BY <1>1, <1>3 DEF JobFits, Carries
<1> QED
  BY <1>3, <1>4 DEF MayRun, Carries, IsCheckpoint

\* A blob is the content of a file.
LEMMA StoreBlobFacts ==
  ASSUME Shape, NEW f \in Files, StoreBlob(f)
  PROVE  blobs' \subseteq Contents
BY DEF StoreBlob, Shape, TypeOK

\* A capture prepares a checkpoint.
LEMMA ShapeCaptures ==
  ASSUME Shape, NEW p \in Procs, CaptureToolCheckpoint(p)
  PROVE  Shape'
<1>1. PICK f \in Files : StoreBlob(f) /\ PrepareAppend(p, <<Checkpoint(f)>>)
  BY DEF CaptureToolCheckpoint
<1>2. /\ lock = NoProc /\ lock' = p /\ log' = log /\ tail' = tail /\ MayRun(p) /\ p \in Agents
      /\ UNCHANGED <<meta, ws, fork, faults, named, acked>>
  BY DEF CaptureToolCheckpoint, Lock
<1>3. RestFits'
  BY <1>1, <1>2, Held, StoreBlobFacts DEF RestFits
<1> DEFINE b == <<Checkpoint(f)>>
<1>4. /\ b \in Seq(Line) /\ Len(b) = 1 /\ b[1] = Checkpoint(f) /\ b # <<>>
  BY Held, CheckpointFits
<1>5. \A i \in 1..Len(b) : LineFits(b[i]) /\ Parses(b[i]) /\ i = 1
  BY <1>4, Held, CheckpointFits
<1>6. PrepareAppend(p, b)
  BY <1>1
<1> HIDE DEF b
<1> QED
  BY <1>2, <1>3, <1>4, <1>5, <1>6, AloneToRun, ShapePrepares

\* A snapshot keeps its checkpoint for later.
LEMMA ShapeSnapshots ==
  ASSUME Shape, NEW p \in Procs, SnapshotForCheckpoint(p)
  PROVE  Shape'
<1>1. PICK f \in Files : /\ StoreBlob(f)
                         /\ job' = [job EXCEPT ![p] = [Idle EXCEPT !.at = "tool", !.batch = <<Checkpoint(f)>>]]
  BY DEF SnapshotForCheckpoint
<1>2. /\ log' = log /\ tail' = tail /\ lock' = lock /\ MayRun(p) /\ p \in Batchers /\ p \in Agents
      /\ UNCHANGED <<meta, ws, lock, fork, faults, named, acked>>
  BY DEF SnapshotForCheckpoint
<1>3. RestFits'
  BY <1>1, <1>2, Held, StoreBlobFacts DEF RestFits
<1> DEFINE b == <<Checkpoint(f)>>
           j == [Idle EXCEPT !.at = "tool", !.batch = b]
<1>4. /\ b \in Seq(Line) /\ Len(b) = 1 /\ b[1] = Checkpoint(f) /\ b # <<>>
  BY Held, CheckpointFits
<1>5. \A i \in 1..Len(b) : LineFits(b[i]) /\ Parses(b[i]) /\ i = 1
  BY <1>4, Held, CheckpointFits
<1>6. job' = [job EXCEPT ![p] = j]
  BY <1>1
<1>7. IsCheckpoint(b[1])
  BY <1>4, Held, CheckpointFits
<1> HIDE DEF b
<1>8. j \in Job /\ j.at = "tool" /\ j.batch = b
  BY <1>4 DEF Idle, Job, Metadata
<1> HIDE DEF j
<1>9. JobFits(p, j)
  BY <1>2, <1>4, <1>5, <1>7, <1>8 DEF JobFits, Carries, Rewinding
<1>10. lock # p
  BY <1>2, Held DEF MayRun, IsIdle, Locked
<1> QED
  BY <1>2, <1>3, <1>6, <1>8, <1>9, <1>10, AloneToRun, QuietStep DEF Locked, Rewinding

\* The blobs that events name.
LEMMA ReferencedFacts ==
  ASSUME NEW s \in Seq(Line)
  PROVE  \A c : c \in Referenced(s) <=>
             c # Absent /\ \E i \in 1..Len(s) : IsCheckpoint(s[i]) /\ s[i].content = c
<1>1. DOMAIN s = 1..Len(s)
  OBVIOUS
<1>2. \A e : e \in ToSet(s) <=> \E i \in 1..Len(s) : e = s[i]
  BY <1>1 DEF ToSet
<1> QED
  BY <1>2 DEF Referenced, IsCheckpoint

\* What can be read is fit.
LEMMA EventsFit ==
  ASSUME Shape
  PROVE  \A i \in 1..Len(Events) : LineFits(Events[i])
<1>1. /\ TypeOK /\ \A i \in 1..Len(log) : LineFits(log[i])
      /\ \A i \in 1..Len(tail) : LineFits(tail[i])
  BY DEF Shape
<1>2. CASE tail # <<>> /\ Parses(tail[1])
  <2>1. LineFits(tail[1])
    BY <1>1, <1>2, EventsFacts
  <2>2. Len(log) \in Nat
    BY <1>1 DEF TypeOK
  <2>3. \A i \in 1..Len(Events) : i \in 1..Len(log) \/ i = Len(log) + 1
    BY <1>1, <1>2, <2>2, EventsFacts
  <2> QED
    BY <1>1, <1>2, <2>1, <2>3, EventsFacts
<1>3. CASE ~(tail # <<>> /\ Parses(tail[1]))
  BY <1>1, <1>3, EventsFacts
<1> QED
  BY <1>2, <1>3

\* Events name contents.
LEMMA NamesContents ==
  ASSUME Shape
  PROVE  Referenced(Events) \subseteq Contents
<1>1. Events \in Seq(Line)
  BY Held, EventsFacts DEF Shape
<1> QED
  BY <1>1, ReferencedFacts, EventsFit DEF LineFits

\* The steps that write metadata, and the one that fails to.
LEMMA ShapeMetadata ==
  ASSUME Shape, NEW p \in Procs, WriteCount(p) \/ UpdateTitle(p) \/ WriteTitle(p) \/ BreakSync(p)
  PROVE  Shape'
<1>1. CASE WriteCount(p)
  <2>1. /\ job[p].at = "meta" /\ job' = [job EXCEPT ![p] = AfterAppend(p)] /\ Unlock(p)
        /\ UNCHANGED <<log, tail, blobs, ws, fork, faults, named>>
    BY <1>1 DEF WriteCount
  <2> DEFINE b == job[p].batch
  <2>2. b \in Seq(Line) /\ b # <<>> /\ job[p].meta \in Metadata
    BY <2>1, Held DEF JobFits, Job
  <2>3. \A i \in 1..Len(b) : b[i].seq \in Nat
    <3> HIDE DEF b
    <3>1. \A i \in 1..Len(b) : b[i] \in Line
      BY <2>2
    <3> QED
      BY <3>1 DEF Line
  <2>4. Last(b).seq \in Nat
    BY <2>2, <2>3, EmptySeq DEF Last
  <2>5. meta' \in Metadata
    <3>1. meta' = [job[p].meta EXCEPT !.count = Last(b).seq]
      BY <1>1 DEF WriteCount
    <3> HIDE DEF b
    <3> QED
      BY <2>2, <2>4, <3>1 DEF Metadata
  <2>6. acked' \subseteq Nat
    <3>1. acked' = acked \cup {b[i].seq : i \in DOMAIN b}
      BY <1>1 DEF WriteCount
    <3>2. DOMAIN b = 1..Len(b)
      BY <2>2
    <3> HIDE DEF b
    <3> QED
      BY <2>3, <3>1, <3>2, Held DEF RestFits
  <2>7. RestFits'
    BY <2>1, <2>5, <2>6, Held, UnlockFacts DEF RestFits
  <2>8. /\ JobFits(p, AfterAppend(p)) /\ AfterAppend(p).at \in {"idle", "tool"}
        /\ Carries(AfterAppend(p)) => Carries(job[p])
    BY <2>1, AfterFacts, IdleFacts DEF Carries
  <2>9. Carries(AfterAppend(p)) => \A q \in Procs \ {p} : ~Carries(job[q])
    BY <2>8 DEF Shape
  <2> QED
    BY <2>1, <2>7, <2>8, <2>9, UnlockFacts, QuietStep DEF Locked, Rewinding
<1>2. CASE UpdateTitle(p)
  <2> DEFINE j == [Idle EXCEPT !.at = "title", !.meta = meta]
  <2>1. /\ job' = [job EXCEPT ![p] = j] /\ Lock(p)
        /\ UNCHANGED <<log, tail, meta, blobs, ws, fork, faults, named, acked>>
    BY <1>2 DEF UpdateTitle
  <2>2. meta \in Metadata
    BY Held DEF RestFits
  <2>3. j \in Job /\ j.at = "title" /\ j.batch = <<>>
    BY <2>2, IdleFacts DEF Job
  <2> HIDE DEF j
  <2>4. JobFits(p, j) /\ ~Carries(j)
    BY <2>3 DEF JobFits, Carries, Rewinding
  <2>5. RestFits'
    BY <2>1, Held, LockFacts DEF RestFits
  <2> QED
    BY <2>1, <2>3, <2>4, <2>5, LockFacts, QuietStep DEF Locked, Rewinding
<1>3. CASE WriteTitle(p)
  <2>1. /\ job' = [job EXCEPT ![p] = Idle] /\ Unlock(p)
        /\ UNCHANGED <<log, tail, blobs, ws, fork, faults, acked>>
    BY <1>3 DEF WriteTitle
  <2>2. PICK t \in Titles : meta' = [job[p].meta EXCEPT !.title = t] /\ named' = t
    BY <1>3 DEF WriteTitle
  <2>3. job[p].meta \in Metadata
    BY Held DEF JobFits, Job
  <2>4. meta' \in Metadata
    BY <2>2, <2>3 DEF Metadata
  <2>5. RestFits'
    BY <2>1, <2>2, <2>4, Held, UnlockFacts DEF RestFits
  <2> QED
    BY <2>1, <2>5, IdleFacts, UnlockFacts, QuietStep DEF Locked, Rewinding
<1>4. CASE BreakSync(p)
  <2>1. /\ job[p].at = "meta" /\ job' = [job EXCEPT ![p] = AfterAppend(p)] /\ Unlock(p)
        /\ faults < MaxFaults /\ faults' = faults + 1
        /\ UNCHANGED <<log, tail, meta, blobs, ws, fork, named, acked>>
    BY <1>4 DEF BreakSync, Fault
  <2>7. RestFits'
    BY <2>1, Held, UnlockFacts DEF RestFits
  <2>8. /\ JobFits(p, AfterAppend(p)) /\ AfterAppend(p).at \in {"idle", "tool"}
        /\ Carries(AfterAppend(p)) => Carries(job[p])
    BY <2>1, AfterFacts, IdleFacts DEF Carries
  <2>9. Carries(AfterAppend(p)) => \A q \in Procs \ {p} : ~Carries(job[q])
    BY <2>8 DEF Shape
  <2> QED
    BY <2>1, <2>7, <2>8, <2>9, UnlockFacts, QuietStep DEF Locked, Rewinding
<1> QED
  BY <1>1, <1>2, <1>3, <1>4

\* A crash leaves nothing of a job.
LEMMA ShapeCrash ==
  ASSUME Shape, NEW p \in Procs, Crash(p)
  PROVE  Shape'
<1>1. /\ job' = [job EXCEPT ![p] = Idle] /\ Unlock(p)
      /\ faults < MaxFaults /\ faults' = faults + 1
      /\ UNCHANGED <<log, tail, meta, blobs, ws, fork, named, acked>>
  BY DEF Crash, Fault
<1>2. RestFits'
  BY <1>1, Held, UnlockFacts DEF RestFits
<1> QED
  BY <1>1, <1>2, IdleFacts, UnlockFacts, QuietStep DEF Locked, Rewinding

\* A fork is not part of the session.
LEMMA ShapeForks ==
  ASSUME Shape, NEW p \in Procs, ForkRead(p) \/ ForkCopyBlobs(p)
  PROVE  Shape'
<1>1. /\ job' = job /\ UNCHANGED <<log, tail, meta, blobs, ws, lock, faults, named, acked>>
  BY DEF ForkRead, ForkCopyBlobs
<1>2. fork \in [at : {"none", "copying", "done"}, missing : SUBSET Contents, raced : BOOLEAN]
  BY Held DEF RestFits
<1>3. fork' \in [at : {"none", "copying", "done"}, missing : SUBSET Contents, raced : BOOLEAN]
  <2>1. CASE ForkRead(p)
    BY <2>1, NamesContents DEF ForkRead
  <2>2. CASE ForkCopyBlobs(p)
    BY <1>2, <2>2 DEF ForkCopyBlobs
  <2> QED
    BY <2>1, <2>2
<1>4. RestFits'
  BY <1>1, <1>3, Held DEF RestFits
<1>5. TypeOK'
  BY <1>1, <1>4, Held DEF TypeOK, RestFits
<1> QED
  BY <1>1, <1>5 DEF Shape, Readable

\* The rewinder's record, with other fields changed.
LEMMA ShapeRewinds ==
  ASSUME Shape, NEW p \in Procs, RestoreFile(p) \/ TruncateCount(p)
  PROVE  Shape'
<1>1. /\ job[p].at \in {"restore", "recount"}
      /\ UNCHANGED <<log, tail, blobs, lock, fork, faults, named, acked>>
  BY DEF RestoreFile, TruncateCount
<1>2. JobFits(p, job[p]) /\ job[p].batch = <<>> /\ p \in Rewinders
  BY <1>1, Held DEF JobFits, Rewinding
<1>3. lock = p /\ Readable
  BY <1>1, Held DEF Locked, Shape, Rewinding
<1>4. CASE RestoreFile(p)
  <2>1. PICK f \in job[p].todo :
           /\ ws' = IF Closest(f, job[p].target).content \in blobs \cup {Absent}
                    THEN [ws EXCEPT ![f] = Closest(f, job[p].target).content] ELSE ws
           /\ job' = [job EXCEPT ![p].todo = @ \ {f}]
    BY <1>4 DEF RestoreFile
  <2>2. ws' \in [Files -> Contents \cup {Absent}]
    BY <2>1, Held DEF RestFits
  <2>3. RestFits'
    BY <1>1, <1>4, <2>2, Held DEF RestFits, RestoreFile
  <2> DEFINE j == [job[p] EXCEPT !.todo = @ \ {f}]
  <2>4. job' = [job EXCEPT ![p] = j]
    BY <2>1
  <2>5. j \in Job /\ j.at = job[p].at /\ j.batch = job[p].batch
    BY <1>2 DEF JobFits, Job
  <2> HIDE DEF j
  <2>6. JobFits(p, j) /\ ~Carries(j)
    BY <1>1, <1>2, <2>5 DEF JobFits, Carries
  <2> QED
    BY <1>1, <1>3, <2>3, <2>4, <2>5, <2>6, QuietStep DEF Locked, Rewinding
<1>5. CASE TruncateCount(p)
  <2>1. /\ meta' = [meta EXCEPT !.count = Len(log)]
        /\ job' = [job EXCEPT ![p].at = "prune"] /\ ws' = ws
    BY <1>5 DEF TruncateCount
  <2>2. meta' \in Metadata
    BY SMTT(60), <2>1, Held DEF RestFits, Metadata
  <2>3. RestFits'
    BY <1>1, <2>1, <2>2, Held DEF RestFits
  <2> DEFINE j == [job[p] EXCEPT !.at = "prune"]
  <2>4. job' = [job EXCEPT ![p] = j]
    BY <2>1
  <2>5. j \in Job /\ j.at = "prune" /\ j.batch = job[p].batch
    BY <1>2 DEF JobFits, Job
  <2> HIDE DEF j
  <2>6. JobFits(p, j) /\ ~Carries(j)
    BY <1>1, <1>2, <2>5 DEF JobFits, Carries
  <2> QED
    BY <1>1, <1>3, <2>3, <2>4, <2>5, <2>6, QuietStep DEF Locked, Rewinding
<1> QED
  BY <1>4, <1>5

\* The prune prepares the marker of the rewind.
LEMMA ShapePrunes ==
  ASSUME Shape, NEW p \in Procs, PruneOrphanBlobs(p)
  PROVE  Shape'
<1>1. /\ job[p].at = "prune" /\ blobs' = blobs \cap Referenced(Events)
      /\ PrepareAppend(p, <<Event(0, "session_rewind")>>) /\ RaceFork
      /\ UNCHANGED <<log, tail, meta, ws, lock, faults, named, acked>>
  BY DEF PruneOrphanBlobs
<1>2. lock = p
  BY <1>1, Held DEF Locked
<1>3. fork' \in [at : {"none", "copying", "done"}, missing : SUBSET Contents, raced : BOOLEAN]
  <2>1. fork \in [at : {"none", "copying", "done"}, missing : SUBSET Contents, raced : BOOLEAN]
    BY Held DEF RestFits
  <2> DEFINE r == fork.raced \/ fork.at = "copying"
  <2>2. fork' = [fork EXCEPT !.raced = r]
    BY <1>1 DEF RaceFork
  <2>3. r \in BOOLEAN
    BY <2>1
  <2> HIDE DEF r
  <2> QED
    BY <2>1, <2>2, <2>3
<1>4. RestFits'
  BY <1>1, <1>3, Held DEF RestFits
<1> DEFINE b == <<Event(0, "session_rewind")>>
<1>5. /\ b \in Seq(Line) /\ Len(b) = 1 /\ b[1] = Event(0, "session_rewind") /\ b # <<>>
  BY EventFits
<1>6. \A i \in 1..Len(b) : LineFits(b[i]) /\ Parses(b[i]) /\ ~IsCheckpoint(b[i])
  BY <1>5, EventFits
<1>7. PrepareAppend(p, b) /\ ~IsCheckpoint(b[1])
  BY <1>1, <1>5, EventFits
<1> HIDE DEF b
<1> QED
  BY <1>1, <1>2, <1>4, <1>5, <1>6, <1>7, ShapePrepares

\* A write, whole or broken, adds lines that are fit.
LEMMA ShapeWrites ==
  ASSUME Shape, NEW p \in Procs, WriteLog(p) \/ BreakWrite(p)
  PROVE  Shape'
<1>1. job[p].at = "write" /\ UNCHANGED <<meta, blobs, ws, fork, named, acked>>
  BY DEF WriteLog, BreakWrite
<1> DEFINE b == job[p].batch
<1>2. JobFits(p, job[p]) /\ b \in Seq(Line) /\ b # <<>> /\ TypeOK
  BY <1>1, Held DEF JobFits, Job
<1>3. \A i \in 1..Len(b) : LineFits(b[i])
  BY <1>2 DEF JobFits
<1>4. lock = p /\ \A q \in Procs : job[q].at \notin Rewinding
  BY <1>1, Held DEF Locked, Rewinding
<1>5. ASSUME NEW lines \in Seq(Line), \A i \in 1..Len(lines) : LineFits(lines[i])
      PROVE  /\ Extend(lines) \in Seq(Line)
             /\ \A i \in 1..Len(Extend(lines)) : LineFits(Extend(lines)[i])
  <2>1. Len(log) \in Nat /\ Len(lines) \in Nat
    BY <1>2 DEF TypeOK
  <2>2. ASSUME NEW i \in 1..Len(Extend(lines))
        PROVE  LineFits(Extend(lines)[i])
    <3>1. CASE i <= Len(log)
      BY <1>2, <2>1, <3>1, ExtendFacts DEF Shape
    <3>2. CASE i > Len(log)
      <4>1. PICK k \in 1..Len(lines) : i = Len(log) + k
        <5> DEFINE m == Len(log)
                   n == Len(lines)
        <5>1. m \in Nat /\ n \in Nat /\ i \in 1..(m + n) /\ i > m
          BY <1>2, <2>1, <3>2, ExtendFacts
        <5> HIDE DEF m, n
        <5>2. i - m \in 1..n /\ i = m + (i - m)
          BY <5>1
        <5> QED
          BY <5>2 DEF m, n
      <4> QED
        BY ZenonT(60), <1>2, <1>5, <4>1, ExtendFacts, MalformedFits
    <3> QED
      BY <2>1, <3>1, <3>2
  <2> QED
    BY <1>2, <2>2, ExtendFacts
<1> HIDE DEF b
<1>6. CASE WriteLog(p)
  <2> DEFINE j == [job[p] EXCEPT !.at = "meta"]
  <2>1. /\ log' = Extend(b) /\ tail' = <<>> /\ lock' = lock /\ faults' = faults
        /\ job' = [job EXCEPT ![p] = j]
    BY <1>6 DEF WriteLog, b
  <2>2. RestFits'
    BY <1>1, <1>2, <1>3, <1>5, <2>1, Held DEF RestFits
  <2>3. j \in Job /\ j.at = "meta" /\ j.batch = job[p].batch
    BY <1>2 DEF JobFits, Job
  <2> HIDE DEF j
  <2>4. JobFits(p, j) /\ (Carries(j) <=> Carries(job[p]))
    BY <1>1, <1>2, <2>3 DEF JobFits, Carries, Rewinding
  <2>5. Carries(j) => \A q \in Procs \ {p} : ~Carries(job[q])
    BY <2>4 DEF Shape
  <2>6. \A i \in 1..Len(log') : LineFits(log'[i])
    BY <1>2, <1>3, <1>5, <2>1
  <2>7. \A i \in 1..Len(tail') : LineFits(tail'[i])
    BY <2>1
  <2>8. \A q \in Procs : job'[q].at \notin Rewinding
    BY <1>4, <2>1, <2>3, Held DEF Rewinding
  <2> QED
    BY <1>4, <2>1, <2>2, <2>3, <2>4, <2>5, <2>6, <2>7, <2>8, JobStep DEF Locked
<1>7. CASE BreakWrite(p)
  <2>1. /\ job' = [job EXCEPT ![p] = AfterAppend(p)] /\ Unlock(p)
        /\ faults < MaxFaults /\ faults' = faults + 1
    BY <1>7 DEF BreakWrite, Fault
  <2>2. /\ JobFits(p, AfterAppend(p)) /\ AfterAppend(p).at \in {"idle", "tool"}
        /\ Carries(AfterAppend(p)) => Carries(job[p])
    BY <1>1, AfterFacts, IdleFacts DEF Carries
  <2>3. Carries(AfterAppend(p)) => \A q \in Procs \ {p} : ~Carries(job[q])
    BY <2>2 DEF Shape
  <2>4. /\ log' \in Seq(Line) /\ tail' \in Seq(Line) /\ Len(tail') <= 1
        /\ \A i \in 1..Len(log') : LineFits(log'[i])
        /\ \A i \in 1..Len(tail') : LineFits(tail'[i])
    <3>1. CASE UNCHANGED <<log, tail>>
      BY <1>2, <3>1 DEF Shape, TypeOK
    <3>2. CASE \E k \in 0..(Len(b) - 1) :
                  /\ log' = Extend(SubSeq(b, 1, k))
                  /\ tail' \in {<<Malformed>>} \cup
                       (IF k = 0 /\ tail # <<>> THEN {} ELSE {<<b[k + 1]>>})
      <4>1. PICK k \in 0..(Len(b) - 1) :
                  /\ log' = Extend(SubSeq(b, 1, k))
                  /\ tail' = <<Malformed>> \/ tail' = <<b[k + 1]>>
        BY <3>2
      <4>2. /\ SubSeq(b, 1, k) \in Seq(Line) /\ Len(SubSeq(b, 1, k)) = k
            /\ \A i \in 1..k : SubSeq(b, 1, k)[i] = b[i]
        BY <1>2
      <4>3. k + 1 \in 1..Len(b) /\ \A i \in 1..k : i \in 1..Len(b)
        BY <1>2
      <4>4. PICK line : tail' = <<line>> /\ LineFits(line)
        BY <1>3, <4>1, <4>3, MalformedFits
      <4>5. line \in Line
        BY <4>4 DEF LineFits
      <4>6. \A i \in 1..k : LineFits(SubSeq(b, 1, k)[i])
        BY <1>3, <4>2, <4>3
      <4>7. log' \in Seq(Line) /\ \A i \in 1..Len(log') : LineFits(log'[i])
        BY <1>5, <4>1, <4>2, <4>6
      <4>8. tail' \in Seq(Line) /\ Len(tail') = 1 /\ tail'[1] = line
        BY <4>4, <4>5
      <4> QED
        BY <4>4, <4>7, <4>8
    <3> QED
      BY <1>7, <3>1, <3>2 DEF BreakWrite, b
  <2>5. RestFits'
    BY <1>1, <2>1, <2>4, Held, UnlockFacts DEF RestFits
  <2>6. \A q \in Procs : job'[q].at \notin Rewinding
    BY <1>4, <2>1, <2>2, Held DEF Rewinding
  <2> QED
    BY <2>1, <2>2, <2>3, <2>4, <2>5, <2>6, UnlockFacts, JobStep DEF Locked
<1> QED
  BY <1>6, <1>7

\* A rewind begins with a log that can be read.
LEMMA ShapeApplies ==
  ASSUME Shape, NEW p \in Procs, ApplyRewind(p)
  PROVE  Shape'
<1>1. /\ p \in Rewinders /\ Readable /\ Events # <<>> /\ Lock(p) /\ job[p].at = "idle"
      /\ UNCHANGED <<log, tail, meta, blobs, ws, fork, faults, named, acked>>
  BY ZenonT(60) DEF ApplyRewind, IsIdle
<1>2. PICK target \in 0..Last(Events).seq :
         job' = [q \in Procs |->
                  IF q = p
                  THEN [Idle EXCEPT !.at = "restore", !.target = target,
                          !.todo = {f \in Files : CheckpointsAfter(f, target) # {}}]
                  ELSE [job[q] EXCEPT !.disturbed = job[q].at = "tool"]]
  BY DEF ApplyRewind
<1> DEFINE todo == {f \in Files : CheckpointsAfter(f, target) # {}}
           j == [Idle EXCEPT !.at = "restore", !.target = target, !.todo = todo]
<1>3. target \in Nat
  OBVIOUS
<1>4. todo \subseteq Files
  OBVIOUS
<1>5. job'[p] = j
  BY <1>2
<1>6. \A q \in Procs \ {p} : job'[q] = [job[q] EXCEPT !.disturbed = job[q].at = "tool"]
  BY <1>2
<1>7. DOMAIN job' = Procs /\ job' = [q \in Procs |-> job'[q]]
  BY <1>2
<1> HIDE DEF todo
<1>8. j \in Job /\ j.at = "restore" /\ j.batch = <<>>
  BY <1>3, <1>4, IdleFacts DEF Job
<1> HIDE DEF j
<1>9. JobFits(p, job'[p]) /\ job'[p].at = "restore" /\ ~Carries(job'[p])
  BY <1>1, <1>5, <1>8 DEF JobFits, Carries, Rewinding
<1>10. ASSUME NEW q \in Procs \ {p}
       PROVE  /\ job'[q] \in Job /\ job'[q].at = job[q].at /\ job'[q].batch = job[q].batch
              /\ JobFits(q, job'[q]) /\ (Carries(job'[q]) <=> Carries(job[q]))
  <2> DEFINE d == job[q].at = "tool"
  <2>1. job'[q] = [job[q] EXCEPT !.disturbed = d] /\ d \in BOOLEAN
    BY <1>6
  <2>2. job[q] \in Job /\ JobFits(q, job[q])
    BY Held DEF JobFits
  <2> HIDE DEF d
  <2>3. job'[q] \in Job /\ job'[q].at = job[q].at /\ job'[q].batch = job[q].batch
    BY <2>1, <2>2 DEF Job
  <2> QED
    BY <2>2, <2>3 DEF JobFits, Carries
<1>11. \A q \in Procs : job'[q] \in Job
  BY <1>9, <1>10 DEF JobFits
<1>12. job' \in [Procs -> Job]
  BY <1>7, <1>11
<1>13. RestFits'
  BY <1>1, Held, LockFacts DEF RestFits
<1>14. TypeOK'
  BY <1>12, <1>13 DEF TypeOK, RestFits
<1>15. Readable'
  BY <1>1 DEF Readable
<1>16. \A i \in 1..Len(log') : LineFits(log'[i])
  BY <1>1 DEF Shape
<1>17. \A i \in 1..Len(tail') : LineFits(tail'[i])
  BY <1>1 DEF Shape
<1>18. ASSUME NEW q \in Procs
       PROVE  job'[q].at \in Locked <=> lock' = q
  BY <1>1, <1>9, <1>10, Held DEF Lock, Locked
<1>19. ASSUME NEW q \in Procs, NEW r \in Procs, Carries(job'[q]), Carries(job'[r])
       PROVE  q = r
  BY <1>9, <1>10, <1>19 DEF Shape
<1> QED
  BY <1>9, <1>10, <1>14, <1>15, <1>16, <1>17, <1>18, <1>19 DEF Shape

\* A tool call changes the history of its checkpoint in the log, and the files.
ToolChanges(p) ==
    /\ Carries(job[p]) /\ job[p].batch[1] \in Line /\ job[p].batch[1].file \in Files
    /\ Alike(log, log')
    /\ log' = log \/ (log' = Noted(log, job[p].batch[1]) /\ ~job[p].disturbed)
    /\ \E c \in Contents \cup {Absent} : ws' = [ws EXCEPT ![job[p].batch[1].file] = c]
    /\ \/ job'[p] = Idle
       \/ /\ p \in Batchers
          /\ job'[p] \in Job /\ job'[p].at = "flush" /\ job'[p].meta = job[p].meta
          /\ job'[p].batch = Noted(job[p].batch, job[p].batch[1])
          /\ Alike(job[p].batch, job'[p].batch)
    /\ \A q \in Procs \ {p} :
         /\ job'[q] \in Job /\ job'[q].at = job[q].at /\ job'[q].batch = job[q].batch
         /\ job'[q].meta = job[q].meta /\ job'[q].target = job[q].target
         /\ job'[q].todo = job[q].todo /\ (job'[q].disturbed <=> job[q].at = "restore")

\* A tool call does just that.
LEMMA ToolFacts ==
  ASSUME Shape, NEW p \in Procs, Tool(p)
  PROVE  ToolChanges(p) /\ DOMAIN job' = Procs
<1> DEFINE ckpt == job[p].batch[1]
<1>1. /\ job[p].at = "tool"
      /\ \E c \in (Contents \cup {Absent}) \ {ws[ckpt.file]} : ws' = [ws EXCEPT ![ckpt.file] = c]
      /\ log' = IF job[p].disturbed THEN log ELSE Noted(log, ckpt)
      /\ job' = [q \in Procs |->
              IF q # p THEN [job[q] EXCEPT !.disturbed = job[q].at = "restore"]
              ELSE IF p \in Batchers
                   THEN [job[p] EXCEPT !.at = "flush", !.batch = Noted(@, ckpt)]
                   ELSE Idle]
  BY DEF Tool
<1>2. JobFits(p, job[p]) /\ TypeOK
  BY Held
<1>3. Carries(job[p]) /\ job[p].batch \in Seq(Line) /\ job[p] \in Job /\ 1 \in 1..Len(job[p].batch)
  <2>1. Carries(job[p]) /\ job[p].batch \in Seq(Line) /\ job[p] \in Job
    BY <1>1, <1>2 DEF JobFits, Job
  <2> QED
    BY <2>1, EmptySeq DEF Carries
<1>4. ckpt \in Line /\ ckpt.file \in Files
  BY <1>2, <1>3 DEF JobFits, Carries, LineFits
<1>5. log \in Seq(Line) /\ \A line \in Line : SameLine(line, line)
  BY <1>2 DEF TypeOK, SameLine
<1>6. Alike(log, log) /\ Alike(log, Noted(log, ckpt)) /\ Alike(job[p].batch, Noted(job[p].batch, ckpt))
  BY <1>2, <1>3, <1>4, <1>5, NotedFacts DEF Alike
<1> HIDE DEF ckpt
<1>7. Alike(log, log') /\ (log' = log \/ (log' = Noted(log, ckpt) /\ ~job[p].disturbed))
  BY <1>1, <1>6
<1>8. \/ job'[p] = Idle
      \/ /\ p \in Batchers
         /\ job'[p] \in Job /\ job'[p].at = "flush" /\ job'[p].meta = job[p].meta
         /\ job'[p].batch = Noted(job[p].batch, ckpt)
  <2>1. CASE p \notin Batchers
    BY <1>1, <2>1
  <2>2. CASE p \in Batchers
    <3> DEFINE b == Noted(job[p].batch, ckpt)
    <3>1. job'[p] = [job[p] EXCEPT !.at = "flush", !.batch = b]
      BY <1>1, <2>2
    <3>2. b \in Seq(Line)
      BY <1>6 DEF Alike
    <3> HIDE DEF b
    <3>3. job'[p] \in Job /\ job'[p].at = "flush" /\ job'[p].batch = b /\ job'[p].meta = job[p].meta
      BY <1>3, <3>1, <3>2 DEF Job
    <3> QED
      BY <2>2, <3>3 DEF b
  <2> QED
    BY <2>1, <2>2
<1>9. ASSUME NEW q \in Procs \ {p}
      PROVE  /\ job'[q] \in Job /\ job'[q].at = job[q].at /\ job'[q].batch = job[q].batch
             /\ job'[q].meta = job[q].meta /\ job'[q].target = job[q].target
             /\ job'[q].todo = job[q].todo /\ (job'[q].disturbed <=> job[q].at = "restore")
  <2> DEFINE d == job[q].at = "restore"
  <2>1. job'[q] = [job[q] EXCEPT !.disturbed = d] /\ d \in BOOLEAN
    BY <1>1
  <2>2. job[q] \in Job
    BY Held DEF JobFits
  <2>3. job'[q].disturbed = d
    <3> HIDE DEF d
    <3> QED
      BY <2>1, <2>2 DEF Job
  <2>4. job'[q] \in Job /\ job'[q].at = job[q].at /\ job'[q].batch = job[q].batch
        /\ job'[q].meta = job[q].meta /\ job'[q].target = job[q].target
        /\ job'[q].todo = job[q].todo
    <3> HIDE DEF d
    <3> QED
      BY <2>1, <2>2 DEF Job
  <2> QED
    BY <2>3, <2>4
<1>10. \E c \in Contents \cup {Absent} : ws' = [ws EXCEPT ![ckpt.file] = c]
  BY <1>1
<1>11. DOMAIN job' = Procs
  BY <1>1
<1> QED
  BY <1>3, <1>4, <1>6, <1>7, <1>8, <1>9, <1>10, <1>11 DEF ToolChanges, ckpt

\* Lines that are alike fit alike.
LEMMA AlikeFits ==
  ASSUME NEW l1 \in Seq(Line), NEW l2, Alike(l1, l2)
  PROVE  /\ (\A i \in 1..Len(l1) : LineFits(l1[i])) => \A i \in 1..Len(l2) : LineFits(l2[i])
         /\ \A i \in 1..Len(l1) : /\ Parses(l2[i]) <=> Parses(l1[i])
                                  /\ IsCheckpoint(l2[i]) <=> IsCheckpoint(l1[i])
BY DEF Alike, SameLine, LineFits, Parses, IsCheckpoint

\* So it keeps the shape.
LEMMA ShapeTools ==
  ASSUME Shape, NEW p \in Procs, Tool(p)
  PROVE  Shape'
<1>1. ToolChanges(p) /\ DOMAIN job' = Procs
  BY ToolFacts
<1>2. job[p].at = "tool" /\ UNCHANGED <<tail, meta, blobs, lock, fork, faults, named, acked>>
  BY DEF Tool
<1>3. JobFits(p, job[p]) /\ log \in Seq(Line) /\ job[p].batch \in Seq(Line)
  BY Held DEF JobFits, Job, RestFits
<1>4. RestFits'
  <2>1. log' \in Seq(Line)
    BY <1>1 DEF ToolChanges, Alike
  <2>2. ws' \in [Files -> Contents \cup {Absent}]
    BY <1>1, Held DEF ToolChanges, RestFits
  <2> QED
    BY <1>2, <2>1, <2>2, Held DEF RestFits
<1>5. \A i \in 1..Len(log') : LineFits(log'[i])
  BY <1>1, <1>3, AlikeFits DEF ToolChanges, Shape
<1>6. \A i \in 1..Len(tail') : LineFits(tail'[i])
  BY <1>2 DEF Shape
<1>7. Readable' <=> Readable
  <2>1. Len(log') = Len(log) /\ log' \in Seq(Line)
    BY <1>1 DEF ToolChanges, Alike
  <2>2. \A i \in 1..Len(log) : Parses(log'[i]) <=> Parses(log[i])
    BY <1>1, <1>3, AlikeFits DEF ToolChanges
  <2>3. DOMAIN log = 1..Len(log) /\ DOMAIN log' = 1..Len(log')
    BY <1>3, <2>1
  <2> QED
    BY <2>1, <2>2, <2>3 DEF Readable, Parses
<1>8. JobFits(p, job'[p]) /\ job'[p].at \in {"idle", "flush"}
  <2>1. CASE job'[p] = Idle
    BY <2>1, IdleFacts
  <2>2. CASE job'[p] # Idle
    <3>1. /\ job'[p] \in Job /\ job'[p].at = "flush" /\ Alike(job[p].batch, job'[p].batch) /\ p \in Batchers
      BY <1>1, <2>2 DEF ToolChanges
    <3>2. \A i \in 1..Len(job'[p].batch) :
              /\ LineFits(job'[p].batch[i]) /\ Parses(job'[p].batch[i])
              /\ IsCheckpoint(job'[p].batch[i]) => i = 1 /\ p \in Agents
      BY ZenonT(60), <1>3, <3>1, AlikeFits DEF JobFits, Alike
    <3>3. Carries(job[p]) /\ 1 \in 1..Len(job[p].batch)
      <4>1. Carries(job[p])
        BY <1>1 DEF ToolChanges
      <4> QED
        BY <1>3, <4>1, EmptySeq DEF Carries
    <3>4. IsCheckpoint(job'[p].batch[1]) /\ Len(job'[p].batch) # 0
      <4>1. IsCheckpoint(job[p].batch[1])
        BY <3>3 DEF Carries
      <4>2. Len(job'[p].batch) = Len(job[p].batch)
        BY <3>1 DEF Alike
      <4>3. \A i \in 1..Len(job[p].batch) : IsCheckpoint(job'[p].batch[i]) <=> IsCheckpoint(job[p].batch[i])
        BY <1>3, <3>1, AlikeFits
      <4> QED
        BY <3>3, <4>1, <4>2, <4>3
    <3>5. job'[p].batch # <<>>
      BY <3>4, EmptySeq
    <3>6. Len(job'[p].batch) = 1
      BY <1>2, <1>3, <3>1 DEF JobFits, Alike
    <3> QED
      BY <3>1, <3>2, <3>4, <3>5, <3>6 DEF JobFits, Carries, Rewinding
  <2> QED
    BY <2>1, <2>2
<1>9. ASSUME NEW q \in Procs \ {p}
      PROVE  JobFits(q, job'[q]) /\ job'[q].at = job[q].at /\ (Carries(job'[q]) <=> Carries(job[q]))
  BY <1>1, Held DEF ToolChanges, JobFits, Carries
<1>10. job' \in [Procs -> Job]
  <2>1. \A q \in Procs : job'[q] \in Job
    BY <1>8, <1>9 DEF JobFits
  <2>2. job' = [q \in Procs |-> job'[q]]
    <3>1. job' = [q \in DOMAIN job' |-> job'[q]]
      BY DEF Tool
    <3> QED
      BY <1>1, <3>1
  <2> QED
    BY <2>1, <2>2
<1>11. TypeOK'
  BY <1>4, <1>10 DEF TypeOK, RestFits
<1>12. ASSUME NEW q \in Procs
       PROVE  (job'[q].at \in Locked <=> lock' = q) /\ (job'[q].at \in Rewinding => Readable')
  BY <1>2, <1>7, <1>8, <1>9 DEF Shape, Locked, Rewinding
<1>13. ASSUME NEW q \in Procs, NEW r \in Procs, Carries(job'[q]), Carries(job'[r])
       PROVE  q = r
  <2>1. Carries(job[p])
    BY <1>1 DEF ToolChanges
  <2> QED
    BY <1>9, <1>13, <2>1 DEF Shape
<1> QED
  BY <1>5, <1>6, <1>8, <1>9, <1>11, <1>12, <1>13 DEF Shape

-----------------------------------------------------------------------------
(* The numbers of the events.                                              *)

\* A sequence with one element more.
LEMMA ConcatOne ==
  ASSUME NEW S, NEW s \in Seq(S), NEW t \in Seq(S), Len(t) = 1
  PROVE  /\ s \o t \in Seq(S) /\ Len(s \o t) = Len(s) + 1 /\ Len(s) <= Len(s \o t)
         /\ \A i \in 1..Len(s) : (s \o t)[i] = s[i]
         /\ (s \o t)[Len(s) + 1] = t[1]
<1>0. s \o t \in Seq(S) /\ Len(s \o t) = Len(s) + Len(t) /\ Len(s) \in Nat
  BY SMTT(60), ConcatProperties
<1>1. s \o t \in Seq(S) /\ Len(s \o t) = Len(s) + 1 /\ Len(s) \in Nat
  BY <1>0, Zenon
<1>2. \A i \in 1..Len(s) : (s \o t)[i] = s[i]
  OBVIOUS
<1>3. (s \o t)[Len(s) + 1] = t[1]
  OBVIOUS
<1> QED
  BY <1>1, <1>2, <1>3

\* The events of the next state, place by place.
LEMMA EventsNext ==
  ASSUME RestFits'
  PROVE  /\ Events' \in Seq(Line)
         /\ Len(log') <= Len(Events')
         /\ \A i \in 1..Len(log') : Events'[i] = log'[i]
         /\ tail' = <<>> \/ ~Parses(tail'[1]) => Events' = log'
         /\ tail' # <<>> /\ Parses(tail'[1]) => Len(Events') = Len(log') + 1 /\ Events'[Len(log') + 1] = tail'[1]
<1>1. log' \in Seq(Line) /\ tail' \in Seq(Line) /\ Len(tail') <= 1
  BY DEF RestFits
<1>2. Events' = log' \o IF tail' # <<>> /\ Parses(tail'[1]) THEN tail' ELSE <<>>
  BY DEF Events, Parses
<1>3. CASE tail' # <<>> /\ Parses(tail'[1])
  <2>1. Events' = log' \o tail'
    BY <1>2, <1>3
  <2>2. Len(tail') = 1 /\ tail'[1] \in Line
    BY <1>1, <1>3, AtMostOne
  <2> QED
    BY <1>1, <1>3, <2>1, <2>2, ConcatOne
<1>4. CASE ~(tail' # <<>> /\ Parses(tail'[1]))
  <2>1. Events' = log'
    BY <1>1, <1>2, <1>4
  <2> QED
    BY <1>1, <1>4, <2>1
<1> QED
  BY <1>3, <1>4

\* The smallest number that has none of the first n in I before it.
LEMMA FirstOutside ==
  ASSUME NEW n \in Nat, NEW I \in SUBSET (1..n),
         \A i, k \in 1..n : i < k /\ k \in I => i \in I
  PROVE  \E m \in 0..n : I = 1..m
<1> DEFINE out == {i \in 1..(n + 1) : i \notin I}
<1>1. out \subseteq Nat /\ n + 1 \in out
  OBVIOUS
<1>2. PICK t \in out : \A y \in out : ~(y < t)
  <2>1. IsWellFoundedOn(OpToRel(<, Nat), Nat)
    BY NatLessThanWellFounded
  <2>2. PICK t \in out : \A y \in out : ~(<<y, t>> \in OpToRel(<, Nat))
    BY ZenonT(60), <1>1, <2>1, WFMin
  <2> QED
    BY <1>1, <2>2 DEF OpToRel
<1>3. t \in 1..(n + 1) /\ t \notin I /\ \A i \in 1..(n + 1) : i < t => i \in I
  BY <1>2
<1>4. ASSUME NEW i \in I
      PROVE  i \in 1..(t - 1)
  <2>1. i \in 1..n /\ i # t
    BY <1>3
  <2>2. ~(t < i)
    BY <1>3, <2>1
  <2> QED
    BY <1>3, <2>1, <2>2
<1>a. \A i \in 1..(t - 1) : i \in I
  BY <1>3
<1>5. I = 1..(t - 1)
  BY <1>4, <1>a
<1> QED
  BY SMTT(60), <1>3, <1>5

\* What a selection of the first m keeps.
LEMMA ChosenFirst ==
  ASSUME NEW s \in Seq(Line), NEW m \in 0..Len(s)
  PROVE  Chosen(s, 1..m) = [k \in 1..m |-> s[k]]
<1>1. Cardinality(1..m) = m
  BY FS_Interval
<1>2. ASSUME NEW k \in 1..m
      PROVE  (CHOOSE i \in 1..m : Cardinality({j \in 1..m : j <= i}) = k) = k
  <2>1. ASSUME NEW i \in 1..m
        PROVE  Cardinality({j \in 1..m : j <= i}) = i
    <3>1. {j \in 1..m : j <= i} = 1..i
      OBVIOUS
    <3>2. Cardinality(1..i) = i
      BY FS_Interval
    <3> QED
      BY <3>1, <3>2
  <2> QED
    BY <2>1
<1>3. Chosen(s, 1..m) =
        [k \in 1..Cardinality(1..m) |-> s[CHOOSE i \in 1..m : Cardinality({j \in 1..m : j <= i}) = k]]
  BY DEF Chosen
<1> QED
  BY <1>1, <1>2, <1>3

\* A rewind keeps a prefix of the events.
LEMMA KeptIsPrefix ==
  ASSUME TypeOK, Increasing(Events), NEW target \in Nat
  PROVE  \E m \in 0..Len(Events) :
            /\ Kept(target) \in Seq(Line) /\ Len(Kept(target)) = m
            /\ \A i \in 1..m : Kept(target)[i] = Events[i]
            /\ \A i \in 1..Len(Events) : i <= m <=> Events[i].seq <= target
<1> DEFINE e == Events
           I == {i \in DOMAIN e : e[i].seq <= target}
<1>1. e \in Seq(Line)
  BY EventsFacts
<1>2. \A i \in 1..Len(e) : e[i] \in Line
  <2> HIDE DEF e
  <2> QED
    BY <1>1
<1>3. \A i \in 1..Len(e) : e[i].seq \in Nat
  BY <1>2 DEF Line
<1>4. I = {i \in 1..Len(e) : e[i].seq <= target} /\ Len(e) \in Nat
  BY <1>1
<1>5. \A i, k \in 1..Len(e) : i < k /\ k \in I => i \in I
  BY <1>3, <1>4 DEF Increasing
<1>6. PICK m \in 0..Len(e) : I = 1..m
  <2> HIDE DEF I, e
  <2>1. I \in SUBSET (1..Len(e))
    BY <1>4
  <2> QED
    BY <1>4, <1>5, <2>1, FirstOutside
<1>7. Kept(target) = Chosen(e, I)
  BY DEF Kept
<1> HIDE DEF I, e
<1>8. Kept(target) = [k \in 1..m |-> e[k]]
  BY <1>1, <1>6, <1>7, ChosenFirst
<1>9. m \in Nat /\ \A k \in 1..m : e[k] \in Line /\ k \in 1..Len(e)
  BY <1>1, <1>2, <1>4
<1>10. Kept(target) \in Seq(Line) /\ Len(Kept(target)) = m /\ \A i \in 1..m : Kept(target)[i] = e[i]
  BY <1>8, <1>9
<1>11. \A i \in 1..Len(e) : i <= m <=> e[i].seq <= target
  BY <1>4, <1>6
<1> QED
  BY <1>10, <1>11 DEF e

\* A new session has no numbers.
LEMMA NumbersInit == Init => Numbers
<1> SUFFICES ASSUME Init PROVE Numbers
  OBVIOUS
<1>1. TypeOK /\ Len(log) = 0 /\ tail = <<>>
  BY ShapeInit DEF Shape, Init
<1>2. Events = log /\ Len(Events) = 0
  BY <1>1, EventsFacts
<1>3. \A p \in Procs : job[p].at = "idle"
  BY IdleFacts DEF Init
<1>4. acked = {}
  BY DEF Init
<1> QED
  BY <1>2, <1>3, <1>4 DEF Numbers, Increasing

\* An append that is prepared goes on where the log ends.
LEMMA PreparedFollows ==
  ASSUME Shape, Numbers, NEW batch \in Seq(Line), batch # <<>>,
         \A i \in 1..Len(batch) : batch[i].type = "usage" =>
            Len(batch) = 1 /\ (Readable => ~Has(Events, "usage"))
  PROVE  BatchFollows(Prepared(batch))
<1>1. TypeOK /\ log \in Seq(Line)
  BY DEF Shape, TypeOK
<1>2. NextSequence \in Nat \ {0}
  BY <1>1, NextSequenceFacts
<1> DEFINE b == Prepared(batch).batch
<1>3. /\ b \in Seq(Line) /\ Len(b) = Len(batch) /\ 1 \in 1..Len(batch)
      /\ \A i \in 1..Len(batch) : b[i].seq = NextSequence + i - 1 /\ b[i].type = batch[i].type
  <2>1. Prepared(batch).batch = Numbered(batch, NextSequence)
    BY <1>1, PreparedFacts
  <2>2. 1 \in 1..Len(batch)
    BY EmptySeq
  <2> QED
    BY <1>2, <2>1, <2>2, NumberedFacts
<1> HIDE DEF b
<1>4. b[1].seq = NextSequence
  BY <1>2, <1>3
<1>5. \A i \in 1..Len(b) : b[i].seq = b[1].seq + i - 1
  BY <1>3, <1>4
<1>6. ASSUME Readable, NEW i \in 1..Len(log)
      PROVE  log[i].seq < b[1].seq
  <2>1. Len(log) \in 1..Len(log) /\ log # <<>>
    BY <1>1
  <2>2. log[i] \in Line /\ log[Len(log)] \in Line
    BY <1>1, <2>1
  <2>3. log[i].seq \in Nat /\ log[Len(log)].seq \in Nat
    BY <2>2 DEF Line
  <2>4. Parses(log[Len(log)])
    BY <1>1, <1>6, <2>1 DEF Readable
  <2>5. log[i].seq <= log[Len(log)].seq
    <3>1. CASE i = Len(log)
      BY <2>3, <3>1
    <3>2. CASE i # Len(log)
      <4>1. i < Len(log) /\ i \in 1..Len(Events) /\ Len(log) \in 1..Len(Events)
        BY <1>1, <2>1, <3>2, EventsFacts
      <4>2. Events[i].seq < Events[Len(log)].seq
        BY <1>6, <4>1 DEF Numbers, Increasing
      <4> QED
        BY <1>1, <2>1, <2>3, <4>2, EventsFacts
    <3> QED
      BY <3>1, <3>2
  <2> QED
    BY <1>1, <1>2, <1>4, <2>1, <2>3, <2>4, <2>5, NextSequenceFacts
<1>7. ASSUME NEW i \in 1..Len(b), b[i].type = "usage"
      PROVE  Len(b) = 1 /\ (Readable => ~Has(Events, "usage"))
  BY <1>3, <1>7
<1> QED
  BY <1>5, <1>6, <1>7 DEF BatchFollows, b

\* A step that leaves the log alone.
LEMMA NumbersQuiet ==
  ASSUME Shape, Numbers, NEW p \in Procs, NEW j, job' = [job EXCEPT ![p] = j],
         log' = log, tail' = tail,
         j.at = "write" => BatchFollows(j), j.at = "meta" => BatchWritten(j),
         acked' \subseteq acked \/ (BatchWritten(job[p]) /\
             acked' = acked \cup {job[p].batch[i].seq : i \in DOMAIN job[p].batch})
  PROVE  Numbers'
<1>1. (Readable' <=> Readable) /\ Events' = Events
  BY DEF Readable, Events, Parses
<1>2. job \in [Procs -> Job] /\ job[p].batch \in Seq(Line)
  BY Held DEF JobFits, Job
<1>3. job'[p] = j /\ \A q \in Procs \ {p} : job'[q] = job[q]
  BY <1>2
<1>4. ASSUME Readable, NEW n \in acked'
      PROVE  \E k \in 1..Len(log) : log[k].seq = n
  <2>1. CASE n \in acked
    BY <1>4, <2>1 DEF Numbers
  <2>2. CASE n \notin acked
    <3>1. DOMAIN job[p].batch = 1..Len(job[p].batch)
      BY <1>2
    <3>2. PICK i \in 1..Len(job[p].batch) : n = job[p].batch[i].seq
      BY <1>4, <2>2, <3>1
    <3> QED
      BY <1>4, <2>2, <3>2 DEF BatchWritten
  <2> QED
    BY <2>1, <2>2
<1>5. ASSUME NEW q \in Procs, job'[q].at = "write"
      PROVE  BatchFollows(job[q])' 
  <2>1. BatchFollows(job'[q])
    BY <1>3, <1>5 DEF Numbers
  <2> QED
    BY <1>1, <2>1 DEF BatchFollows, Has
<1>6. ASSUME NEW q \in Procs, job'[q].at = "meta"
      PROVE  BatchWritten(job[q])'
  <2>1. BatchWritten(job'[q])
    BY <1>3, <1>6 DEF Numbers
  <2> QED
    BY <1>1, <2>1 DEF BatchWritten
<1>7. Readable' => Increasing(Events')
  BY <1>1 DEF Numbers
<1>8. Readable' => \A n \in acked' : \E k \in 1..Len(log') : log'[k].seq = n
  BY <1>1, <1>4
<1>9. Readable' => \A i, k \in 1..Len(Events') : Events'[i].type = "usage" /\ Events'[k].type = "usage" => i = k
  BY <1>1 DEF Numbers
<1> QED
  BY <1>5, <1>6, <1>7, <1>8, <1>9 DEF Numbers, Increasing

\* What a write leaves: of the batch, the first k lines and perhaps a last one.
Wrote(p, k) ==
    /\ k \in 0..Len(job[p].batch)
    /\ log' = Extend(SubSeq(job[p].batch, 1, k))
    /\ \/ tail' = <<>>
       \/ tail' = <<Malformed>>
       \/ k < Len(job[p].batch) /\ tail' = <<job[p].batch[k + 1]>> /\ ~(k = 0 /\ tail # <<>>)

\* As long as the log can be read, what was added to it is the start of the batch.
LEMMA WroteFacts ==
  ASSUME Shape, NEW p \in Procs, job[p].at = "write", NEW k \in Nat, Wrote(p, k), RestFits', Readable'
  PROVE  /\ Readable /\ Len(log') = Len(log) + k /\ (k > 0 => tail = <<>>)
         /\ \A i \in 1..Len(log) : log'[i] = log[i]
         /\ \A i \in 1..k : log'[Len(log) + i] = job[p].batch[i]
         /\ \A i \in 1..Len(Events') :
              \/ i \in 1..Len(log) /\ Events'[i] = log[i]
              \/ /\ tail = <<>> /\ i > Len(log) /\ i - Len(log) \in 1..Len(job[p].batch)
                 /\ Events'[i] = job[p].batch[i - Len(log)]
<1> DEFINE b == job[p].batch
           part == SubSeq(b, 1, k)
<1>1. TypeOK /\ log \in Seq(Line) /\ b \in Seq(Line) /\ Len(log) \in Nat /\ Len(b) \in Nat
  BY Held DEF JobFits, Job, RestFits
<1>2. part \in Seq(Line) /\ Len(part) = k /\ (\A i \in 1..k : part[i] = b[i]) /\ k <= Len(b)
  BY <1>1 DEF Wrote
<1>3. log' = Extend(part)
  BY DEF Wrote
<1>4. /\ log' \in Seq(Line) /\ Len(log') = Len(log) + k
      /\ \A i \in 1..Len(log) : log'[i] = log[i]
      /\ \A i \in 1..k : log'[Len(log) + i] = IF i = 1 /\ tail # <<>> THEN Malformed ELSE part[i]
  <2> HIDE DEF part
  <2> QED
    BY <1>1, <1>2, <1>3, ExtendFacts
<1>5. \A i \in 1..Len(log') : Parses(log'[i])
  BY <1>4 DEF Readable, Parses
<1>6. Readable
  BY SMTT(60), <1>1, <1>4, <1>5 DEF Readable
<1>7. k > 0 => tail = <<>>
  <2> SUFFICES ASSUME k > 0, tail # <<>> PROVE FALSE
    OBVIOUS
  <2>1. log'[Len(log) + 1] = Malformed /\ Len(log) + 1 \in 1..Len(log')
    BY <1>1, <1>4
  <2> QED
    BY <1>5, <2>1, MalformedFits
<1>8. \A i \in 1..k : log'[Len(log) + i] = b[i]
  BY <1>2, <1>4, <1>7
<1>9. ASSUME NEW i \in 1..Len(Events')
      PROVE  \/ i \in 1..Len(log) /\ Events'[i] = log[i]
             \/ /\ tail = <<>> /\ i > Len(log) /\ i - Len(log) \in 1..Len(b)
                /\ Events'[i] = b[i - Len(log)]
  <2>1. CASE i <= Len(log')
    <3>1. Events'[i] = log'[i]
      BY <1>1, <1>4, <2>1, EventsNext
    <3>2. CASE i <= Len(log)
      BY <1>1, <1>4, <3>1, <3>2
    <3>3. CASE i > Len(log)
      <4>1. i - Len(log) \in 1..k /\ i = Len(log) + (i - Len(log))
        BY <1>1, <1>4, <2>1, <3>3
      <4>2. log'[i] = b[i - Len(log)]
        BY <1>8, <4>1
      <4> QED
        BY <1>1, <1>2, <1>7, <3>1, <3>3, <4>1, <4>2
    <3> QED
      BY <1>1, <3>2, <3>3
  <2>2. CASE i > Len(log')
    <3>1. tail' # <<>> /\ Parses(tail'[1])
      BY <1>1, <1>4, <2>2, EventsNext
    <3>2. Len(Events') = Len(log') + 1 /\ Events'[Len(log') + 1] = tail'[1]
      BY <3>1, EventsNext
    <3>3. i = Len(log') + 1
      BY <1>1, <1>4, <2>2, <3>2
    <3>4. tail' # <<Malformed>>
      BY <3>1, MalformedFits
    <3>5. k < Len(b) /\ tail' = <<b[k + 1]>> /\ ~(k = 0 /\ tail # <<>>)
      BY <3>1, <3>4 DEF Wrote
    <3>6. tail = <<>>
      BY <1>7, <3>5
    <3>7. i = Len(log) + (k + 1) /\ k + 1 \in 1..Len(b) /\ i - Len(log) = k + 1 /\ i > Len(log)
      BY SMTT(60), <1>1, <1>4, <3>3, <3>5
    <3>8. Events'[i] = b[k + 1]
      BY <3>2, <3>3, <3>5
    <3> QED
      BY <3>6, <3>7, <3>8
  <2> QED
    BY <1>1, <1>4, <2>1, <2>2
<1> QED
  BY <1>4, <1>6, <1>7, <1>8, <1>9

\* A broken write leaves a part of the batch, or nothing.
LEMMA Breaks ==
  ASSUME Shape, NEW p \in Procs, BreakWrite(p)
  PROVE  UNCHANGED <<log, tail>> \/ \E k \in Nat : Wrote(p, k)
<1>1. CASE UNCHANGED <<log, tail>>
  BY <1>1
<1>2. CASE ~UNCHANGED <<log, tail>>
  <2>1. PICK k \in 0..(Len(job[p].batch) - 1) :
               /\ log' = Extend(SubSeq(job[p].batch, 1, k))
               /\ tail' \in {<<Malformed>>} \cup
                    (IF k = 0 /\ tail # <<>> THEN {} ELSE {<<job[p].batch[k + 1]>>})
    BY <1>2 DEF BreakWrite
  <2>2. job[p].batch \in Seq(Line)
    BY Held DEF JobFits, Job
  <2>3. k \in Nat /\ k < Len(job[p].batch) /\ k \in 0..Len(job[p].batch)
    BY <2>2
  <2> QED
    BY <2>1, <2>3 DEF Wrote
<1> QED
  BY <1>1, <1>2

\* A write leaves all of it.
LEMMA Writes ==
  ASSUME Shape, NEW p \in Procs, WriteLog(p)
  PROVE  Wrote(p, Len(job[p].batch)) /\ Len(job[p].batch) \in Nat
<1>1. job[p].batch \in Seq(Line)
  BY Held DEF JobFits, Job
<1>2. SubSeq(job[p].batch, 1, Len(job[p].batch)) = job[p].batch
  BY <1>1
<1>3. Len(job[p].batch) \in Nat
  BY <1>1
<1>4. Len(job[p].batch) \in 0..Len(job[p].batch)
  BY <1>3
<1>5. log' = Extend(job[p].batch) /\ tail' = <<>>
  BY DEF WriteLog
<1> QED
  BY <1>2, <1>3, <1>4, <1>5 DEF Wrote

\* A write keeps the numbers in order.
LEMMA NumbersWrote ==
  ASSUME Shape, Numbers, NEW p \in Procs, job[p].at = "write", NEW k \in Nat, Wrote(p, k), RestFits', Readable'
  PROVE  /\ Increasing(Events')
         /\ \A n \in acked : \E i \in 1..Len(log') : log'[i].seq = n
         /\ \A i, m \in 1..Len(Events') : Events'[i].type = "usage" /\ Events'[m].type = "usage" => i = m
<1> DEFINE b == job[p].batch
<1>1. TypeOK /\ log \in Seq(Line) /\ b \in Seq(Line) /\ Len(log) \in Nat /\ Len(b) \in Nat
  BY Held DEF JobFits, Job, RestFits
<1>2. /\ Readable /\ BatchFollows(job[p]) /\ Increasing(Events)
  BY WroteFacts DEF Numbers
<1>3. \A i \in 1..Len(log) : i \in 1..Len(Events) /\ Events[i] = log[i]
  BY <1>1, EventsFacts
<1>4. /\ Len(log') = Len(log) + k
      /\ \A i \in 1..Len(log) : log'[i] = log[i]
      /\ \A i \in 1..Len(Events') :
              \/ i \in 1..Len(log) /\ Events'[i] = log[i]
              \/ /\ tail = <<>> /\ i > Len(log) /\ i - Len(log) \in 1..Len(b)
                 /\ Events'[i] = b[i - Len(log)]
  BY WroteFacts
<1>5. /\ \A i \in 1..Len(log) : log[i].seq \in Nat
      /\ \A i \in 1..Len(b) : b[i].seq \in Nat /\ 1 \in 1..Len(b)
  <2> HIDE DEF b
  <2>1. /\ \A i \in 1..Len(log) : log[i] \in Line
        /\ \A i \in 1..Len(b) : b[i] \in Line /\ 1 \in 1..Len(b)
    BY <1>1
  <2> QED
    BY <2>1 DEF Line
<1>6. /\ \A i \in 1..Len(b) : b[i].seq = b[1].seq + i - 1
      /\ tail = <<>> => \A i \in 1..Len(log) : log[i].seq < b[1].seq
      /\ \A i \in 1..Len(b) : b[i].type = "usage" => Len(b) = 1 /\ ~Has(Events, "usage")
  BY <1>2 DEF BatchFollows
<1> HIDE DEF b
<1>7. ASSUME NEW i \in 1..Len(Events'), NEW m \in 1..Len(Events'), i < m
      PROVE  Events'[i].seq < Events'[m].seq
  <2>1. CASE i \in 1..Len(log) /\ Events'[i] = log[i] /\ m \in 1..Len(log) /\ Events'[m] = log[m]
    BY <1>2, <1>3, <1>7, <2>1 DEF Increasing
  <2>2. CASE /\ i \in 1..Len(log) /\ Events'[i] = log[i]
             /\ tail = <<>> /\ m > Len(log) /\ m - Len(log) \in 1..Len(b) /\ Events'[m] = b[m - Len(log)]
    <3>1. PICK u \in 1..Len(b) : Events'[m] = b[u]
      BY <2>2
    <3>2. b[u].seq = b[1].seq + u - 1 /\ log[i].seq < b[1].seq /\ u \in Nat /\ u >= 1
      BY <1>1, <1>6, <2>2, <3>1
    <3>3. b[1].seq \in Nat /\ log[i].seq \in Nat
      BY <1>5, <2>2, <3>1
    <3> DEFINE x == b[1].seq
               y == log[i].seq
               z == b[u].seq
    <3>4. x \in Nat /\ y \in Nat /\ u \in Nat /\ u >= 1 /\ z = x + u - 1 /\ y < x
      BY <3>2, <3>3
    <3>5. y < z
      <4> HIDE DEF x, y, z
      <4> QED
        BY <3>4
    <3> QED
      BY <2>2, <3>1, <3>5
  <2>3. CASE /\ i > Len(log) /\ i - Len(log) \in 1..Len(b) /\ Events'[i] = b[i - Len(log)]
             /\ m > Len(log) /\ m - Len(log) \in 1..Len(b) /\ Events'[m] = b[m - Len(log)]
    <3>1. PICK u \in 1..Len(b), v \in 1..Len(b) : Events'[i] = b[u] /\ Events'[m] = b[v] /\ u < v
      BY SMTT(60), <1>1, <1>7, <2>3
    <3>2. b[u].seq = b[1].seq + u - 1 /\ b[v].seq = b[1].seq + v - 1
      BY <1>6
    <3>3. b[1].seq \in Nat /\ u \in Nat /\ v \in Nat
      BY <1>1, <1>5, <3>1
    <3> QED
      BY SMTT(60), <3>1, <3>2, <3>3
  <2>4. i > Len(log) => ~(m \in 1..Len(log))
    BY <1>1, <1>7
  <2> QED
    BY <1>4, <2>1, <2>2, <2>3, <2>4
<1>8. ASSUME NEW n \in acked
      PROVE  \E i \in 1..Len(log') : log'[i].seq = n
  <2>1. PICK i \in 1..Len(log) : log[i].seq = n
    BY <1>2 DEF Numbers
  <2>2. i \in 1..Len(log') /\ log'[i] = log[i]
    BY <1>1, <1>4
  <2> QED
    BY <2>1, <2>2
<1>9. ASSUME NEW i \in 1..Len(Events'), NEW m \in 1..Len(Events'),
             Events'[i].type = "usage", Events'[m].type = "usage"
      PROVE  i = m
  <2>1. CASE i \in 1..Len(log) /\ Events'[i] = log[i] /\ m \in 1..Len(log) /\ Events'[m] = log[m]
    BY <1>2, <1>3, <1>9, <2>1 DEF Numbers
  <2>2. ASSUME NEW v \in 1..Len(log), NEW w \in 1..Len(b), log[v].type = "usage", b[w].type = "usage"
        PROVE  FALSE
    <3>1. Events[v].type = "usage" /\ v \in 1..Len(Events)
      BY <1>3, <2>2
    <3>2. ~Has(Events, "usage")
      BY <1>6, <2>2
    <3> QED
      BY <3>1, <3>2 DEF Has
  <2>3. CASE /\ i > Len(log) /\ i - Len(log) \in 1..Len(b) /\ Events'[i] = b[i - Len(log)]
             /\ m > Len(log) /\ m - Len(log) \in 1..Len(b) /\ Events'[m] = b[m - Len(log)]
    <3>1. Len(b) = 1
      BY <1>6, <1>9, <2>3
    <3>2. i - Len(log) = 1 /\ m - Len(log) = 1
      BY <1>1, <2>3, <3>1
    <3> QED
      BY <1>1, <2>3, <3>2
  <2> QED
    BY <1>4, <1>9, <2>1, <2>2, <2>3
<1> QED
  BY <1>7, <1>8, <1>9 DEF Increasing

\* So a write, whole or broken, keeps the numbers.
LEMMA NumbersWrites ==
  ASSUME Shape, Numbers, NEW p \in Procs, WriteLog(p) \/ BreakWrite(p)
  PROVE  Numbers'
<1>1. job[p].at = "write" /\ acked' = acked
  BY DEF WriteLog, BreakWrite
<1>2. Shape' /\ RestFits'
  <2>1. Shape'
    BY ShapeWrites
  <2> QED
    BY <2>1 DEF Shape, TypeOK, RestFits
<1>3. JobFits(p, job[p]) /\ job \in [Procs -> Job] /\ job[p].batch \in Seq(Line) /\ Len(log) \in Nat
      /\ \A q \in Procs \ {p} : job[q].at \notin Locked
  <2>1. JobFits(p, job[p]) /\ job \in [Procs -> Job] /\ \A q \in Procs \ {p} : job[q].at \notin Locked
    BY <1>1, Held DEF Locked
  <2>2. job[p].batch \in Seq(Line)
    BY <2>1 DEF Job
  <2>3. Len(log) \in Nat
    BY Held DEF RestFits
  <2> QED
    BY <2>1, <2>2, <2>3
<1>4. CASE WriteLog(p)
  <2> DEFINE n == Len(job[p].batch)
  <2>1. Wrote(p, n) /\ n \in Nat
    BY <1>4, Writes
  <2>2. job'[p] = [job[p] EXCEPT !.at = "meta"] /\ \A q \in Procs \ {p} : job'[q] = job[q]
    BY <1>3, <1>4 DEF WriteLog
  <2>3. job'[p].at = "meta" /\ job'[p].batch = job[p].batch
    BY <1>3, <2>2 DEF Job
  <2> HIDE DEF n
  <2>4. ASSUME Readable', NEW i \in 1..Len(job'[p].batch)
        PROVE  \E m \in 1..Len(log') : log'[m].seq = job'[p].batch[i].seq
    <3>1. Len(log') = Len(log) + n /\ log'[Len(log) + i] = job[p].batch[i]
      BY <1>1, <1>2, <2>1, <2>3, <2>4, WroteFacts DEF n
    <3>2. Len(log) + i \in 1..Len(log')
      BY <1>3, <2>1, <2>3, <3>1 DEF n
    <3> QED
      BY <2>3, <3>1, <3>2
  <2>5. BatchWritten(job[p])'
    BY <2>4 DEF BatchWritten
  <2>6. \A q \in Procs : job'[q].at # "write" /\ (job'[q].at = "meta" => q = p)
    BY <1>3, <2>2, <2>3 DEF Locked
  <2>7. Readable' => /\ Increasing(Events')
                     /\ \A a \in acked : \E i \in 1..Len(log') : log'[i].seq = a
                     /\ \A i, m \in 1..Len(Events') : Events'[i].type = "usage" /\ Events'[m].type = "usage" => i = m
    BY <1>1, <1>2, <2>1, NumbersWrote
  <2> QED
    BY <1>1, <2>5, <2>6, <2>7 DEF Numbers, Increasing
<1>5. CASE BreakWrite(p)
  <2>1. job' = [job EXCEPT ![p] = AfterAppend(p)]
    BY <1>5 DEF BreakWrite
  <2>2. AfterAppend(p).at \in {"idle", "tool"}
    BY <1>1, AfterFacts, IdleFacts
  <2>3. \A q \in Procs : job'[q].at # "write" /\ job'[q].at # "meta"
    BY <1>3, <2>1, <2>2 DEF Locked
  <2>4. CASE UNCHANGED <<log, tail>>
    BY <1>1, <2>1, <2>2, <2>4, NumbersQuiet
  <2>5. ASSUME NEW k \in Nat, Wrote(p, k) PROVE Numbers'
    <3>1. Readable' => /\ Increasing(Events')
                       /\ \A a \in acked : \E i \in 1..Len(log') : log'[i].seq = a
                       /\ \A i, m \in 1..Len(Events') : Events'[i].type = "usage" /\ Events'[m].type = "usage" => i = m
      BY <1>1, <1>2, <2>5, NumbersWrote
    <3> QED
      BY <1>1, <2>3, <3>1 DEF Numbers, Increasing
  <2> QED
    BY <1>5, <2>4, <2>5, Breaks
<1> QED
  BY <1>4, <1>5

\* A rewind cuts the log.
LEMMA Truncates ==
  ASSUME Shape, Numbers, NEW p \in Procs, TruncateLog(p)
  PROVE  /\ lock = p /\ Readable /\ Readable' /\ log' \in Seq(Line) /\ tail' = <<>> /\ Events' = log'
         /\ \E m \in 0..Len(Events) :
              /\ Len(log') = m /\ \A i \in 1..m : log'[i] = Events[i]
              /\ \A i \in 1..Len(Events) : i <= m <=> Events[i].seq <= job[p].target
<1>1. job[p].at = "restore" /\ log' = Kept(job[p].target) /\ tail' = <<>>
  BY DEF TruncateLog
<1>2. lock = p /\ Readable /\ TypeOK /\ job[p].target \in Nat
  BY <1>1, Held DEF Shape, Rewinding, Locked, JobFits, Job
<1>3. Increasing(Events) /\ Events \in Seq(Line)
  BY <1>2, EventsFacts DEF Numbers
<1>4. PICK m \in 0..Len(Events) :
            /\ log' \in Seq(Line) /\ Len(log') = m
            /\ \A i \in 1..m : log'[i] = Events[i]
            /\ \A i \in 1..Len(Events) : i <= m <=> Events[i].seq <= job[p].target
  BY <1>1, <1>2, <1>3, KeptIsPrefix
<1>5. \A i \in 1..Len(Events) : Parses(Events[i])
  <2>1. \A i \in 1..Len(log) : Parses(log[i])
    BY <1>2 DEF Readable, TypeOK
  <2>2. Len(log) \in Nat
    BY <1>2 DEF TypeOK
  <2>3. CASE tail # <<>> /\ Parses(tail[1])
    <3>1. \A i \in 1..Len(Events) : i \in 1..Len(log) \/ i = Len(log) + 1
      BY <1>2, <2>2, <2>3, EventsFacts
    <3> QED
      BY <1>2, <2>1, <2>3, <3>1, EventsFacts
  <2>4. CASE ~(tail # <<>> /\ Parses(tail[1]))
    BY <1>2, <2>1, <2>4, EventsFacts
  <2> QED
    BY <2>3, <2>4
<1>6. Readable'
  <2>1. \A i \in 1..Len(log') : i \in 1..Len(Events)
    BY <1>3, <1>4
  <2>2. DOMAIN log' = 1..Len(log')
    BY <1>4
  <2> QED
    BY <1>4, <1>5, <2>1, <2>2 DEF Readable, Parses
<1>7. Events' = log'
  <2>1. Events' = log' \o <<>>
    BY <1>1 DEF Events
  <2> QED
    BY <1>4, <2>1
<1> QED
  BY <1>1, <1>2, <1>4, <1>6, <1>7

\* What a rewind keeps has the shape.
LEMMA ShapeTruncates ==
  ASSUME Shape, Numbers, NEW p \in Procs, TruncateLog(p)
  PROVE  Shape'
<1>1. /\ job[p].at = "restore" /\ acked' = {n \in acked : n <= job[p].target}
      /\ job' = [job EXCEPT ![p].at = "recount"]
      /\ UNCHANGED <<meta, blobs, ws, lock, fork, faults, named>>
  BY DEF TruncateLog
<1>2. JobFits(p, job[p]) /\ job[p].batch = <<>> /\ p \in Rewinders
  BY <1>1, Held DEF JobFits, Rewinding
<1> DEFINE j == [job[p] EXCEPT !.at = "recount"]
<1>3. job' = [job EXCEPT ![p] = j]
  BY <1>1
<1>4. j \in Job /\ j.at = "recount" /\ j.batch = job[p].batch
  BY <1>2 DEF JobFits, Job
<1> HIDE DEF j
<1>5. JobFits(p, j) /\ ~Carries(j)
  BY <1>1, <1>2, <1>4 DEF JobFits, Carries
<1>6. lock = p /\ Readable' /\ log' \in Seq(Line) /\ tail' = <<>>
  BY Truncates
<1>7. \A i \in 1..Len(log') : LineFits(log'[i])
  <2>1. PICK m \in 0..Len(Events) : Len(log') = m /\ \A i \in 1..m : log'[i] = Events[i]
    BY Truncates
  <2>2. Events \in Seq(Line)
    BY Held, EventsFacts
  <2> QED
    BY <2>1, <2>2, EventsFit
<1>8. RestFits'
  BY <1>1, <1>6, Held DEF RestFits
<1>9. \A i \in 1..Len(tail') : LineFits(tail'[i])
  BY <1>6
<1> QED
  BY <1>1, <1>3, <1>4, <1>5, <1>6, <1>7, <1>8, <1>9, JobStep DEF Locked

\* What a rewind keeps is in order, and no acknowledged number up to its target is lost.
LEMMA NumbersTruncates ==
  ASSUME Shape, Numbers, NEW p \in Procs, TruncateLog(p)
  PROVE  Numbers'
<1>1. /\ job[p].at = "restore" /\ acked' = {n \in acked : n <= job[p].target}
      /\ job' = [job EXCEPT ![p].at = "recount"]
  BY DEF TruncateLog
<1>2. job \in [Procs -> Job] /\ \A q \in Procs \ {p} : job[q].at \notin Locked
  BY <1>1, Held DEF Locked
<1>3. job'[p].at = "recount" /\ \A q \in Procs \ {p} : job'[q] = job[q]
  BY <1>1, <1>2 DEF Job
<1>4. \A q \in Procs : job'[q].at # "write" /\ job'[q].at # "meta"
  BY <1>2, <1>3 DEF Locked
<1>5. Readable /\ Events' = log' /\ log' \in Seq(Line)
  BY Truncates
<1>6. PICK m \in 0..Len(Events) :
              /\ Len(log') = m /\ \A i \in 1..m : log'[i] = Events[i]
              /\ \A i \in 1..Len(Events) : i <= m <=> Events[i].seq <= job[p].target
  BY Truncates
<1>7. Len(Events) \in Nat /\ Len(log) \in Nat /\ TypeOK
  BY Held, EventsFacts DEF RestFits
<1>8. \A i \in 1..m : i \in 1..Len(Events) /\ Events'[i] = Events[i]
  BY <1>5, <1>6, <1>7
<1>9. Increasing(Events')
  BY <1>5, <1>6, <1>8 DEF Numbers, Increasing
<1>10. ASSUME NEW n \in acked'
       PROVE  \E i \in 1..Len(log') : log'[i].seq = n
  <2>1. PICK i \in 1..Len(log) : log[i].seq = n
    BY <1>1, <1>5 DEF Numbers
  <2>2. i \in 1..Len(Events) /\ Events[i] = log[i]
    BY <1>7, EventsFacts
  <2>3. i <= m
    BY <1>1, <1>6, <2>1, <2>2
  <2>4. i \in 1..m
    BY <1>7, <2>2, <2>3
  <2> QED
    BY <1>6, <2>1, <2>2, <2>4
<1>11. \A i, k \in 1..Len(Events') : Events'[i].type = "usage" /\ Events'[k].type = "usage" => i = k
  BY <1>5, <1>6, <1>8 DEF Numbers
<1> QED
  BY <1>4, <1>9, <1>10, <1>11 DEF Numbers, Increasing

\* What the history of a tool call leaves alone.
LEMMA ToolEvents ==
  ASSUME Shape, NEW p \in Procs, Tool(p)
  PROVE  /\ Alike(log, log') /\ Alike(Events, Events') /\ (Readable' <=> Readable)
         /\ log \in Seq(Line) /\ Events \in Seq(Line) /\ tail' = tail
<1>1. Alike(log, log') /\ tail' = tail
  BY ToolFacts DEF ToolChanges, Tool
<1>2. TypeOK /\ log \in Seq(Line) /\ Len(log) \in Nat
  BY Held DEF RestFits
<1>3. RestFits'
  <2>1. Shape'
    BY ShapeTools
  <2> QED
    BY <2>1 DEF Shape, TypeOK, RestFits
<1>4. \A line \in Line : SameLine(line, line)
  BY DEF SameLine
<1>5. Len(log') = Len(log) /\ \A i \in 1..Len(log) : SameLine(log[i], log'[i])
  BY <1>1 DEF Alike
<1>6. Alike(Events, Events')
  <2>1. CASE tail # <<>> /\ Parses(tail[1])
    <3>1. /\ Len(Events) = Len(log) + 1 /\ Events[Len(log) + 1] = tail[1] /\ tail[1] \in Line
          /\ \A i \in 1..Len(log) : Events[i] = log[i]
      BY <1>2, <2>1, EventsFacts
    <3>2. /\ Events' \in Seq(Line)
          /\ \A i \in 1..Len(log') : Events'[i] = log'[i]
          /\ tail' # <<>> /\ Parses(tail'[1]) => Len(Events') = Len(log') + 1 /\ Events'[Len(log') + 1] = tail'[1]
      BY <1>3, EventsNext
    <3>3. Len(Events') = Len(log) + 1 /\ Events'[Len(log) + 1] = tail[1]
      BY <1>1, <1>5, <2>1, <3>2
    <3>4. \A i \in 1..Len(Events) : i \in 1..Len(log) \/ i = Len(log) + 1
      BY <1>2, <3>1
    <3>5. \A i \in 1..Len(Events) : SameLine(Events[i], Events'[i])
      BY <1>4, <1>5, <3>1, <3>2, <3>3, <3>4
    <3> QED
      BY <3>1, <3>2, <3>3, <3>5 DEF Alike
  <2>2. CASE ~(tail # <<>> /\ Parses(tail[1]))
    <3>1. Events = log
      BY <1>2, <2>2, EventsFacts
    <3>2. Events' = log'
      BY <1>1, <1>3, <2>2, EventsNext
    <3> QED
      BY <1>1, <3>1, <3>2
  <2> QED
    BY <2>1, <2>2
<1>7. Readable' <=> Readable
  <2>1. \A i \in 1..Len(log) : Parses(log'[i]) <=> Parses(log[i])
    BY <1>1, <1>2, AlikeFits
  <2>2. DOMAIN log = 1..Len(log) /\ DOMAIN log' = 1..Len(log)
    BY <1>1, <1>2 DEF Alike
  <2> QED
    BY <2>1, <2>2 DEF Readable, Parses
<1>8. Events \in Seq(Line)
  BY <1>2, EventsFacts
<1> QED
  BY SMTT(60), <1>1, <1>2, <1>6, <1>7, <1>8

\* A tool call changes no number.
LEMMA NumbersTools ==
  ASSUME Shape, Numbers, NEW p \in Procs, Tool(p)
  PROVE  Numbers'
<1>1. /\ Alike(log, log') /\ Alike(Events, Events') /\ (Readable' <=> Readable) /\ tail' = tail
      /\ log \in Seq(Line) /\ Events \in Seq(Line)
  BY ToolEvents
<1>2. acked' = acked
  BY DEF Tool
<1>3. /\ job'[p].at \in {"idle", "flush"}
      /\ \A q \in Procs \ {p} : job'[q].at = job[q].at /\ job'[q].batch = job[q].batch
  BY ToolFacts, IdleFacts DEF ToolChanges
<1>4. /\ Len(log') = Len(log) /\ \A i \in 1..Len(log) : log'[i].seq = log[i].seq
      /\ Len(Events') = Len(Events)
      /\ \A i \in 1..Len(Events) : Events'[i].seq = Events[i].seq /\ Events'[i].type = Events[i].type
  BY <1>1 DEF Alike, SameLine
<1>5. Has(Events', "usage") <=> Has(Events, "usage")
  BY <1>4 DEF Has
<1>6. ASSUME NEW q \in Procs, job'[q].at = "write"
      PROVE  BatchFollows(job[q])'
  <2>1. q # p /\ job[q].at = "write" /\ job'[q].batch = job[q].batch
    BY <1>3, <1>6
  <2>2. BatchFollows(job[q])
    BY <2>1 DEF Numbers
  <2> QED
    BY <1>1, <1>4, <1>5, <2>1, <2>2 DEF BatchFollows, Has
<1>7. ASSUME NEW q \in Procs, job'[q].at = "meta"
      PROVE  BatchWritten(job[q])'
  <2>1. q # p /\ job[q].at = "meta" /\ job'[q].batch = job[q].batch
    BY <1>3, <1>7
  <2>2. BatchWritten(job[q])
    BY <2>1 DEF Numbers
  <2> QED
    BY <1>1, <1>4, <2>1, <2>2 DEF BatchWritten
<1>8. Readable' => Increasing(Events')
  BY <1>1, <1>4 DEF Numbers, Increasing
<1>9. Readable' => \A n \in acked' : \E k \in 1..Len(log') : log'[k].seq = n
  BY <1>1, <1>2, <1>4 DEF Numbers
<1>10. Readable' => \A i, k \in 1..Len(Events') : Events'[i].type = "usage" /\ Events'[k].type = "usage" => i = k
  BY <1>1, <1>4 DEF Numbers
<1> QED
  BY <1>6, <1>7, <1>8, <1>9, <1>10 DEF Numbers, Increasing

\* Nor does the beginning of a rewind.
LEMMA NumbersApplies ==
  ASSUME Shape, Numbers, NEW p \in Procs, ApplyRewind(p)
  PROVE  Numbers'
<1>1. /\ lock = NoProc /\ log' = log /\ tail' = tail /\ acked' = acked
      /\ \E target \in 0..Last(Events).seq :
         job' = [q \in Procs |->
                  IF q = p
                  THEN [Idle EXCEPT !.at = "restore", !.target = target,
                          !.todo = {f \in Files : CheckpointsAfter(f, target) # {}}]
                  ELSE [job[q] EXCEPT !.disturbed = job[q].at = "tool"]]
  BY DEF ApplyRewind, Lock
<1>2. job'[p].at = "restore"
  BY ZenonT(60), <1>1, IdleFacts DEF Job
<1>3. ASSUME NEW q \in Procs \ {p}
      PROVE  job'[q].at = job[q].at
  <2> DEFINE d == job[q].at = "tool"
  <2>1. job'[q] = [job[q] EXCEPT !.disturbed = d]
    BY <1>1
  <2>2. job[q] \in Job
    BY Held
  <2> HIDE DEF d
  <2> QED
    BY <2>1, <2>2 DEF Job
<1>4. \A q \in Procs : job[q].at \notin Locked
  BY <1>1, Held DEF Shape
<1>5. \A q \in Procs : job'[q].at # "write" /\ job'[q].at # "meta"
  BY <1>2, <1>3, <1>4 DEF Locked
<1>6. (Readable' <=> Readable) /\ Events' = Events
  BY <1>1 DEF Readable, Events, Parses
<1> QED
  BY <1>1, <1>5, <1>6 DEF Numbers, Increasing

\* Appends that are prepared.
LEMMA NumbersPrepares ==
  ASSUME Shape, Numbers, NEW p \in Procs, NEW batch \in Seq(Line), batch # <<>>,
         \A i \in 1..Len(batch) : batch[i].type = "usage" =>
            Len(batch) = 1 /\ (Readable => ~Has(Events, "usage")),
         PrepareAppend(p, batch), log' = log, tail' = tail, acked' = acked
  PROVE  Numbers'
<1>1. job' = [job EXCEPT ![p] = Prepared(batch)]
  BY DEF PrepareAppend, Prepared
<1>2. BatchFollows(Prepared(batch)) /\ Prepared(batch).at = "write"
  BY PreparedFollows, PreparedFacts, Held
<1> HIDE DEF Prepared
<1> QED
  BY <1>1, <1>2, NumbersQuiet

\* The steps that prepare a batch.
LEMMA NumbersAppends ==
  ASSUME Shape, Numbers, NEW p \in Procs,
         \/ AppendEvents(p) \/ AppendEventUnlessExists(p) \/ Flush(p)
         \/ CaptureToolCheckpoint(p) \/ PruneOrphanBlobs(p)
  PROVE  Numbers'
<1>0. log' = log /\ tail' = tail /\ acked' = acked
  BY DEF AppendEvents, AppendEventUnlessExists, Flush, CaptureToolCheckpoint, PruneOrphanBlobs
<1>1. CASE AppendEvents(p)
  <2>1. PICK n \in 1..2 : PrepareAppend(p, [i \in 1..n |-> Event(0, "message")])
    BY <1>1 DEF AppendEvents
  <2> DEFINE b == [i \in 1..n |-> Event(0, "message")]
  <2>2. b \in Seq(Line) /\ Len(b) = n /\ \A i \in 1..Len(b) : b[i] = Event(0, "message")
    BY EventFits
  <2>3. b # <<>> /\ \A i \in 1..Len(b) : b[i].type # "usage"
    BY <2>2, EmptySeq, EventFits
  <2>4. PrepareAppend(p, b)
    BY <2>1
  <2> HIDE DEF b
  <2> QED
    BY <1>0, <2>2, <2>3, <2>4, NumbersPrepares
<1>2. CASE AppendEventUnlessExists(p)
  <2> DEFINE b == <<Event(0, "usage")>>
  <2>1. b \in Seq(Line) /\ Len(b) = 1 /\ b # <<>>
    BY EventFits
  <2>2. PrepareAppend(p, b) /\ ~\E ev \in ToSet(Events) : ev.type = "usage"
    BY <1>2 DEF AppendEventUnlessExists
  <2>3. ~Has(Events, "usage")
    <3>1. Events \in Seq(Line)
      BY Held, EventsFacts
    <3>2. \A i \in 1..Len(Events) : Events[i] \in ToSet(Events)
      BY <3>1 DEF ToSet
    <3> QED
      BY <2>2, <3>2 DEF Has
  <2> HIDE DEF b
  <2> QED
    BY <1>0, <2>1, <2>2, <2>3, NumbersPrepares
<1>3. CASE Flush(p)
  <2> DEFINE old == job[p].batch
             b == old \o <<Event(0, "message")>>
  <2>1. /\ JobFits(p, job[p]) /\ Carries(job[p]) /\ old \in Seq(Line) /\ old # <<>>
        /\ job[p].at = "flush" /\ Len(old) = 1
    BY <1>3, Held DEF Flush, JobFits, Job
  <2>2. <<Event(0, "message")>> \in Seq(Line) /\ Len(<<Event(0, "message")>>) = 1
        /\ <<Event(0, "message")>>[1] = Event(0, "message")
    BY EventFits
  <2>3. b \in Seq(Line) /\ Len(b) = Len(old) + 1 /\ b[Len(old) + 1] = Event(0, "message")
        /\ \A i \in 1..Len(old) : b[i] = old[i]
    BY <2>1, <2>2, ConcatOne
  <2>4. Len(b) = 2 /\ b[1] = old[1] /\ b[2] = Event(0, "message")
    BY <2>1, <2>3
  <2>5. b # <<>>
    BY <2>4, EmptySeq
  <2>6. \A i \in 1..Len(b) : b[i].type # "usage"
    <3>1. old[1].type = "session_checkpoint"
      BY <2>1 DEF Carries, IsCheckpoint
    <3>2. \A i \in 1..Len(b) : i = 1 \/ i = 2
      BY <2>4
    <3> QED
      BY <2>4, <3>1, <3>2, EventFits
  <2>7. PrepareAppend(p, b)
    BY <1>3 DEF Flush
  <2> HIDE DEF b
  <2> QED
    BY <1>0, <2>3, <2>5, <2>6, <2>7, NumbersPrepares
<1>4. CASE CaptureToolCheckpoint(p)
  <2>1. PICK f \in Files : PrepareAppend(p, <<Checkpoint(f)>>)
    BY <1>4 DEF CaptureToolCheckpoint
  <2> DEFINE b == <<Checkpoint(f)>>
  <2>2. b \in Seq(Line) /\ Len(b) = 1 /\ b[1] = Checkpoint(f) /\ b # <<>> /\ PrepareAppend(p, b)
    BY <2>1, Held, CheckpointFits
  <2>3. \A i \in 1..Len(b) : b[i].type # "usage"
    BY <2>2, Held, CheckpointFits
  <2> HIDE DEF b
  <2> QED
    BY <1>0, <2>2, <2>3, NumbersPrepares
<1>5. CASE PruneOrphanBlobs(p)
  <2> DEFINE b == <<Event(0, "session_rewind")>>
  <2>1. /\ b \in Seq(Line) /\ Len(b) = 1 /\ b[1] = Event(0, "session_rewind") /\ b # <<>>
        /\ PrepareAppend(p, b)
    BY <1>5, EventFits DEF PruneOrphanBlobs
  <2>2. \A i \in 1..Len(b) : b[i].type # "usage"
    BY <2>1, EventFits
  <2> HIDE DEF b
  <2> QED
    BY <1>0, <2>1, <2>2, NumbersPrepares
<1> QED
  BY <1>1, <1>2, <1>3, <1>4, <1>5

\* The steps that neither prepare nor write an append.
LEMMA NumbersRest ==
  ASSUME Shape, Numbers, NEW p \in Procs,
         \/ WriteCount(p) \/ UpdateTitle(p) \/ WriteTitle(p) \/ SnapshotForCheckpoint(p)
         \/ RestoreFile(p) \/ TruncateCount(p) \/ ForkRead(p) \/ ForkCopyBlobs(p)
         \/ Crash(p) \/ BreakSync(p)
  PROVE  Numbers'
<1>0. log' = log /\ tail' = tail
  BY DEF WriteCount, UpdateTitle, WriteTitle, SnapshotForCheckpoint, RestoreFile, TruncateCount,
     ForkRead, ForkCopyBlobs, Crash, BreakSync
<1>1. job \in [Procs -> Job] /\ job[p] \in Job
  BY Held
<1>2. CASE WriteCount(p)
  <2>1. /\ job[p].at = "meta" /\ job' = [job EXCEPT ![p] = AfterAppend(p)]
        /\ acked' = acked \cup {job[p].batch[i].seq : i \in DOMAIN job[p].batch}
    BY <1>2 DEF WriteCount
  <2>2. BatchWritten(job[p])
    BY <2>1 DEF Numbers
  <2>3. AfterAppend(p).at \in {"idle", "tool"}
    BY <2>1, AfterFacts, IdleFacts
  <2> QED
    BY <1>0, <2>1, <2>2, <2>3, NumbersQuiet
<1>3. CASE UpdateTitle(p)
  <2> DEFINE j == [Idle EXCEPT !.at = "title", !.meta = meta]
  <2>1. job' = [job EXCEPT ![p] = j] /\ acked' = acked
    BY <1>3 DEF UpdateTitle
  <2>2. j.at = "title"
    BY IdleFacts DEF Job
  <2> HIDE DEF j
  <2> QED
    BY <1>0, <2>1, <2>2, NumbersQuiet
<1>4. CASE WriteTitle(p) \/ Crash(p)
  <2>1. job' = [job EXCEPT ![p] = Idle] /\ acked' = acked
    BY <1>4 DEF WriteTitle, Crash
  <2> QED
    BY <1>0, <2>1, IdleFacts, NumbersQuiet
<1>5. CASE SnapshotForCheckpoint(p)
  <2>1. PICK f \in Files : job' = [job EXCEPT ![p] = [Idle EXCEPT !.at = "tool", !.batch = <<Checkpoint(f)>>]]
    BY <1>5 DEF SnapshotForCheckpoint
  <2> DEFINE j == [Idle EXCEPT !.at = "tool", !.batch = <<Checkpoint(f)>>]
  <2>2. job' = [job EXCEPT ![p] = j] /\ acked' = acked
    BY <1>5, <2>1 DEF SnapshotForCheckpoint
  <2>3. j.at = "tool"
    BY IdleFacts DEF Job
  <2> HIDE DEF j
  <2> QED
    BY <1>0, <2>2, <2>3, NumbersQuiet
<1>6. CASE RestoreFile(p)
  <2>1. PICK f \in job[p].todo : job' = [job EXCEPT ![p].todo = @ \ {f}]
    BY <1>6 DEF RestoreFile
  <2> DEFINE j == [job[p] EXCEPT !.todo = @ \ {f}]
  <2>2. job' = [job EXCEPT ![p] = j] /\ acked' = acked /\ job[p].at = "restore"
    BY <1>6, <2>1 DEF RestoreFile
  <2>3. j.at = "restore"
    BY <1>1, <2>2 DEF Job
  <2> HIDE DEF j
  <2> QED
    BY <1>0, <2>2, <2>3, NumbersQuiet
<1>7. CASE TruncateCount(p)
  <2> DEFINE j == [job[p] EXCEPT !.at = "prune"]
  <2>2. job' = [job EXCEPT ![p] = j] /\ acked' = acked
    BY <1>7 DEF TruncateCount
  <2>3. j.at = "prune"
    BY <1>1 DEF Job
  <2> HIDE DEF j
  <2> QED
    BY <1>0, <2>2, <2>3, NumbersQuiet
<1>8. CASE ForkRead(p) \/ ForkCopyBlobs(p)
  <2>1. job' = job /\ acked' = acked
    BY <1>8 DEF ForkRead, ForkCopyBlobs
  <2>2. job' = [job EXCEPT ![p] = job[p]]
    BY <1>1, <2>1
  <2>3. /\ job[p].at = "write" => BatchFollows(job[p])
        /\ job[p].at = "meta" => BatchWritten(job[p])
    BY DEF Numbers
  <2> QED
    BY <1>0, <2>1, <2>2, <2>3, NumbersQuiet
<1>9. CASE BreakSync(p)
  <2>1. job[p].at = "meta" /\ job' = [job EXCEPT ![p] = AfterAppend(p)] /\ acked' = acked
    BY <1>9 DEF BreakSync
  <2>3. AfterAppend(p).at \in {"idle", "tool"}
    BY <2>1, AfterFacts, IdleFacts
  <2> QED
    BY <1>0, <2>1, <2>3, NumbersQuiet
<1> QED
  BY SMTT(60), <1>2, <1>3, <1>4, <1>5, <1>6, <1>7, <1>8, <1>9

\* Stuttering.
LEMMA NumbersStays ==
  ASSUME Shape, Numbers, UNCHANGED vars
  PROVE  Shape' /\ Numbers'
<1>1. (Readable' <=> Readable) /\ Events' = Events
  BY DEF vars, Readable, Events, Parses
<1>2. Shape'
  BY <1>1 DEF vars, Shape, TypeOK, Readable
<1>3. \A p \in Procs : (BatchFollows(job[p])' <=> BatchFollows(job[p])) /\ (BatchWritten(job[p])' <=> BatchWritten(job[p]))
  BY ZenonT(60), <1>1 DEF vars, BatchFollows, BatchWritten, Has
<1>4. Numbers'
  BY <1>1, <1>3 DEF vars, Numbers, Increasing
<1> QED
  BY <1>2, <1>4

\* The first layer of the invariant: shape and numbers hold in every behaviour.
THEOREM NumbersInductive == Spec => [](Shape /\ Numbers)
<1>1. Init => Shape /\ Numbers
  BY ShapeInit, NumbersInit
<1>2. ASSUME Shape, Numbers, [Next]_vars PROVE Shape' /\ Numbers'
  <2>1. CASE UNCHANGED vars
    BY <1>2, <2>1, NumbersStays
  <2>2. ASSUME NEW p \in Procs,
               \/ AppendEvents(p) \/ AppendEventUnlessExists(p) \/ Flush(p)
               \/ CaptureToolCheckpoint(p) \/ PruneOrphanBlobs(p)
        PROVE  Shape' /\ Numbers'
    BY <1>2, <2>2, NumbersAppends, ShapeAppends, ShapeCaptures, ShapePrunes
  <2>3. ASSUME NEW p \in Procs, WriteLog(p) \/ BreakWrite(p)
        PROVE  Shape' /\ Numbers'
    BY <1>2, <2>3, NumbersWrites, ShapeWrites
  <2>4. ASSUME NEW p \in Procs,
               \/ WriteCount(p) \/ UpdateTitle(p) \/ WriteTitle(p) \/ SnapshotForCheckpoint(p)
               \/ RestoreFile(p) \/ TruncateCount(p) \/ ForkRead(p) \/ ForkCopyBlobs(p)
               \/ Crash(p) \/ BreakSync(p)
        PROVE  Shape' /\ Numbers'
    BY <1>2, <2>4, NumbersRest, ShapeMetadata, ShapeSnapshots, ShapeRewinds, ShapeForks, ShapeCrash
  <2>5. ASSUME NEW p \in Procs, Tool(p) PROVE Shape' /\ Numbers'
    BY <1>2, <2>5, NumbersTools, ShapeTools
  <2>6. ASSUME NEW p \in Procs, ApplyRewind(p) PROVE Shape' /\ Numbers'
    BY <1>2, <2>6, NumbersApplies, ShapeApplies
  <2>7. ASSUME NEW p \in Procs, TruncateLog(p) PROVE Shape' /\ Numbers'
    BY <1>2, <2>7, NumbersTruncates, ShapeTruncates
  <2> QED
    BY <1>2, <2>1, <2>2, <2>3, <2>4, <2>5, <2>6, <2>7 DEF Next
<1> QED
  BY <1>1, <1>2, PTL DEF Spec

\* A log that can be read has what was acknowledged, in the order it was given:
\* appendPreparedEventsLocked (store.go) neither loses nor renumbers an event that
\* it returned without error, whoever crashes, rewinds or writes half a line.
THEOREM EventsStayKept == Spec => []EventsAreKept
<1>1. ASSUME Shape, Numbers PROVE EventsAreKept
  <2>1. Events \in Seq(Line) /\ TypeOK /\ Len(Events) \in Nat
    <3>1. TypeOK
      BY <1>1 DEF Shape
    <3>2. Events \in Seq(Line)
      BY <3>1, EventsFacts
    <3> QED
      BY <3>1, <3>2
  <2>2. SequencesIncrease
    <3> SUFFICES ASSUME Readable, NEW i \in 2..Len(Events)
                 PROVE  Events[i - 1].seq < Events[i].seq
      BY DEF SequencesIncrease
    <3>1. i - 1 \in 1..Len(Events) /\ i \in 1..Len(Events) /\ i - 1 < i
      BY <2>1
    <3> QED
      BY <1>1, <3>1 DEF Numbers, Increasing
  <2>3. AcknowledgedEventsSurvive
    <3> SUFFICES ASSUME Readable, NEW n \in acked
                 PROVE  \E i \in DOMAIN Events : n = Events[i].seq
      BY DEF AcknowledgedEventsSurvive
    <3>1. PICK i \in 1..Len(log) : log[i].seq = n
      BY <1>1 DEF Numbers
    <3>2. i \in 1..Len(Events) /\ Events[i] = log[i]
      BY <2>1, <3>1, EventsFacts DEF TypeOK
    <3> QED
      BY <2>1, <3>1, <3>2
  <2> QED
    BY <2>2, <2>3 DEF EventsAreKept
<1> QED
  BY <1>1, NumbersInductive, PTL

-----------------------------------------------------------------------------
(* The metadata.                                                           *)

\* A step of p that leaves the log and the metadata alone.
LEMMA MetaQuiet ==
  ASSUME Shape, Title, Counts, NEW p \in Procs, NEW j, job' = [job EXCEPT ![p] = j],
         UNCHANGED <<log, tail, meta, named>>, faults' = 0 => faults = 0,
         Titled(j), faults' = 0 => Counted(j),
         faults' = 0 => job[p].at \notin Counting \/ meta.count = Len(log)
  PROVE  Title' /\ Counts'
<1>1. job \in [Procs -> Job]
  BY Held
<1>2. job'[p] = j /\ \A q \in Procs \ {p} : job'[q] = job[q]
  BY <1>1
<1>3. Readable' <=> Readable
  BY DEF Readable, Parses
<1>4. Title'
  BY <1>2 DEF Title, Titled
<1>5. ASSUME faults' = 0 PROVE meta.count = Len(log) \/ \E q \in Procs : job'[q].at \in Counting
  BY <1>2, <1>5 DEF Counts
<1>6. ASSUME faults' = 0, NEW q \in Procs PROVE Counted(job[q])'
  <2>1. Counted(job'[q])
    BY <1>2, <1>6 DEF Counts
  <2> QED
    BY <2>1 DEF Counted
<1>7. Counts'
  BY <1>3, <1>5, <1>6 DEF Counts
<1> QED
  BY <1>4, <1>7

\* Who has nothing to do has no count and no title.
LEMMA IdleCounts == Titled(Idle) /\ Counted(Idle)
BY IdleFacts DEF Titled, Counted

\* The metadata of a new session.
LEMMA MetaInit == Init => Title /\ Counts
<1> SUFFICES ASSUME Init PROVE Title /\ Counts
  OBVIOUS
<1>1. Len(log) = 0 /\ tail = <<>> /\ meta.count = 0 /\ meta.title = named /\ DOMAIN log = {}
  BY DEF Init
<1>2. \A p \in Procs : job[p] = Idle
  BY DEF Init
<1> QED
  BY <1>1, <1>2, IdleCounts DEF Title, Counts, Readable

\* The count is that of the log while nobody is about to write it.
LEMMA CountNow ==
  ASSUME Shape, Counts, faults = 0, NEW p \in Procs, lock \in {NoProc, p}, job[p].at \notin Counting
  PROVE  meta.count = Len(log)
BY Held DEF Counts, Counting, Locked

\* A batch is prepared with the metadata that are there.
LEMMA MetaPrepares ==
  ASSUME Shape, Title, Counts, NEW p \in Procs, NEW batch \in Seq(Line), batch # <<>>,
         PrepareAppend(p, batch), UNCHANGED <<log, tail, meta, named, faults>>,
         lock \in {NoProc, p}, job[p].at \notin Counting
  PROVE  Title' /\ Counts'
<1>1. job' = [job EXCEPT ![p] = Prepared(batch)]
  BY DEF PrepareAppend, Prepared
<1>2. TypeOK /\ Prepared(batch).at = "write" /\ Prepared(batch).meta = meta
      /\ Prepared(batch).batch = Numbered(batch, NextSequence)
  BY PreparedFacts, Held
<1>3. Titled(Prepared(batch))
  BY <1>2 DEF Title, Titled
<1>4. ASSUME faults = 0 PROVE Counted(Prepared(batch))
  <2>1. meta.count = Len(log) /\ log \in Seq(Line) /\ NextSequence \in Nat \ {0} /\ Len(log) \in Nat
    BY <1>2, <1>4, CountNow, NextSequenceFacts DEF TypeOK
  <2>2. log = <<>> \/ log[Len(log)].seq <= meta.count
    <3>1. log # <<>> => Len(log) \in 1..Len(log)
      BY <2>1
    <3> QED
      BY <1>4, <2>1, <3>1 DEF Counts
  <2>3. NextSequence = Len(log) + 1
    BY <1>2, <2>1, <2>2, NextSequenceFacts
  <2>4. 1 \in 1..Len(batch)
    BY EmptySeq
  <2>5. Numbered(batch, NextSequence)[1].seq = NextSequence + 1 - 1
    BY <2>1, <2>4, NumberedFacts
  <2>6. Numbered(batch, NextSequence)[1].seq = Len(log) + 1
    BY <2>1, <2>3, <2>5
  <2> HIDE DEF Prepared
  <2> QED
    BY <1>2, <2>6 DEF Counted
<1> HIDE DEF Prepared
<1> QED
  BY <1>1, <1>3, <1>4, MetaQuiet

\* The steps that prepare one.
LEMMA MetaAppends ==
  ASSUME Shape, Title, Counts, NEW p \in Procs,
         \/ AppendEvents(p) \/ AppendEventUnlessExists(p) \/ Flush(p)
         \/ CaptureToolCheckpoint(p) \/ PruneOrphanBlobs(p)
  PROVE  Title' /\ Counts'
<1>1. UNCHANGED <<log, tail, meta, named, faults>>
  BY DEF AppendEvents, AppendEventUnlessExists, Flush, CaptureToolCheckpoint, PruneOrphanBlobs
<1>2. lock \in {NoProc, p} /\ job[p].at \notin Counting
  <2>1. CASE PruneOrphanBlobs(p)
    BY <2>1, Held DEF PruneOrphanBlobs, Locked, Counting
  <2>2. CASE ~PruneOrphanBlobs(p)
    BY <2>2 DEF AppendEvents, AppendEventUnlessExists, Flush, CaptureToolCheckpoint, Lock, IsIdle,
       MayRun, Counting
  <2> QED
    BY <2>1, <2>2
<1>3. \E batch \in Seq(Line) : batch # <<>> /\ PrepareAppend(p, batch)
  <2>1. CASE AppendEvents(p)
    <3>1. PICK n \in 1..2 : PrepareAppend(p, [i \in 1..n |-> Event(0, "message")])
      BY <2>1 DEF AppendEvents
    <3>2. [i \in 1..n |-> Event(0, "message")] \in Seq(Line) /\ Len([i \in 1..n |-> Event(0, "message")]) = n
      BY EventFits
    <3>3. [i \in 1..n |-> Event(0, "message")] # <<>>
      BY <3>2, EmptySeq
    <3> QED
      BY <3>1, <3>2, <3>3
  <2>2. CASE AppendEventUnlessExists(p) \/ PruneOrphanBlobs(p)
    <3>1. \E t \in {"usage", "session_rewind"} : PrepareAppend(p, <<Event(0, t)>>)
      BY <2>2 DEF AppendEventUnlessExists, PruneOrphanBlobs
    <3>2. \A t \in {"usage", "session_rewind"} : <<Event(0, t)>> \in Seq(Line) /\ <<Event(0, t)>> # <<>>
      BY EventFits
    <3> QED
      BY <3>1, <3>2
  <2>3. CASE Flush(p)
    <3>1. JobFits(p, job[p]) /\ job[p].batch \in Seq(Line)
      BY Held DEF JobFits, Job
    <3>2. <<Event(0, "message")>> \in Seq(Line) /\ Len(<<Event(0, "message")>>) = 1
      BY EventFits
    <3>3. job[p].batch \o <<Event(0, "message")>> \in Seq(Line)
          /\ Len(job[p].batch \o <<Event(0, "message")>>) = Len(job[p].batch) + 1
      BY <3>1, <3>2, ConcatOne
    <3>4. job[p].batch \o <<Event(0, "message")>> # <<>>
      BY <3>1, <3>3, EmptySeq
    <3> QED
      BY <2>3, <3>3, <3>4 DEF Flush
  <2>4. CASE CaptureToolCheckpoint(p)
    <3>1. PICK f \in Files : PrepareAppend(p, <<Checkpoint(f)>>)
      BY <2>4 DEF CaptureToolCheckpoint
    <3>2. <<Checkpoint(f)>> \in Seq(Line) /\ <<Checkpoint(f)>> # <<>>
      BY Held, CheckpointFits
    <3> QED
      BY <3>1, <3>2
  <2> QED
    BY <2>1, <2>2, <2>3, <2>4
<1> QED
  BY <1>1, <1>2, <1>3, MetaPrepares

\* A write leaves its count to be written.
LEMMA MetaWrites ==
  ASSUME Shape, Numbers, Title, Counts, NEW p \in Procs, WriteLog(p)
  PROVE  Title' /\ Counts'
<1>1. /\ job[p].at = "write" /\ log' = Extend(job[p].batch) /\ tail' = <<>>
      /\ job' = [job EXCEPT ![p].at = "meta"] /\ UNCHANGED <<meta, named, faults>>
  BY DEF WriteLog
<1> DEFINE b == job[p].batch
           n == Len(b)
<1>2. JobFits(p, job[p]) /\ job \in [Procs -> Job] /\ TypeOK
      /\ \A q \in Procs \ {p} : job[q].at \notin Locked
  BY <1>1, Held DEF Locked
<1>3. b \in Seq(Line) /\ n \in Nat /\ b # <<>> /\ n \in 1..n /\ log \in Seq(Line) /\ Len(log) \in Nat
  <2>1. b \in Seq(Line) /\ b # <<>>
    BY <1>1, <1>2 DEF JobFits, Job
  <2> QED
    BY <1>2, <2>1, EmptySeq DEF TypeOK
<1>4. job'[p].at = "meta" /\ job'[p].batch = b /\ job'[p].meta = job[p].meta
      /\ \A q \in Procs \ {p} : job'[q] = job[q]
  BY <1>1, <1>2 DEF Job
<1>5. Title'
  BY <1>1, <1>4 DEF Title, Titled
<1>6. ASSUME faults = 0 PROVE Counts'
  <2>1. /\ tail = <<>> /\ Readable /\ b[1].seq = Len(log) + 1
        /\ \A i \in 1..Len(log) : log[i].seq = i
    BY <1>1, <1>6 DEF Counts, Counted
  <2>2. /\ log' \in Seq(Line) /\ Len(log') = Len(log) + n
        /\ \A i \in 1..Len(log) : log'[i] = log[i]
        /\ \A i \in 1..n : log'[Len(log) + i] = b[i]
    BY ZenonT(60), <1>1, <1>2, <1>3, <2>1, ExtendFacts
  <2>3. \A i \in 1..n : b[i].seq = b[1].seq + i - 1 /\ Parses(b[i])
    BY <1>1, <1>2 DEF Numbers, BatchFollows, JobFits
  <2>4. ASSUME NEW i \in 1..n PROVE b[i].seq = Len(log) + i
    <3> DEFINE x == Len(log)
    <3>1. x \in Nat /\ i \in Nat
      BY <1>3
    <3>2. b[i].seq = b[1].seq + i - 1 /\ b[1].seq = x + 1
      BY <2>1, <2>3
    <3> HIDE DEF x, b
    <3>3. b[i].seq = x + i
      BY <3>1, <3>2
    <3> QED
      BY <3>3 DEF x
  <2>5. ASSUME NEW i \in 1..Len(log')
        PROVE  log'[i].seq = i /\ Parses(log'[i])
    <3>1. CASE i <= Len(log)
      BY SMTT(60), <1>3, <2>1, <2>2, <3>1 DEF Readable
    <3>2. CASE i > Len(log)
      <4>1. PICK k \in 1..n : i = Len(log) + k
        <5>1. i - Len(log) \in 1..n /\ i = Len(log) + (i - Len(log))
          BY <1>3, <2>2, <3>2
        <5> QED
          BY <5>1
      <4> QED
        BY <2>2, <2>3, <2>4, <4>1
    <3> QED
      BY <1>3, <2>2, <3>1, <3>2
  <2>6. Readable'
    BY <2>2, <2>5 DEF Readable, Parses
  <2>7. b[n].seq = Len(log')
    BY <1>3, <2>2, <2>4
  <2>8. Counted(job[p])'
    BY <1>4, <2>7 DEF Counted
  <2>9. \A q \in Procs \ {p} : Counted(job[q])'
    BY <1>2, <1>4 DEF Counted, Locked
  <2> QED
    BY <1>1, <1>4, <2>5, <2>6, <2>8, <2>9 DEF Counts, Counting
<1> QED
  BY <1>1, <1>5, <1>6 DEF Counts

\* So does the cut of a rewind.
LEMMA MetaTruncates ==
  ASSUME Shape, Numbers, Title, Counts, NEW p \in Procs, TruncateLog(p)
  PROVE  Title' /\ Counts'
<1>1. /\ job[p].at = "restore" /\ job' = [job EXCEPT ![p].at = "recount"]
      /\ UNCHANGED <<meta, named, faults>>
  BY DEF TruncateLog
<1>2. job \in [Procs -> Job] /\ TypeOK /\ \A q \in Procs \ {p} : job[q].at \notin Locked
  BY <1>1, Held DEF Locked
<1>3. job'[p].at = "recount" /\ \A q \in Procs \ {p} : job'[q] = job[q]
  BY <1>1, <1>2 DEF Job
<1>4. Title'
  BY <1>1, <1>3 DEF Title, Titled
<1>5. ASSUME faults = 0 PROVE Counts'
  <2>1. PICK m \in 0..Len(Events) : Len(log') = m /\ \A i \in 1..m : log'[i] = Events[i]
    BY Truncates
  <2>2. tail' = <<>> /\ Readable'
    BY Truncates
  <2>3. Events = log /\ \A i \in 1..Len(log) : log[i].seq = i
    BY <1>2, <1>5, EventsFacts DEF Counts
  <2>4. \A i \in 1..Len(log') : log'[i].seq = i
    BY <1>2, <2>1, <2>3 DEF TypeOK
  <2>5. \A q \in Procs : Counted(job[q])'
    BY <1>2, <1>3 DEF Counted, Locked
  <2> QED
    BY <1>3, <2>2, <2>4, <2>5 DEF Counts, Counting
<1> QED
  BY <1>1, <1>4, <1>5 DEF Counts

\* A tool call has to do with neither.
LEMMA MetaTools ==
  ASSUME Shape, Title, Counts, NEW p \in Procs, Tool(p)
  PROVE  Title' /\ Counts'
<1>1. /\ job[p].at = "tool" /\ UNCHANGED <<tail, meta, named, faults>>
  BY DEF Tool
<1>2. /\ job'[p].at \in {"idle", "flush"}
      /\ \A q \in Procs \ {p} : /\ job'[q].at = job[q].at /\ job'[q].batch = job[q].batch
                                /\ job'[q].meta = job[q].meta
  BY ToolFacts, IdleFacts DEF ToolChanges
<1>3. /\ Alike(log, log') /\ (Readable' <=> Readable)
  BY ToolEvents
<1>4. Len(log') = Len(log) /\ \A i \in 1..Len(log) : log'[i].seq = log[i].seq
  BY <1>3 DEF Alike, SameLine
<1>5. Title'
  BY <1>1, <1>2 DEF Title, Titled
<1>6. ASSUME faults = 0, NEW q \in Procs PROVE Counted(job[q])'
  <2>1. Counted(job[q])
    BY <1>6 DEF Counts
  <2> QED
    BY <1>2, <1>4, <2>1 DEF Counted
<1>7. ASSUME faults = 0 PROVE meta.count = Len(log) \/ \E q \in Procs : job'[q].at \in Counting
  BY <1>1, <1>2, <1>7 DEF Counts, Counting
<1>8. Counts'
  BY SMTT(60), <1>1, <1>3, <1>4, <1>6, <1>7 DEF Counts
<1> QED
  BY <1>5, <1>8

\* The beginning of a rewind has not either.
LEMMA MetaApplies ==
  ASSUME Shape, Title, Counts, NEW p \in Procs, ApplyRewind(p)
  PROVE  Title' /\ Counts'
<1>1. /\ lock = NoProc /\ UNCHANGED <<log, tail, meta, named, faults>>
      /\ \E target \in 0..Last(Events).seq :
         job' = [q \in Procs |->
                  IF q = p
                  THEN [Idle EXCEPT !.at = "restore", !.target = target,
                          !.todo = {f \in Files : CheckpointsAfter(f, target) # {}}]
                  ELSE [job[q] EXCEPT !.disturbed = job[q].at = "tool"]]
  BY DEF ApplyRewind, Lock
<1>2. job'[p].at = "restore"
  BY ZenonT(60), <1>1, IdleFacts DEF Job
<1>3. ASSUME NEW q \in Procs \ {p}
      PROVE  job'[q].at = job[q].at
  <2> DEFINE d == job[q].at = "tool"
  <2>1. job'[q] = [job[q] EXCEPT !.disturbed = d]
    BY <1>1
  <2>2. job[q] \in Job
    BY Held
  <2> HIDE DEF d
  <2> QED
    BY <2>1, <2>2 DEF Job
<1>4. \A q \in Procs : job[q].at \notin Locked
  BY <1>1, Held DEF Shape
<1>5. \A q \in Procs : job'[q].at \notin {"write", "meta", "title"}
  BY <1>2, <1>3, <1>4 DEF Locked
<1>6. Readable' <=> Readable
  BY <1>1 DEF Readable, Parses
<1>7. Title'
  BY <1>1, <1>5 DEF Title, Titled
<1>8. \A q \in Procs : Counted(job[q])'
  BY <1>5 DEF Counted
<1>9. faults = 0 => meta.count = Len(log)
  BY SMTT(60), <1>4 DEF Counts, Counting, Locked
<1>10. Counts'
  BY <1>1, <1>6, <1>8, <1>9 DEF Counts
<1> QED
  BY <1>7, <1>10

\* The steps that write the metadata.
LEMMA MetaChanges ==
  ASSUME Shape, Title, Counts, NEW p \in Procs, WriteCount(p) \/ WriteTitle(p) \/ TruncateCount(p)
  PROVE  Title' /\ Counts'
<1>1. /\ job[p].at \in {"meta", "title", "recount"} /\ UNCHANGED <<log, tail, faults>>
  BY DEF WriteCount, WriteTitle, TruncateCount
<1>2. JobFits(p, job[p]) /\ job \in [Procs -> Job] /\ RestFits /\ \A q \in Procs \ {p} : job[q].at \notin Locked
  BY <1>1, Held DEF Locked
<1>3. job[p] \in Job /\ job[p].meta \in Metadata /\ meta \in Metadata
  BY <1>2 DEF Job, RestFits
<1>4. Readable' <=> Readable
  BY <1>1 DEF Readable, Parses
<1>5. ASSUME meta'.title = named', faults = 0 => meta'.count = Len(log),
             job'[p].at \notin {"write", "meta", "title"},
             \A q \in Procs \ {p} : job'[q] = job[q]
      PROVE  Title' /\ Counts'
  <2>1. \A q \in Procs : job'[q].at \notin {"write", "meta", "title"}
    BY <1>2, <1>5 DEF Locked
  <2>2. Title'
    BY <1>5, <2>1 DEF Title, Titled
  <2>3. \A q \in Procs : Counted(job[q])'
    BY <2>1 DEF Counted
  <2>4. Counts'
    BY <1>1, <1>4, <1>5, <2>3 DEF Counts
  <2> QED
    BY <2>2, <2>4
<1>6. CASE WriteCount(p)
  <2> DEFINE c == Last(job[p].batch).seq
  <2>1. /\ job[p].at = "meta" /\ meta' = [job[p].meta EXCEPT !.count = c] /\ named' = named
        /\ job' = [job EXCEPT ![p] = AfterAppend(p)]
    BY <1>6 DEF WriteCount
  <2>2. c = job[p].batch[Len(job[p].batch)].seq
    BY DEF Last
  <2> HIDE DEF c
  <2>3. meta'.title = job[p].meta.title /\ meta'.count = c
    BY <1>3, <2>1 DEF Metadata
  <2>4. job[p].meta.title = named /\ (faults = 0 => c = Len(log))
    BY <2>1, <2>2 DEF Title, Titled, Counts, Counted
  <2>5. AfterAppend(p).at \in {"idle", "tool"}
    BY <2>1, AfterFacts, IdleFacts
  <2> QED
    BY <1>2, <1>5, <2>1, <2>3, <2>4, <2>5
<1>7. CASE WriteTitle(p)
  <2>1. PICK t \in Titles : meta' = [job[p].meta EXCEPT !.title = t] /\ named' = t
    BY <1>7 DEF WriteTitle
  <2>2. job' = [job EXCEPT ![p] = Idle] /\ job[p].at = "title"
    BY <1>7 DEF WriteTitle
  <2>3. meta'.title = t /\ meta'.count = job[p].meta.count
    BY <1>3, <2>1 DEF Metadata
  <2>4. faults = 0 => job[p].meta.count = Len(log)
    BY <2>2 DEF Counts, Counted
  <2> QED
    BY <1>2, <1>5, <2>1, <2>2, <2>3, <2>4, IdleFacts
<1>8. CASE TruncateCount(p)
  <2>1. meta' = [meta EXCEPT !.count = Len(log)] /\ named' = named /\ job' = [job EXCEPT ![p].at = "prune"]
    BY <1>8 DEF TruncateCount
  <2>2. meta'.title = meta.title /\ meta'.count = Len(log)
    BY <1>3, <2>1 DEF Metadata
  <2>3. job'[p].at = "prune" /\ \A q \in Procs \ {p} : job'[q] = job[q]
    BY <1>2, <1>3, <2>1 DEF Job
  <2> QED
    BY <1>5, <2>1, <2>2, <2>3 DEF Title
<1> QED
  BY <1>6, <1>7, <1>8

\* The steps that change neither the log nor the metadata.
LEMMA MetaRest ==
  ASSUME Shape, Title, Counts, NEW p \in Procs,
         \/ UpdateTitle(p) \/ SnapshotForCheckpoint(p) \/ RestoreFile(p)
         \/ ForkRead(p) \/ ForkCopyBlobs(p)
         \/ Crash(p) \/ BreakSync(p)
  PROVE  Title' /\ Counts'
<1>0. UNCHANGED <<log, tail, meta, named>>
  BY DEF UpdateTitle, SnapshotForCheckpoint, RestoreFile, ForkRead, ForkCopyBlobs, Crash, BreakSync
<1>1. job \in [Procs -> Job] /\ job[p] \in Job /\ faults \in Nat
  BY Held DEF RestFits
<1>2. CASE UpdateTitle(p)
  <2> DEFINE j == [Idle EXCEPT !.at = "title", !.meta = meta]
  <2>1. job' = [job EXCEPT ![p] = j] /\ faults' = faults /\ lock = NoProc /\ job[p].at = "idle"
    BY <1>2 DEF UpdateTitle, Lock, IsIdle
  <2>2. j.at = "title" /\ j.meta = meta
    BY IdleFacts DEF Job
  <2> HIDE DEF j
  <2>3. job[p].at \notin Counting
    BY <2>1 DEF Counting
  <2>4. faults = 0 => meta.count = Len(log)
    BY <2>1, <2>3, CountNow
  <2>5. Titled(j) /\ (faults = 0 => Counted(j))
    BY <2>2, <2>4 DEF Titled, Title, Counted
  <2> QED
    BY <1>0, <2>1, <2>3, <2>5, MetaQuiet
<1>3. CASE SnapshotForCheckpoint(p)
  <2>1. PICK f \in Files : job' = [job EXCEPT ![p] = [Idle EXCEPT !.at = "tool", !.batch = <<Checkpoint(f)>>]]
    BY <1>3 DEF SnapshotForCheckpoint
  <2> DEFINE j == [Idle EXCEPT !.at = "tool", !.batch = <<Checkpoint(f)>>]
  <2>2. job' = [job EXCEPT ![p] = j] /\ faults' = faults /\ job[p].at = "idle"
    BY <1>3, <2>1 DEF SnapshotForCheckpoint, MayRun, IsIdle
  <2>3. j.at = "tool"
    BY IdleFacts DEF Job
  <2> HIDE DEF j
  <2>4. Titled(j) /\ Counted(j) /\ job[p].at \notin Counting
    BY <2>2, <2>3 DEF Titled, Counted, Counting
  <2> QED
    BY <1>0, <2>2, <2>4, MetaQuiet
<1>4. CASE RestoreFile(p)
  <2>1. PICK f \in job[p].todo : job' = [job EXCEPT ![p].todo = @ \ {f}]
    BY <1>4 DEF RestoreFile
  <2> DEFINE j == [job[p] EXCEPT !.todo = @ \ {f}]
  <2>2. job' = [job EXCEPT ![p] = j] /\ faults' = faults /\ job[p].at = "restore"
    BY <1>4, <2>1 DEF RestoreFile
  <2>3. j.at = "restore"
    BY <1>1, <2>2 DEF Job
  <2> HIDE DEF j
  <2>4. Titled(j) /\ Counted(j) /\ job[p].at \notin Counting
    BY <2>2, <2>3 DEF Titled, Counted, Counting
  <2> QED
    BY <1>0, <2>2, <2>4, MetaQuiet
<1>5. CASE ForkRead(p) \/ ForkCopyBlobs(p)
  <2>1. job' = job /\ faults' = faults
    BY <1>5 DEF ForkRead, ForkCopyBlobs
  <2>2. Readable' <=> Readable
    BY <1>0 DEF Readable, Parses
  <2>3. Title'
    BY <1>0, <2>1 DEF Title, Titled
  <2>4. Counts'
    BY <1>0, <2>1, <2>2 DEF Counts, Counted
  <2> QED
    BY <2>3, <2>4
<1>6. CASE Crash(p)
  <2>1. job' = [job EXCEPT ![p] = Idle] /\ faults' = faults + 1
    BY <1>6 DEF Crash, Fault
  <2>2. faults' # 0
    BY <1>1, <2>1
  <2> QED
    BY <1>0, <2>1, <2>2, IdleCounts, MetaQuiet
<1>7. CASE BreakSync(p)
  <2>1. job[p].at = "meta" /\ job' = [job EXCEPT ![p] = AfterAppend(p)] /\ faults' = faults + 1
    BY <1>7 DEF BreakSync, Fault
  <2>2. faults' # 0
    BY <1>1, <2>1
  <2>3. AfterAppend(p).at \in {"idle", "tool"}
    BY <2>1, AfterFacts, IdleFacts
  <2>4. Titled(AfterAppend(p))
    BY <2>3 DEF Titled
  <2> QED
    BY <1>0, <2>1, <2>2, <2>4, MetaQuiet
<1> QED
  BY SMTT(60), <1>2, <1>3, <1>4, <1>5, <1>6, <1>7

\* A broken write is a fault.
LEMMA MetaBreaks ==
  ASSUME Shape, Title, Counts, NEW p \in Procs, BreakWrite(p)
  PROVE  Title' /\ Counts'
<1>1. /\ job[p].at = "write" /\ job' = [job EXCEPT ![p] = AfterAppend(p)]
      /\ faults' = faults + 1 /\ UNCHANGED <<meta, named>>
  BY DEF BreakWrite, Fault
<1>2. job \in [Procs -> Job] /\ faults \in Nat
  BY Held DEF RestFits
<1>3. AfterAppend(p).at \in {"idle", "tool"}
  BY <1>1, AfterFacts, IdleFacts
<1>4. Title'
  BY <1>1, <1>2, <1>3 DEF Title, Titled
<1> QED
  BY <1>1, <1>2, <1>4 DEF Counts

\* The second layer: title and count.
THEOREM MetadataInductive == Spec => [](Shape /\ Numbers /\ Title /\ Counts)
<1>1. Init => Title /\ Counts
  BY MetaInit
<1>2. ASSUME Shape, Numbers, Title, Counts, [Next]_vars PROVE Title' /\ Counts'
  <2>1. CASE UNCHANGED vars
    <3>1. Readable' <=> Readable
      BY <2>1 DEF vars, Readable, Parses
    <3> QED
      BY <1>2, <2>1, <3>1 DEF vars, Title, Titled, Counts, Counted
  <2>2. ASSUME NEW p \in Procs,
               \/ AppendEvents(p) \/ AppendEventUnlessExists(p) \/ Flush(p)
               \/ CaptureToolCheckpoint(p) \/ PruneOrphanBlobs(p)
        PROVE  Title' /\ Counts'
    BY <1>2, <2>2, MetaAppends
  <2>3. ASSUME NEW p \in Procs, WriteLog(p) PROVE Title' /\ Counts'
    BY <1>2, <2>3, MetaWrites
  <2>4. ASSUME NEW p \in Procs, BreakWrite(p) PROVE Title' /\ Counts'
    BY <1>2, <2>4, MetaBreaks
  <2>5. ASSUME NEW p \in Procs, WriteCount(p) \/ WriteTitle(p) \/ TruncateCount(p)
        PROVE  Title' /\ Counts'
    BY <1>2, <2>5, MetaChanges
  <2>6. ASSUME NEW p \in Procs,
               \/ UpdateTitle(p) \/ SnapshotForCheckpoint(p) \/ RestoreFile(p)
               \/ ForkRead(p) \/ ForkCopyBlobs(p)
               \/ Crash(p) \/ BreakSync(p)
        PROVE  Title' /\ Counts'
    BY <1>2, <2>6, MetaRest
  <2>7. ASSUME NEW p \in Procs, Tool(p) PROVE Title' /\ Counts'
    BY <1>2, <2>7, MetaTools
  <2>8. ASSUME NEW p \in Procs, ApplyRewind(p) PROVE Title' /\ Counts'
    BY <1>2, <2>8, MetaApplies
  <2>9. ASSUME NEW p \in Procs, TruncateLog(p) PROVE Title' /\ Counts'
    BY <1>2, <2>9, MetaTruncates
  <2> QED
    BY <1>2, <2>1, <2>2, <2>3, <2>4, <2>5, <2>6, <2>7, <2>8, <2>9 DEF Next
<1> QED
  BY <1>1, <1>2, NumbersInductive, PTL DEF Spec

\* What a writer looked at under lockSession is still so when it writes: one usage
\* event (AppendEventUnlessExists), the last title and, without faults, the count
\* of the log (UpdateTitle, appendPreparedEventsLocked, truncateEventsLocked).
THEOREM WritersStaySerialised == Spec => []WritersAreSerialised
<1>1. ASSUME Shape, Numbers, Title, Counts PROVE WritersAreSerialised
  <2>1. TypeOK
    BY <1>1 DEF Shape
  <2>2. UsageIsRecordedOnce
    <3> SUFFICES ASSUME Readable
                 PROVE  Cardinality({i \in DOMAIN Events : Events[i].type = "usage"}) <= 1
      BY DEF UsageIsRecordedOnce
    <3> DEFINE usage == {i \in DOMAIN Events : Events[i].type = "usage"}
    <3>1. DOMAIN Events = 1..Len(Events)
      BY <2>1, EventsFacts
    <3>2. \A i, k \in usage : i = k
      BY <1>1, <3>1 DEF Numbers
    <3> HIDE DEF usage
    <3>3. usage = {} \/ \E i \in usage : usage = {i}
      BY <3>2
    <3>4. CASE usage = {}
      <4>1. Cardinality(usage) = 0
        BY <3>4, FS_EmptySet
      <4> QED
        BY <4>1 DEF usage
    <3>5. ASSUME NEW i \in usage, usage = {i} PROVE Cardinality(usage) <= 1
      <4>1. Cardinality(usage) = 1
        BY <3>5, FS_Singleton
      <4> QED
        BY <4>1
    <3> QED
      BY <3>3, <3>4, <3>5 DEF usage
  <2>3. MetadataIsNotClobbered
    BY <1>1 DEF MetadataIsNotClobbered, Title, Counts, Counting, Shape, Locked
  <2> QED
    BY <2>1, <2>2, <2>3 DEF WritersAreSerialised
<1> QED
  BY <1>1, MetadataInductive, PTL

-----------------------------------------------------------------------------
(* The blobs.                                                              *)

\* What is written comes from the log, the tail or the batch.
LEMMA WroteLines ==
  ASSUME Shape, NEW p \in Procs, NEW k \in Nat, Wrote(p, k)
  PROVE  /\ \A i \in 1..Len(log') : \/ log'[i] = Malformed
                                    \/ \E v \in 1..Len(log) : log'[i] = log[v]
                                    \/ \E v \in 1..Len(job[p].batch) : log'[i] = job[p].batch[v]
         /\ \A i \in 1..Len(tail') : \/ tail'[i] = Malformed
                                     \/ \E v \in 1..Len(job[p].batch) : tail'[i] = job[p].batch[v]
<1> DEFINE b == job[p].batch
           part == SubSeq(b, 1, k)
<1>1. TypeOK /\ log \in Seq(Line) /\ b \in Seq(Line) /\ Len(log) \in Nat /\ Len(b) \in Nat
  BY Held DEF JobFits, Job, RestFits
<1>2. part \in Seq(Line) /\ Len(part) = k /\ (\A i \in 1..k : part[i] = b[i]) /\ k <= Len(b)
  BY <1>1 DEF Wrote
<1>3. log' = Extend(part)
  BY DEF Wrote
<1>4. /\ log' \in Seq(Line) /\ Len(log') = Len(log) + k
      /\ \A i \in 1..Len(log) : log'[i] = log[i]
      /\ \A i \in 1..k : log'[Len(log) + i] = IF i = 1 /\ tail # <<>> THEN Malformed ELSE part[i]
  <2> HIDE DEF part
  <2> QED
    BY <1>1, <1>2, <1>3, ExtendFacts
<1>5. ASSUME NEW i \in 1..Len(log')
      PROVE  \/ log'[i] = Malformed
             \/ \E v \in 1..Len(log) : log'[i] = log[v]
             \/ \E v \in 1..Len(b) : log'[i] = b[v]
  <2>1. CASE i <= Len(log)
    BY SMTT(60), <1>1, <1>4, <2>1
  <2>2. CASE i > Len(log)
    <3>1. PICK v \in 1..k : i = Len(log) + v
      <4>1. i - Len(log) \in 1..k /\ i = Len(log) + (i - Len(log))
        BY <1>1, <1>4, <2>2
      <4> QED
        BY <4>1
    <3>2. v \in 1..Len(b)
      BY <1>1, <1>2
    <3> QED
      BY <1>2, <1>4, <3>1, <3>2
  <2> QED
    BY <1>1, <1>4, <2>1, <2>2
<1>6. ASSUME NEW i \in 1..Len(tail')
      PROVE  tail'[i] = Malformed \/ \E v \in 1..Len(b) : tail'[i] = b[v]
  <2>1. CASE tail' = <<>>
    BY <2>1
  <2>2. CASE tail' = <<Malformed>>
    BY <2>2
  <2>3. CASE k < Len(b) /\ tail' = <<b[k + 1]>>
    <3>1. k + 1 \in 1..Len(b)
      BY <1>1, <2>3
    <3>2. tail'[i] = b[k + 1]
      BY <2>3
    <3> QED
      BY <3>1, <3>2
  <2> QED
    BY <2>1, <2>2, <2>3 DEF Wrote
<1> QED
  BY <1>5, <1>6

\* The events of the next state come from its log or its tail.
LEMMA EventsComeFrom ==
  ASSUME RestFits', NEW i \in 1..Len(Events')
  PROVE  \/ i \in 1..Len(log') /\ Events'[i] = log'[i]
         \/ 1 \in 1..Len(tail') /\ Events'[i] = tail'[1]
<1>1. Len(log') \in Nat /\ tail' \in Seq(Line)
  BY DEF RestFits
<1>2. CASE tail' # <<>> /\ Parses(tail'[1])
  <2>1. Len(Events') = Len(log') + 1 /\ Events'[Len(log') + 1] = tail'[1]
    BY <1>2, EventsNext
  <2>2. i \in 1..Len(log') \/ i = Len(log') + 1
    BY <1>1, <2>1
  <2>3. 1 \in 1..Len(tail')
    BY <1>1, <1>2, EmptySeq
  <2> QED
    BY <2>1, <2>2, <2>3, EventsNext
<1>3. CASE ~(tail' # <<>> /\ Parses(tail'[1]))
  BY <1>3, EventsNext
<1> QED
  BY <1>2, <1>3

\* The blobs of one job are there.
JobBlobs(p, j) == j.at = "write" \/ p \in Batchers => Referenced(j.batch) \subseteq blobs

\* The part of Blobs about a fork.
ForkBlobs ==
    /\ fork.at = "copying" /\ ~fork.raced => fork.missing \subseteq blobs
    /\ fork.at = "done" /\ ~fork.raced => fork.missing = {}

\* The invariant of the blobs, in parts.
LEMMA BlobsParts ==
  Blobs <=> /\ Referenced(Events) \subseteq blobs
            /\ \A p \in Procs : JobBlobs(p, job[p])
            /\ ForkBlobs
BY DEF Blobs, JobBlobs, ForkBlobs

\* No events name no blobs.
LEMMA NoBatchNoBlobs == Referenced(<<>>) = {} /\ \A p \in Procs : JobBlobs(p, Idle)
<1>1. <<>> \in Seq(Line) /\ Len(<<>>) = 0
  BY EmptySeq
<1>2. Referenced(<<>>) = {}
  <2> DEFINE s == <<>>
  <2>1. s \in Seq(Line) /\ Len(s) = 0
    BY <1>1
  <2> HIDE DEF s
  <2>2. ASSUME NEW c PROVE c \notin Referenced(s)
    <3>1. \A i \in 1..Len(s) : FALSE
      BY <2>1
    <3>2. ~\E i \in 1..Len(s) : IsCheckpoint(s[i]) /\ s[i].content = c
      BY <3>1
    <3> QED
      BY <2>1, <3>2, ReferencedFacts
  <2>3. Referenced(s) = {}
    BY <2>2
  <2> QED
    BY <2>3 DEF s
<1> QED
  BY <1>2, IdleFacts DEF JobBlobs

\* A step that loses no blob and leaves the log and the fork alone.
LEMMA BlobsQuiet ==
  ASSUME Shape, Blobs, NEW p \in Procs, NEW j, job' = [job EXCEPT ![p] = j],
         UNCHANGED <<log, tail, fork>>, blobs \subseteq blobs',
         j.at = "write" \/ p \in Batchers => Referenced(j.batch) \subseteq blobs'
  PROVE  Blobs'
<1>1. Events' = Events
  BY DEF Events, Parses
<1>2. job' [p] = j /\ \A q \in Procs \ {p} : job'[q] = job[q]
  BY Held
<1>3. \A q \in Procs : job'[q].at = "write" \/ q \in Batchers => Referenced(job'[q].batch) \subseteq blobs'
  BY <1>2 DEF Blobs
<1> QED
  BY <1>1, <1>3 DEF Blobs, Referenced

\* A new session has no blobs, and needs none.
LEMMA BlobsInit == Init => Blobs
<1> SUFFICES ASSUME Init PROVE Blobs
  OBVIOUS
<1>1. TypeOK /\ tail = <<>> /\ log = <<>>
  BY ShapeInit DEF Shape, Init
<1>2. Events = <<>>
  BY <1>1, EventsFacts
<1>3. \A p \in Procs : job[p] = Idle
  BY DEF Init
<1>4. fork.at = "none"
  BY DEF Init
<1> QED
  BY <1>2, <1>3, <1>4, NoBatchNoBlobs DEF Blobs, JobBlobs

\* A batch that is prepared has its blobs.
LEMMA BlobsPrepares ==
  ASSUME Shape, Blobs, NEW p \in Procs, NEW batch \in Seq(Line), batch # <<>>,
         PrepareAppend(p, batch), UNCHANGED <<log, tail, fork>>, blobs \subseteq blobs',
         \A i \in 1..Len(batch) : IsCheckpoint(batch[i]) => batch[i].content \in blobs' \cup {Absent}
  PROVE  Blobs'
<1>1. job' = [job EXCEPT ![p] = Prepared(batch)]
  BY DEF PrepareAppend, Prepared
<1> DEFINE b == Prepared(batch).batch
<1>2. /\ b \in Seq(Line) /\ Len(b) = Len(batch)
      /\ \A i \in 1..Len(batch) : b[i].content = batch[i].content /\ b[i].type = batch[i].type
  BY PreparedFacts, NextSequenceFacts, NumberedFacts, Held
<1> HIDE DEF b
<1>3. \A i \in 1..Len(b) : IsCheckpoint(b[i]) => b[i].content \in blobs' \cup {Absent}
  BY <1>2 DEF IsCheckpoint
<1>4. Referenced(b) \subseteq blobs'
  BY <1>2, <1>3, ReferencedFacts
<1> HIDE DEF Prepared
<1> QED
  BY <1>1, <1>4, BlobsQuiet DEF b

\* The steps that prepare one, with the blob of a capture.
LEMMA BlobsAppends ==
  ASSUME Shape, Blobs, NEW p \in Procs,
         AppendEvents(p) \/ AppendEventUnlessExists(p) \/ Flush(p) \/ CaptureToolCheckpoint(p)
  PROVE  Blobs'
<1>0. UNCHANGED <<log, tail, fork>> /\ blobs \subseteq blobs'
  BY DEF AppendEvents, AppendEventUnlessExists, Flush, CaptureToolCheckpoint, StoreBlob
<1>1. CASE AppendEvents(p)
  <2>1. PICK n \in 1..2 : PrepareAppend(p, [i \in 1..n |-> Event(0, "message")])
    BY <1>1 DEF AppendEvents
  <2> DEFINE b == [i \in 1..n |-> Event(0, "message")]
  <2>2. b \in Seq(Line) /\ Len(b) = n /\ \A i \in 1..Len(b) : b[i] = Event(0, "message")
    BY EventFits
  <2>3. b # <<>> /\ \A i \in 1..Len(b) : ~IsCheckpoint(b[i])
    BY <2>2, EmptySeq, EventFits
  <2>4. PrepareAppend(p, b)
    BY <2>1
  <2> HIDE DEF b
  <2> QED
    BY <1>0, <2>2, <2>3, <2>4, BlobsPrepares
<1>2. CASE AppendEventUnlessExists(p)
  <2> DEFINE b == <<Event(0, "usage")>>
  <2>1. b \in Seq(Line) /\ Len(b) = 1 /\ b # <<>> /\ \A i \in 1..Len(b) : ~IsCheckpoint(b[i])
    BY EventFits
  <2>2. PrepareAppend(p, b)
    BY <1>2 DEF AppendEventUnlessExists
  <2> HIDE DEF b
  <2> QED
    BY <1>0, <2>1, <2>2, BlobsPrepares
<1>3. CASE Flush(p)
  <2> DEFINE old == job[p].batch
             b == old \o <<Event(0, "message")>>
  <2>1. JobFits(p, job[p]) /\ old \in Seq(Line) /\ p \in Batchers
    BY <1>3, Held DEF Flush, JobFits, Job
  <2>2. /\ b \in Seq(Line) /\ Len(b) = Len(old) + 1 /\ \A i \in 1..Len(old) : b[i] = old[i]
        /\ b[Len(old) + 1] = Event(0, "message") /\ Len(old) \in Nat
    BY <2>1, EventFits
  <2>3. b # <<>>
    BY <2>2, EmptySeq
  <2>4. ASSUME NEW i \in 1..Len(b), IsCheckpoint(b[i])
        PROVE  b[i].content \in blobs' \cup {Absent}
    <3>1. i # Len(old) + 1
      BY <2>2, <2>4, EventFits
    <3>2. i \in 1..Len(old) /\ b[i] = old[i]
      BY <2>2, <3>1
    <3>3. Referenced(old) \subseteq blobs
      BY <2>1 DEF Blobs
    <3>4. old[i].content = Absent \/ old[i].content \in Referenced(old)
      BY <2>1, <2>4, <3>2, ReferencedFacts
    <3> QED
      BY <1>0, <3>2, <3>3, <3>4
  <2>5. PrepareAppend(p, b)
    BY <1>3 DEF Flush
  <2> HIDE DEF b
  <2> QED
    BY <1>0, <2>2, <2>3, <2>4, <2>5, BlobsPrepares
<1>4. CASE CaptureToolCheckpoint(p)
  <2>1. PICK f \in Files : StoreBlob(f) /\ PrepareAppend(p, <<Checkpoint(f)>>)
    BY <1>4 DEF CaptureToolCheckpoint
  <2> DEFINE b == <<Checkpoint(f)>>
  <2>2. b \in Seq(Line) /\ Len(b) = 1 /\ b[1] = Checkpoint(f) /\ b # <<>> /\ PrepareAppend(p, b)
    BY <2>1, Held, CheckpointFits
  <2>3. \A i \in 1..Len(b) : b[i].content = ws[f]
    BY <2>2, Held, CheckpointFits
  <2>4. ws[f] \in blobs' \cup {Absent}
    BY <2>1 DEF StoreBlob
  <2> HIDE DEF b
  <2> QED
    BY <1>0, <2>2, <2>3, <2>4, BlobsPrepares
<1> QED
  BY <1>1, <1>2, <1>3, <1>4

\* What is written was in the log or in the batch.
LEMMA BlobsWrites ==
  ASSUME Shape, Blobs, NEW p \in Procs, WriteLog(p) \/ BreakWrite(p)
  PROVE  Blobs'
<1>1. job[p].at = "write" /\ UNCHANGED <<blobs, fork>>
  BY DEF WriteLog, BreakWrite
<1>2. RestFits'
  <2>1. Shape'
    BY ShapeWrites
  <2> QED
    BY <2>1 DEF Shape, TypeOK, RestFits
<1>3. JobFits(p, job[p]) /\ job \in [Procs -> Job] /\ job[p].batch \in Seq(Line) /\ TypeOK /\ Events \in Seq(Line)
  <2>1. JobFits(p, job[p]) /\ job \in [Procs -> Job] /\ TypeOK
    BY Held
  <2> QED
    BY <2>1, EventsFacts DEF Job
<1>4. Referenced(job[p].batch) \subseteq blobs /\ Referenced(Events) \subseteq blobs
  BY <1>1 DEF Blobs
<1>5. \A q \in Procs : JobBlobs(q, job'[q])
  <2>1. \A q \in Procs : JobBlobs(q, job[q])
    BY BlobsParts
  <2>2. CASE WriteLog(p)
    <3>1. /\ job'[p].at = "meta" /\ job'[p].batch = job[p].batch
          /\ \A q \in Procs \ {p} : job'[q] = job[q]
      BY <1>3, <2>2 DEF WriteLog, Job
    <3> QED
      BY <1>4, <2>1, <3>1 DEF JobBlobs
  <2>3. CASE BreakWrite(p)
    <3>1. job' = [job EXCEPT ![p] = AfterAppend(p)]
      BY <2>3 DEF BreakWrite
    <3>2. JobBlobs(p, AfterAppend(p))
      BY <1>1, AfterFacts, NoBatchNoBlobs DEF JobBlobs
    <3> QED
      BY <1>3, <2>1, <3>1, <3>2
  <2> QED
    BY <2>2, <2>3
<1>6. ASSUME NEW k \in Nat, Wrote(p, k)
      PROVE  Referenced(Events') \subseteq blobs
  <2>1. Events' \in Seq(Line)
    BY <1>2, EventsNext
  <2>2. ASSUME NEW i \in 1..Len(Events'), IsCheckpoint(Events'[i])
        PROVE  Events'[i].content \in blobs \cup {Absent}
    <3>1. \/ Events'[i] = Malformed
          \/ \E v \in 1..Len(log) : Events'[i] = log[v]
          \/ \E v \in 1..Len(job[p].batch) : Events'[i] = job[p].batch[v]
      BY SMTT(60), <1>2, <1>6, EventsComeFrom, WroteLines
    <3>2. Events'[i] # Malformed
      BY <2>2, MalformedFits
    <3>3. CASE \E v \in 1..Len(log) : Events'[i] = log[v]
      <4>1. PICK v \in 1..Len(log) : Events'[i] = log[v]
        BY <3>3
      <4>2. v \in 1..Len(Events) /\ Events[v] = Events'[i]
        <5>1. Len(log) \in Nat /\ Len(Events) \in Nat /\ Len(log) <= Len(Events)
          BY <1>3, EventsFacts DEF TypeOK
        <5> QED
          BY <1>3, <4>1, <5>1, EventsFacts
      <4> QED
        BY <1>3, <1>4, <2>2, <4>2, ReferencedFacts
    <3>4. CASE \E v \in 1..Len(job[p].batch) : Events'[i] = job[p].batch[v]
      <4>1. PICK v \in 1..Len(job[p].batch) : Events'[i] = job[p].batch[v]
        BY <3>4
      <4> QED
        BY <1>3, <1>4, <2>2, <4>1, ReferencedFacts
    <3> QED
      BY <3>1, <3>2, <3>3, <3>4
  <2> QED
    BY <2>1, <2>2, ReferencedFacts
<1>7. Referenced(Events') \subseteq blobs
  <2>1. CASE WriteLog(p)
    BY <1>6, <2>1, Writes
  <2>2. CASE UNCHANGED <<log, tail>>
    <3>1. Events' = Events
      BY <2>2 DEF Events, Parses
    <3> QED
      BY <1>4, <3>1
  <2> QED
    BY <1>6, <2>1, <2>2, Breaks
<1> QED
  BY <1>1, <1>5, <1>7 DEF Blobs, JobBlobs, Referenced

\* A prune takes what no event names; nobody else carries a checkpoint then.
LEMMA BlobsPrunes ==
  ASSUME SnapshotContract, Shape, Blobs, NEW p \in Procs, PruneOrphanBlobs(p)
  PROVE  Blobs'
<1>1. /\ job[p].at = "prune" /\ blobs' = blobs \cap Referenced(Events)
      /\ PrepareAppend(p, <<Event(0, "session_rewind")>>) /\ RaceFork
      /\ UNCHANGED <<log, tail>>
  BY DEF PruneOrphanBlobs
<1>2. /\ JobFits(p, job[p]) /\ p \in Rewinders /\ job \in [Procs -> Job] /\ TypeOK
      /\ \A q \in Procs \ {p} : job[q].at # "write"
  BY <1>1, Held DEF JobFits, Rewinding, Locked
<1>3. \A q \in Procs \ {p} : q \notin Batchers
  BY <1>2 DEF SnapshotContract
<1>4. Events' = Events
  BY <1>1 DEF Events, Parses
<1> DEFINE b == <<Event(0, "session_rewind")>>
<1>5. /\ b \in Seq(Line) /\ Len(b) = 1 /\ b # <<>>
      /\ \A i \in 1..Len(b) : ~IsCheckpoint(b[i])
  BY EventFits
<1>6. job' = [job EXCEPT ![p] = Prepared(b)]
  BY <1>1 DEF PrepareAppend, Prepared
<1> HIDE DEF b
<1> DEFINE c == Prepared(b).batch
<1>7. /\ c \in Seq(Line) /\ Len(c) = Len(b)
      /\ \A i \in 1..Len(b) : c[i].type = b[i].type
  BY <1>2, <1>5, PreparedFacts, NextSequenceFacts, NumberedFacts
<1> HIDE DEF c
<1>8. Referenced(c) = {}
  <2>1. \A i \in 1..Len(c) : ~IsCheckpoint(c[i])
    BY <1>5, <1>7 DEF IsCheckpoint
  <2>2. \A x : x \notin Referenced(c)
    BY <1>7, <2>1, ReferencedFacts
  <2> QED
    BY <2>2
<1> HIDE DEF Prepared
<1>9. \A q \in Procs : job'[q].at = "write" \/ q \in Batchers => Referenced(job'[q].batch) \subseteq blobs'
  BY <1>2, <1>3, <1>6, <1>8 DEF c
<1>10. Referenced(Events') \subseteq blobs'
  BY <1>1, <1>4 DEF Blobs
<1>11. fork'.at = fork.at /\ fork'.missing = fork.missing /\ (fork'.raced <=> (fork.raced \/ fork.at = "copying"))
  <2> DEFINE r == fork.raced \/ fork.at = "copying"
  <2>1. fork' = [fork EXCEPT !.raced = r]
    BY <1>1 DEF RaceFork
  <2>2. fork \in [at : {"none", "copying", "done"}, missing : SUBSET Contents, raced : BOOLEAN]
    BY <1>2 DEF TypeOK
  <2>3. fork'.at = fork.at /\ fork'.missing = fork.missing /\ fork'.raced = r
    <3> HIDE DEF r
    <3> QED
      BY <2>1, <2>2
  <2> QED
    BY <2>3
<1> QED
  BY <1>9, <1>10, <1>11 DEF Blobs, Referenced

\* A fork has read what the log names.
LEMMA BlobsForks ==
  ASSUME Shape, Blobs, NEW p \in Procs, ForkRead(p) \/ ForkCopyBlobs(p)
  PROVE  Blobs'
<1>1. UNCHANGED <<log, tail, blobs, job>>
  BY DEF ForkRead, ForkCopyBlobs
<1>2. Events' = Events
  BY <1>1 DEF Events, Parses
<1>3. fork \in [at : {"none", "copying", "done"}, missing : SUBSET Contents, raced : BOOLEAN]
  BY Held DEF RestFits
<1>4. ForkBlobs'
  <2>1. CASE ForkRead(p)
    BY <2>1 DEF ForkRead, ForkBlobs, Blobs
  <2>2. CASE ForkCopyBlobs(p)
    <3>1. /\ fork.at = "copying" /\ fork'.at = "done" /\ fork'.missing = fork.missing \ blobs
          /\ fork'.raced = fork.raced
      BY <1>3, <2>2 DEF ForkCopyBlobs
    <3> QED
      BY <1>1, <3>1 DEF ForkBlobs, Blobs
  <2> QED
    BY <2>1, <2>2
<1> QED
  BY <1>1, <1>2, <1>4 DEF Blobs, ForkBlobs, Referenced

\* A shorter log names no more.
LEMMA BlobsTruncates ==
  ASSUME Shape, Numbers, Blobs, NEW p \in Procs, TruncateLog(p)
  PROVE  Blobs'
<1>1. /\ job' = [job EXCEPT ![p].at = "recount"] /\ UNCHANGED <<blobs, fork>>
  BY DEF TruncateLog
<1>2. job \in [Procs -> Job] /\ TypeOK
  BY Held
<1>3. /\ job'[p].at = "recount" /\ job'[p].batch = job[p].batch
      /\ \A q \in Procs \ {p} : job'[q] = job[q]
  BY <1>1, <1>2 DEF Job
<1>4. \A q \in Procs : job'[q].at = "write" \/ q \in Batchers => Referenced(job'[q].batch) \subseteq blobs
  BY <1>3 DEF Blobs
<1>5. PICK m \in 0..Len(Events) : Len(log') = m /\ \A i \in 1..m : log'[i] = Events[i]
  BY Truncates
<1>6. Events' = log' /\ log' \in Seq(Line) /\ Events \in Seq(Line) /\ Len(Events) \in Nat
  BY <1>2, Truncates, EventsFacts
<1>7. \A i \in 1..Len(Events') : i \in 1..Len(Events) /\ Events'[i] = Events[i]
  BY <1>5, <1>6
<1>8. Referenced(Events') \subseteq Referenced(Events)
  BY <1>6, <1>7, ReferencedFacts
<1> QED
  BY <1>1, <1>4, <1>8 DEF Blobs, Referenced

\* Lines that are alike name the same blobs.
LEMMA AlikeNames ==
  ASSUME NEW l1 \in Seq(Line), NEW l2, Alike(l1, l2)
  PROVE  Referenced(l2) = Referenced(l1)
<1>1. l2 \in Seq(Line) /\ Len(l2) = Len(l1)
      /\ \A i \in 1..Len(l1) : l2[i].content = l1[i].content /\ (IsCheckpoint(l2[i]) <=> IsCheckpoint(l1[i]))
  BY DEF Alike, SameLine, IsCheckpoint
<1>2. \A x : x \in Referenced(l2) <=> x \in Referenced(l1)
  BY <1>1, ReferencedFacts
<1> QED
  BY <1>2

\* A tool call names no other blobs.
LEMMA BlobsTools ==
  ASSUME Shape, Blobs, NEW p \in Procs, Tool(p)
  PROVE  Blobs'
<1>1. UNCHANGED <<blobs, fork>>
  BY DEF Tool
<1>2. Referenced(Events') \subseteq blobs
  BY ToolEvents, AlikeNames DEF Blobs
<1>3. job[p].batch \in Seq(Line)
  BY Held DEF JobFits, Job
<1>4. ASSUME NEW q \in Procs, job'[q].at = "write" \/ q \in Batchers
      PROVE  Referenced(job'[q].batch) \subseteq blobs
  <2>1. CASE q = p
    <3>1. CASE job'[p] = Idle
      BY <2>1, <3>1, NoBatchNoBlobs, IdleFacts
    <3>2. CASE job'[p] # Idle
      <4>1. p \in Batchers /\ Alike(job[p].batch, job'[p].batch)
        BY <3>2, ToolFacts DEF ToolChanges
      <4> QED
        BY <1>3, <2>1, <4>1, AlikeNames DEF Blobs
    <3> QED
      BY <3>1, <3>2
  <2>2. CASE q # p
    <3>1. job'[q].at = job[q].at /\ job'[q].batch = job[q].batch
      BY <2>2, ToolFacts DEF ToolChanges
    <3> QED
      BY <1>4, <3>1 DEF Blobs
  <2> QED
    BY <2>1, <2>2
<1> QED
  BY <1>1, <1>2, <1>4 DEF Blobs, Referenced

\* The beginning of a rewind leaves the blobs alone.
LEMMA BlobsApplies ==
  ASSUME Shape, Blobs, NEW p \in Procs, ApplyRewind(p)
  PROVE  Blobs'
<1>1. /\ UNCHANGED <<log, tail, blobs, fork>>
      /\ \E target \in 0..Last(Events).seq :
         job' = [q \in Procs |->
                  IF q = p
                  THEN [Idle EXCEPT !.at = "restore", !.target = target,
                          !.todo = {f \in Files : CheckpointsAfter(f, target) # {}}]
                  ELSE [job[q] EXCEPT !.disturbed = job[q].at = "tool"]]
  BY DEF ApplyRewind
<1>2. job'[p].batch = <<>>
  BY ZenonT(60), <1>1, IdleFacts DEF Job
<1>3. ASSUME NEW q \in Procs \ {p}
      PROVE  job'[q].at = job[q].at /\ job'[q].batch = job[q].batch
  <2> DEFINE d == job[q].at = "tool"
  <2>1. job'[q] = [job[q] EXCEPT !.disturbed = d]
    BY <1>1
  <2>2. job[q] \in Job
    BY Held
  <2> HIDE DEF d
  <2> QED
    BY <2>1, <2>2 DEF Job
<1>4. Events' = Events
  BY <1>1 DEF Events, Parses
<1>5. ASSUME NEW q \in Procs, job'[q].at = "write" \/ q \in Batchers
      PROVE  Referenced(job'[q].batch) \subseteq blobs
  <2>1. CASE q = p
    BY <1>2, <2>1, NoBatchNoBlobs
  <2>2. CASE q # p
    BY <1>3, <1>5, <2>2 DEF Blobs
  <2> QED
    BY <2>1, <2>2
<1> QED
  BY ZenonT(60), <1>1, <1>4, <1>5 DEF Blobs, Referenced

\* The steps that take no blob away and leave the log alone.
LEMMA BlobsRest ==
  ASSUME Shape, Blobs, NEW p \in Procs,
         \/ WriteCount(p) \/ UpdateTitle(p) \/ WriteTitle(p) \/ SnapshotForCheckpoint(p)
         \/ RestoreFile(p) \/ TruncateCount(p) \/ Crash(p) \/ BreakSync(p)
  PROVE  Blobs'
<1>0. UNCHANGED <<log, tail, fork>> /\ blobs \subseteq blobs'
  BY DEF WriteCount, UpdateTitle, WriteTitle, SnapshotForCheckpoint, RestoreFile, TruncateCount,
     Crash, BreakSync, StoreBlob
<1>1. JobFits(p, job[p]) /\ job \in [Procs -> Job] /\ job[p] \in Job
  BY Held DEF JobFits
<1>2. CASE WriteCount(p) \/ BreakSync(p)
  <2>1. job[p].at = "meta" /\ job' = [job EXCEPT ![p] = AfterAppend(p)]
    BY <1>2 DEF WriteCount, BreakSync
  <2>2. JobBlobs(p, AfterAppend(p))
    BY <2>1, AfterFacts, NoBatchNoBlobs DEF JobBlobs
  <2>3. AfterAppend(p).at = "write" \/ p \in Batchers => Referenced(AfterAppend(p).batch) \subseteq blobs'
    BY <1>0, <2>2 DEF JobBlobs
  <2> QED
    BY <1>0, <2>1, <2>3, BlobsQuiet
<1>3. CASE UpdateTitle(p)
  <2> DEFINE j == [Idle EXCEPT !.at = "title", !.meta = meta]
  <2>1. job' = [job EXCEPT ![p] = j]
    BY <1>3 DEF UpdateTitle
  <2>2. j.batch = <<>>
    BY IdleFacts DEF Job
  <2> HIDE DEF j
  <2> QED
    BY <1>0, <2>1, <2>2, NoBatchNoBlobs, BlobsQuiet
<1>4. CASE WriteTitle(p) \/ Crash(p)
  <2>1. job' = [job EXCEPT ![p] = Idle]
    BY <1>4 DEF WriteTitle, Crash
  <2> QED
    BY <1>0, <2>1, IdleFacts, NoBatchNoBlobs, BlobsQuiet
<1>5. CASE SnapshotForCheckpoint(p)
  <2>1. PICK f \in Files : /\ StoreBlob(f)
                           /\ job' = [job EXCEPT ![p] = [Idle EXCEPT !.at = "tool", !.batch = <<Checkpoint(f)>>]]
    BY <1>5 DEF SnapshotForCheckpoint
  <2> DEFINE b == <<Checkpoint(f)>>
             j == [Idle EXCEPT !.at = "tool", !.batch = b]
  <2>2. b \in Seq(Line) /\ Len(b) = 1 /\ \A i \in 1..Len(b) : b[i].content = ws[f]
    BY Held, CheckpointFits
  <2>3. job' = [job EXCEPT ![p] = j]
    BY <2>1
  <2> HIDE DEF b
  <2>4. j.batch = b
    BY IdleFacts DEF Job
  <2> HIDE DEF j
  <2>5. ws[f] \in blobs' \cup {Absent}
    BY <2>1 DEF StoreBlob
  <2>6. Referenced(b) \subseteq blobs'
    BY <2>2, <2>5, ReferencedFacts
  <2> QED
    BY <1>0, <2>3, <2>4, <2>6, BlobsQuiet
<1>6. CASE RestoreFile(p)
  <2>1. PICK f \in job[p].todo : job' = [job EXCEPT ![p].todo = @ \ {f}]
    BY <1>6 DEF RestoreFile
  <2> DEFINE j == [job[p] EXCEPT !.todo = @ \ {f}]
  <2>2. job' = [job EXCEPT ![p] = j] /\ job[p].at = "restore"
    BY <1>6, <2>1 DEF RestoreFile
  <2>3. j.batch = <<>>
    BY <1>1, <2>2 DEF Job, JobFits
  <2> HIDE DEF j
  <2> QED
    BY <1>0, <2>2, <2>3, NoBatchNoBlobs, BlobsQuiet
<1>7. CASE TruncateCount(p)
  <2> DEFINE j == [job[p] EXCEPT !.at = "prune"]
  <2>2. job' = [job EXCEPT ![p] = j] /\ job[p].at = "recount"
    BY <1>7 DEF TruncateCount
  <2>3. j.batch = <<>>
    BY <1>1, <2>2 DEF Job, JobFits
  <2> HIDE DEF j
  <2> QED
    BY <1>0, <2>2, <2>3, NoBatchNoBlobs, BlobsQuiet
<1> QED
  BY SMTT(60), <1>2, <1>3, <1>4, <1>5, <1>6, <1>7

\* Every step keeps the blobs.
LEMMA BlobsNext ==
  ASSUME SnapshotContract, Shape, Numbers, Blobs, [Next]_vars
  PROVE  Blobs'
<1>1. CASE UNCHANGED vars
  <2>1. Events' = Events
    BY <1>1 DEF vars, Events, Parses
  <2> QED
    BY <1>1, <2>1 DEF vars, Blobs, Referenced
<1>2. ASSUME NEW p \in Procs,
             AppendEvents(p) \/ AppendEventUnlessExists(p) \/ Flush(p) \/ CaptureToolCheckpoint(p)
      PROVE  Blobs'
  BY <1>2, BlobsAppends
<1>3. ASSUME NEW p \in Procs, WriteLog(p) \/ BreakWrite(p) PROVE Blobs'
  BY <1>3, BlobsWrites
<1>4. ASSUME NEW p \in Procs,
             \/ WriteCount(p) \/ UpdateTitle(p) \/ WriteTitle(p) \/ SnapshotForCheckpoint(p)
             \/ RestoreFile(p) \/ TruncateCount(p) \/ Crash(p) \/ BreakSync(p)
      PROVE  Blobs'
  BY <1>4, BlobsRest
<1>5. ASSUME NEW p \in Procs, Tool(p) PROVE Blobs'
  BY <1>5, BlobsTools
<1>6. ASSUME NEW p \in Procs, ApplyRewind(p) PROVE Blobs'
  BY <1>6, BlobsApplies
<1>7. ASSUME NEW p \in Procs, TruncateLog(p) PROVE Blobs'
  BY <1>7, BlobsTruncates
<1>8. ASSUME NEW p \in Procs, PruneOrphanBlobs(p) PROVE Blobs'
  BY <1>8, BlobsPrunes
<1>9. ASSUME NEW p \in Procs, ForkRead(p) \/ ForkCopyBlobs(p) PROVE Blobs'
  BY <1>9, BlobsForks
<1> QED
  BY <1>1, <1>2, <1>3, <1>4, <1>5, <1>6, <1>7, <1>8, <1>9 DEF Next

\* Every checkpoint of the log has its blob, and so has a fork that no rewind of the
\* parent raced (pruneOrphanBlobsLocked, CaptureToolCheckpoint, copyBlobs), given the
\* contract of SnapshotForCheckpoint.
THEOREM BlobsStayKept ==
  ASSUME SnapshotContract
  PROVE  Spec => []BlobsAreKept
<1>1. Init => Blobs
  BY BlobsInit
<1>2. Shape /\ Numbers /\ Blobs /\ [Next]_vars => Blobs'
  BY BlobsNext
<1>3. Blobs => BlobsAreKept
  BY DEF Blobs, BlobsAreKept, CheckpointsHaveBlobs, ForkCarriesItsBlobs
<1> QED
  BY <1>1, <1>2, <1>3, NumbersInductive, PTL DEF Spec

-----------------------------------------------------------------------------
(* The files: what a rewind restores, and what an edit replaces.           *)

\* The lines of a batch are true.
TrueBatch(b) == \A i \in 1..Len(b) : LineIsTrue(b[i])

\* Who has nothing to do has touched no file.
LEMMA IdleIsTrue == TrueBatch(Idle.batch) /\ \A p \in Procs : Guarded(p, Idle)
<1>1. \A i \in 1..Len(Idle.batch) : FALSE
  BY IdleFacts
<1> QED
  BY <1>1, IdleFacts DEF TrueBatch, Guarded, Awaits

\* A step that leaves the files alone and changes the job of p alone.
LEMMA FilesQuiet ==
  ASSUME Shape, FilesFit, NEW p \in Procs, NEW j, job' = [job EXCEPT ![p] = j], ws' = ws,
         Guarded(p, j), j.at # "restore",
         j.at = "tool" /\ ~j.disturbed => \A q \in Procs \ {p} : job[q].at # "restore",
         Events' = Events \/ \A q \in Procs \ {p} : job[q].at # "restore"
  PROVE  FilesFit'
<1>1. job'[p] = j /\ \A q \in Procs \ {p} : job'[q] = job[q]
  BY Held
<1>2. ASSUME NEW q \in Procs
      PROVE  Guarded(q, job'[q])
  BY <1>1 DEF FilesFit
<1>3. ASSUME NEW q \in Procs, job'[q].at = "tool", ~job'[q].disturbed, NEW r \in Procs
      PROVE  job'[r].at # "restore"
  BY <1>1, <1>3 DEF FilesFit
<1>4. ASSUME NEW q \in Procs, job'[q].at = "restore", ~job'[q].disturbed, NEW f \in Files \ job'[q].todo
      PROVE  Restored(job[q], f)'
  <2>1. q # p /\ job'[q] = job[q] /\ Events' = Events
    BY <1>1, <1>4
  <2>2. Restored(job[q], f)
    BY <1>4, <2>1 DEF FilesFit
  <2> QED
    BY <2>1, <2>2 DEF Restored, CheckpointsAfter
<1>5. ASSUME NEW q \in Procs
      PROVE  Guarded(q, job[q])'
  <2>1. Untouched(job[q])' <=> Untouched(job'[q])
    BY DEF Untouched
  <2> QED
    BY <1>2, <2>1 DEF Guarded, Awaits, Carries, IsCheckpoint
<1> QED
  BY <1>3, <1>4, <1>5 DEF FilesFit

\* Lines that stay true.
LEMMA LinesQuiet ==
  ASSUME Shape, LinesAreTrue, NEW p \in Procs, NEW j, job' = [job EXCEPT ![p] = j],
         UNCHANGED <<log, tail>>, TrueBatch(j.batch)
  PROVE  LinesAreTrue'
<1>1. job'[p] = j /\ \A q \in Procs \ {p} : job'[q] = job[q]
  BY Held
<1>2. ASSUME NEW q \in Procs
      PROVE  TrueBatch(job'[q].batch)
  BY <1>1 DEF LinesAreTrue, TrueBatch
<1> QED
  BY <1>2 DEF LinesAreTrue, TrueBatch, LineIsTrue, IsCheckpoint

\* Both, as a tool call needs them together.
FilesAndLines == FilesFit /\ LinesAreTrue

\* A batch that is prepared.
LEMMA FilesPrepares ==
  ASSUME Shape, FilesAndLines, NEW p \in Procs, NEW batch \in Seq(Line), batch # <<>>,
         PrepareAppend(p, batch), UNCHANGED <<log, tail, ws>>, TrueBatch(batch),
         IsCheckpoint(batch[1]) /\ p \notin Batchers => batch[1].content = ws[batch[1].file]
  PROVE  FilesAndLines'
<1>1. job' = [job EXCEPT ![p] = Prepared(batch)]
  BY DEF PrepareAppend, Prepared
<1>2. Events' = Events
  BY DEF Events, Parses
<1> DEFINE j == Prepared(batch)
           b == j.batch
<1>3. /\ j.at = "write" /\ ~j.disturbed /\ Len(b) = Len(batch) /\ b # <<>>
      /\ \A i \in 1..Len(batch) : /\ b[i].type = batch[i].type /\ b[i].file = batch[i].file
                                  /\ b[i].content = batch[i].content /\ b[i].before = batch[i].before
  BY Held, PreparedFacts, NextSequenceFacts, NumberedFacts
<1>4. 1 \in 1..Len(batch)
  BY EmptySeq
<1> HIDE DEF j
<1>5. Guarded(p, j)
  BY <1>3, <1>4 DEF Guarded, Awaits, Carries, IsCheckpoint, Untouched
<1>6. TrueBatch(b)
  <2> HIDE DEF b
  <2> QED
    BY <1>3 DEF TrueBatch, LineIsTrue, IsCheckpoint
<1>7. FilesFit'
  BY <1>1, <1>2, <1>3, <1>5, FilesQuiet DEF j, FilesAndLines
<1>8. LinesAreTrue'
  BY <1>1, <1>6, LinesQuiet DEF j, FilesAndLines
<1> QED
  BY <1>7, <1>8 DEF FilesAndLines

\* The steps that prepare a batch; a capture has the content of its file.
LEMMA FilesAppends ==
  ASSUME Shape, FilesAndLines, NEW p \in Procs,
         AppendEvents(p) \/ AppendEventUnlessExists(p) \/ Flush(p) \/ CaptureToolCheckpoint(p)
  PROVE  FilesAndLines'
<1>0. UNCHANGED <<log, tail, ws>>
  BY DEF AppendEvents, AppendEventUnlessExists, Flush, CaptureToolCheckpoint
<1>a. \A line \in Line : ~IsCheckpoint(line) => LineIsTrue(line)
  BY DEF LineIsTrue
<1>1. CASE AppendEvents(p)
  <2>1. PICK n \in 1..2 : PrepareAppend(p, [i \in 1..n |-> Event(0, "message")])
    BY <1>1 DEF AppendEvents
  <2> DEFINE b == [i \in 1..n |-> Event(0, "message")]
  <2>2. b \in Seq(Line) /\ Len(b) = n /\ \A i \in 1..Len(b) : b[i] = Event(0, "message")
    BY EventFits
  <2>3. b # <<>> /\ \A i \in 1..Len(b) : ~IsCheckpoint(b[i])
    BY <2>2, EmptySeq, EventFits
  <2>4. PrepareAppend(p, b) /\ 1 \in 1..Len(b)
    BY <2>1, <2>2
  <2> HIDE DEF b
  <2>5. TrueBatch(b)
    BY <2>3 DEF TrueBatch, LineIsTrue
  <2> QED
    BY <1>0, <2>2, <2>3, <2>4, <2>5, FilesPrepares
<1>2. CASE AppendEventUnlessExists(p)
  <2> DEFINE b == <<Event(0, "usage")>>
  <2>1. b \in Seq(Line) /\ Len(b) = 1 /\ b # <<>> /\ \A i \in 1..Len(b) : ~IsCheckpoint(b[i])
    BY EventFits
  <2>2. PrepareAppend(p, b)
    BY <1>2 DEF AppendEventUnlessExists
  <2> HIDE DEF b
  <2>3. TrueBatch(b) /\ ~IsCheckpoint(b[1])
    BY <2>1 DEF TrueBatch, LineIsTrue
  <2> QED
    BY <1>0, <2>1, <2>2, <2>3, FilesPrepares
<1>3. CASE Flush(p)
  <2> DEFINE old == job[p].batch
             b == old \o <<Event(0, "message")>>
  <2>1. JobFits(p, job[p]) /\ old \in Seq(Line) /\ p \in Batchers
    BY <1>3, Held DEF Flush, JobFits, Job
  <2>2. /\ b \in Seq(Line) /\ Len(b) = Len(old) + 1 /\ \A i \in 1..Len(old) : b[i] = old[i]
        /\ b[Len(old) + 1] = Event(0, "message") /\ Len(old) \in Nat
    BY <2>1, EventFits
  <2>3. b # <<>>
    BY <2>2, EmptySeq
  <2>4. ASSUME NEW i \in 1..Len(b)
        PROVE  LineIsTrue(b[i])
    <3>1. CASE i = Len(old) + 1
      BY <2>2, <3>1, EventFits DEF LineIsTrue
    <3>2. CASE i # Len(old) + 1
      <4>1. i \in 1..Len(old) /\ b[i] = old[i]
        BY <2>2, <3>2
      <4> QED
        BY <4>1 DEF FilesAndLines, LinesAreTrue
    <3> QED
      BY <3>1, <3>2
  <2>5. PrepareAppend(p, b)
    BY <1>3 DEF Flush
  <2> HIDE DEF b
  <2>6. TrueBatch(b)
    BY <2>4 DEF TrueBatch
  <2> QED
    BY <1>0, <2>1, <2>2, <2>3, <2>5, <2>6, FilesPrepares
<1>4. CASE CaptureToolCheckpoint(p)
  <2>1. PICK f \in Files : PrepareAppend(p, <<Checkpoint(f)>>)
    BY <1>4 DEF CaptureToolCheckpoint
  <2> DEFINE b == <<Checkpoint(f)>>
  <2>2. b \in Seq(Line) /\ Len(b) = 1 /\ b[1] = Checkpoint(f) /\ b # <<>> /\ PrepareAppend(p, b)
    BY <2>1, Held, CheckpointFits
  <2>3. b[1].file = f /\ b[1].content = ws[f] /\ b[1].before = NoEdit
    BY <2>2, Held, CheckpointFits DEF Checkpoint, Event
  <2> HIDE DEF b
  <2>4. TrueBatch(b)
    BY <2>2, <2>3 DEF TrueBatch, LineIsTrue
  <2> QED
    BY <1>0, <2>2, <2>3, <2>4, FilesPrepares
<1> QED
  BY <1>1, <1>2, <1>3, <1>4

\* After a write, a tool call that is to come has a file that nobody touched.
LEMMA FilesAfter ==
  ASSUME Shape, FilesAndLines, NEW p \in Procs, job[p].at \in {"write", "meta"}
  PROVE  /\ Guarded(p, AfterAppend(p)) /\ AfterAppend(p).at # "restore"
         /\ TrueBatch(AfterAppend(p).batch)
         /\ \A q \in Procs \ {p} : job[q].at # "restore"
<1>1. \A q \in Procs \ {p} : job[q].at # "restore"
  BY Held DEF Locked
<1>2. TrueBatch(job[p].batch) /\ Guarded(p, job[p])
  BY DEF FilesAndLines, FilesFit, LinesAreTrue, TrueBatch
<1>3. CASE AfterAppend(p) = Idle
  BY <1>1, <1>3, IdleIsTrue, IdleFacts
<1>4. CASE AfterAppend(p) # Idle
  <2>1. /\ AfterAppend(p).at = "tool" /\ AfterAppend(p).batch = job[p].batch
        /\ Carries(job[p]) /\ p \notin Batchers
    BY <1>4, AfterFacts
  <2>2. Untouched(job[p])
    BY <1>2, <2>1 DEF Guarded, Awaits
  <2> HIDE DEF AfterAppend
  <2>3. Guarded(p, AfterAppend(p))
    BY <2>1, <2>2 DEF Guarded, Untouched
  <2> QED
    BY <1>1, <1>2, <2>1, <2>3
<1> QED
  BY <1>3, <1>4

\* A write adds lines that are true.
LEMMA FilesWrites ==
  ASSUME Shape, FilesAndLines, NEW p \in Procs, WriteLog(p) \/ BreakWrite(p)
  PROVE  FilesAndLines'
<1>1. job[p].at = "write" /\ ws' = ws
  BY DEF WriteLog, BreakWrite
<1>2. RestFits'
  <2>1. Shape'
    BY ShapeWrites
  <2> QED
    BY <2>1 DEF Shape, TypeOK, RestFits
<1>3. PICK j : /\ job' = [job EXCEPT ![p] = j] /\ Guarded(p, j) /\ j.at # "restore"
               /\ TrueBatch(j.batch)
  <2>1. CASE WriteLog(p)
    <3> DEFINE j == [job[p] EXCEPT !.at = "meta"]
    <3>1. job' = [job EXCEPT ![p] = j]
      BY <2>1 DEF WriteLog
    <3>2. job[p] \in Job
      BY Held DEF JobFits
    <3>3. j.at = "meta" /\ j.batch = job[p].batch /\ j.disturbed = job[p].disturbed
      BY <3>2 DEF Job
    <3> HIDE DEF j
    <3>4. Guarded(p, job[p]) /\ TrueBatch(job[p].batch)
      BY DEF FilesAndLines, FilesFit, LinesAreTrue, TrueBatch
    <3>5. Guarded(p, j)
      BY <1>1, <3>3, <3>4 DEF Guarded, Awaits, Carries, Untouched
    <3> QED
      BY <3>1, <3>3, <3>4, <3>5
  <2>2. CASE BreakWrite(p)
    <3>1. job' = [job EXCEPT ![p] = AfterAppend(p)]
      BY <2>2 DEF BreakWrite
    <3> QED
      BY <1>1, <3>1, FilesAfter
  <2> QED
    BY <2>1, <2>2
<1>4. \A q \in Procs \ {p} : job[q].at # "restore"
  BY <1>1, Held DEF Locked
<1>5. FilesFit'
  BY <1>1, <1>3, <1>4, FilesQuiet DEF FilesAndLines
<1>6. \A q \in Procs : TrueBatch(job'[q].batch)
  <2>1. job'[p] = j /\ \A q \in Procs \ {p} : job'[q] = job[q]
    BY <1>3, Held
  <2> QED
    BY <1>3, <2>1 DEF FilesAndLines, LinesAreTrue, TrueBatch
<1>7. (\A i \in 1..Len(log') : LineIsTrue(log'[i])) /\ \A i \in 1..Len(tail') : LineIsTrue(tail'[i])
  <2>1. CASE UNCHANGED <<log, tail>>
    BY <2>1 DEF FilesAndLines, LinesAreTrue
  <2>2. ASSUME NEW k \in Nat, Wrote(p, k)
        PROVE  (\A i \in 1..Len(log') : LineIsTrue(log'[i])) /\ \A i \in 1..Len(tail') : LineIsTrue(tail'[i])
    <3>1. /\ LineIsTrue(Malformed)
          /\ \A v \in 1..Len(log) : LineIsTrue(log[v])
          /\ \A v \in 1..Len(job[p].batch) : LineIsTrue(job[p].batch[v])
      BY MalformedFits DEF LineIsTrue, FilesAndLines, LinesAreTrue
    <3>2. /\ \A i \in 1..Len(log') : \/ log'[i] = Malformed
                                     \/ \E v \in 1..Len(log) : log'[i] = log[v]
                                     \/ \E v \in 1..Len(job[p].batch) : log'[i] = job[p].batch[v]
          /\ \A i \in 1..Len(tail') : \/ tail'[i] = Malformed
                                      \/ \E v \in 1..Len(job[p].batch) : tail'[i] = job[p].batch[v]
      BY <2>2, WroteLines
    <3>3. ASSUME NEW i \in 1..Len(log') PROVE LineIsTrue(log'[i])
      BY <3>1, <3>2
    <3>4. ASSUME NEW i \in 1..Len(tail') PROVE LineIsTrue(tail'[i])
      BY <3>1, <3>2
    <3> QED
      BY <3>3, <3>4
  <2>3. CASE WriteLog(p)
    BY <2>2, <2>3, Writes
  <2> QED
    BY <2>1, <2>2, <2>3, Breaks
<1>8. LinesAreTrue'
  BY <1>6, <1>7 DEF LinesAreTrue, TrueBatch, LineIsTrue, IsCheckpoint
<1> QED
  BY <1>5, <1>8 DEF FilesAndLines

\* A snapshot has the content of its file, and nobody is restoring.
LEMMA FilesSnapshots ==
  ASSUME SnapshotContract, Shape, FilesAndLines, NEW p \in Procs, SnapshotForCheckpoint(p)
  PROVE  FilesAndLines'
<1>1. PICK f \in Files : job' = [job EXCEPT ![p] = [Idle EXCEPT !.at = "tool", !.batch = <<Checkpoint(f)>>]]
  BY DEF SnapshotForCheckpoint
<1>2. UNCHANGED <<log, tail, ws>> /\ p \in Batchers
  BY DEF SnapshotForCheckpoint
<1>3. Events' = Events
  BY <1>2 DEF Events, Parses
<1>4. \A q \in Procs \ {p} : job[q].at # "restore"
  <2> SUFFICES ASSUME NEW q \in Procs \ {p}, job[q].at = "restore" PROVE FALSE
    OBVIOUS
  <2>1. q \in Rewinders
    BY Held DEF JobFits, Rewinding
  <2> QED
    BY <1>2, <2>1 DEF SnapshotContract
<1> DEFINE b == <<Checkpoint(f)>>
           j == [Idle EXCEPT !.at = "tool", !.batch = b]
<1>5. b \in Seq(Line) /\ Len(b) = 1 /\ b[1] = Checkpoint(f)
  BY Held, CheckpointFits
<1>6. b[1].file = f /\ b[1].content = ws[f] /\ b[1].before = NoEdit
  BY <1>5, Held, CheckpointFits DEF Checkpoint, Event
<1>7. job' = [job EXCEPT ![p] = j]
  BY <1>1
<1> HIDE DEF b
<1>8. j.at = "tool" /\ j.batch = b /\ ~j.disturbed
  BY IdleFacts DEF Job
<1> HIDE DEF j
<1>9. Guarded(p, j)
  BY <1>6, <1>8 DEF Guarded, Untouched
<1>10. TrueBatch(j.batch)
  <2>1. \A i \in 1..Len(b) : i = 1
    BY <1>5
  <2>2. TrueBatch(b)
    BY <1>6, <2>1 DEF TrueBatch, LineIsTrue
  <2> QED
    BY <1>8, <2>2
<1>11. FilesFit'
  BY <1>2, <1>3, <1>4, <1>7, <1>8, <1>9, FilesQuiet DEF FilesAndLines
<1>12. LinesAreTrue'
  BY <1>2, <1>7, <1>10, LinesQuiet DEF FilesAndLines
<1> QED
  BY <1>11, <1>12 DEF FilesAndLines

\* The steps that change no file and no line.
LEMMA FilesRest ==
  ASSUME Shape, FilesAndLines, NEW p \in Procs,
         \/ WriteCount(p) \/ UpdateTitle(p) \/ WriteTitle(p) \/ TruncateCount(p) \/ Crash(p)
         \/ BreakSync(p)
  PROVE  FilesAndLines'
<1>1. UNCHANGED <<log, tail, ws>>
  BY DEF WriteCount, UpdateTitle, WriteTitle, TruncateCount, Crash, BreakSync
<1>2. Events' = Events
  BY <1>1 DEF Events, Parses
<1>3. \E j : /\ job' = [job EXCEPT ![p] = j] /\ Guarded(p, j) /\ j.at # "restore" /\ TrueBatch(j.batch)
             /\ j.at = "tool" => \A q \in Procs \ {p} : job[q].at # "restore"
  <2>1. CASE WriteCount(p) \/ BreakSync(p)
    <3>1. job[p].at = "meta" /\ job' = [job EXCEPT ![p] = AfterAppend(p)]
      BY <2>1 DEF WriteCount, BreakSync
    <3> QED
      BY <3>1, FilesAfter
  <2>2. CASE UpdateTitle(p)
    <3> DEFINE j == [Idle EXCEPT !.at = "title", !.meta = meta]
    <3>1. job' = [job EXCEPT ![p] = j]
      BY <2>2 DEF UpdateTitle
    <3>2. j.at = "title" /\ j.batch = Idle.batch
      BY IdleFacts DEF Job
    <3> HIDE DEF j
    <3>3. Guarded(p, j) /\ TrueBatch(j.batch)
      BY <3>2, IdleIsTrue DEF Guarded, Awaits
    <3> QED
      BY <3>1, <3>2, <3>3
  <2>3. CASE WriteTitle(p) \/ Crash(p)
    <3>1. job' = [job EXCEPT ![p] = Idle]
      BY <2>3 DEF WriteTitle, Crash
    <3> QED
      BY <3>1, IdleIsTrue, IdleFacts
  <2>4. CASE TruncateCount(p)
    <3> DEFINE j == [job[p] EXCEPT !.at = "prune"]
    <3>1. job' = [job EXCEPT ![p] = j] /\ job[p] \in Job
      BY <2>4, Held DEF TruncateCount, JobFits
    <3>2. j.at = "prune" /\ j.batch = job[p].batch
      BY <3>1 DEF Job
    <3> HIDE DEF j
    <3>3. Guarded(p, j) /\ TrueBatch(j.batch)
      BY <3>2 DEF Guarded, Awaits, TrueBatch, FilesAndLines, LinesAreTrue
    <3> QED
      BY <3>1, <3>2, <3>3
  <2> QED
    BY <2>1, <2>2, <2>3, <2>4
<1>4. PICK j : /\ job' = [job EXCEPT ![p] = j] /\ Guarded(p, j) /\ j.at # "restore" /\ TrueBatch(j.batch)
               /\ j.at = "tool" => \A q \in Procs \ {p} : job[q].at # "restore"
  BY <1>3
<1>5. FilesFit'
  BY <1>1, <1>2, <1>4, FilesQuiet DEF FilesAndLines
<1>6. LinesAreTrue'
  BY <1>1, <1>4, LinesQuiet DEF FilesAndLines
<1> QED
  BY <1>5, <1>6 DEF FilesAndLines

\* The marker of a rewind is no checkpoint.
LEMMA FilesPrunes ==
  ASSUME Shape, FilesAndLines, NEW p \in Procs, PruneOrphanBlobs(p)
  PROVE  FilesAndLines'
<1>1. PrepareAppend(p, <<Event(0, "session_rewind")>>) /\ UNCHANGED <<log, tail, ws>>
  BY DEF PruneOrphanBlobs
<1> DEFINE b == <<Event(0, "session_rewind")>>
<1>2. b \in Seq(Line) /\ Len(b) = 1 /\ b # <<>> /\ \A i \in 1..Len(b) : ~IsCheckpoint(b[i])
  BY EventFits
<1>3. PrepareAppend(p, b)
  BY <1>1
<1> HIDE DEF b
<1>4. TrueBatch(b) /\ ~IsCheckpoint(b[1])
  BY <1>2 DEF TrueBatch, LineIsTrue
<1> QED
  BY <1>1, <1>2, <1>3, <1>4, FilesPrepares

\* What can be read is true.
LEMMA EventsAreTrue ==
  ASSUME Shape, LinesAreTrue
  PROVE  \A i \in 1..Len(Events) : LineIsTrue(Events[i])
<1>1. TypeOK /\ log \in Seq(Line) /\ tail \in Seq(Line) /\ Len(log) \in Nat
  BY Held DEF Shape, TypeOK
<1>2. CASE tail # <<>> /\ Parses(tail[1])
  <2>1. 1 \in 1..Len(tail)
    BY <1>1, <1>2, EmptySeq
  <2>2. \A i \in 1..Len(Events) : i \in 1..Len(log) \/ i = Len(log) + 1
    BY <1>1, <1>2, EventsFacts
  <2> QED
    BY <1>1, <1>2, <2>1, <2>2, EventsFacts DEF LinesAreTrue
<1>3. CASE ~(tail # <<>> /\ Parses(tail[1]))
  BY <1>1, <1>3, EventsFacts DEF LinesAreTrue
<1> QED
  BY <1>2, <1>3

\* What a rewind keeps was true before.
LEMMA FilesTruncates ==
  ASSUME Shape, Numbers, FilesAndLines, NEW p \in Procs, TruncateLog(p)
  PROVE  FilesAndLines'
<1>1. job[p].at = "restore" /\ ws' = ws /\ job' = [job EXCEPT ![p].at = "recount"]
  BY DEF TruncateLog
<1> DEFINE j == [job[p] EXCEPT !.at = "recount"]
<1>2. job' = [job EXCEPT ![p] = j] /\ job[p] \in Job
  BY <1>1, Held DEF JobFits
<1>3. j.at = "recount" /\ j.batch = job[p].batch
  BY <1>2 DEF Job
<1> HIDE DEF j
<1>4. Guarded(p, j) /\ TrueBatch(j.batch)
  BY <1>3 DEF Guarded, Awaits, TrueBatch, FilesAndLines, LinesAreTrue
<1>5. \A q \in Procs \ {p} : job[q].at # "restore"
  BY <1>1, Held DEF Locked
<1>6. FilesFit'
  BY <1>1, <1>2, <1>3, <1>4, <1>5, FilesQuiet DEF FilesAndLines
<1>7. job'[p] = j /\ \A q \in Procs \ {p} : job'[q] = job[q]
  BY <1>2, Held
<1>8. \A q \in Procs : TrueBatch(job'[q].batch)
  BY <1>4, <1>7 DEF FilesAndLines, LinesAreTrue, TrueBatch
<1>9. \A i \in 1..Len(log') : LineIsTrue(log'[i])
  <2>1. PICK m \in 0..Len(Events) : Len(log') = m /\ \A i \in 1..m : log'[i] = Events[i]
    BY Truncates
  <2>2. Len(Events) \in Nat
    BY Held, EventsFacts
  <2> QED
    BY <2>1, <2>2, EventsAreTrue DEF FilesAndLines
<1>10. \A i \in 1..Len(tail') : LineIsTrue(tail'[i])
  BY Truncates
<1>11. LinesAreTrue'
  BY <1>8, <1>9, <1>10 DEF LinesAreTrue, TrueBatch, LineIsTrue, IsCheckpoint
<1> QED
  BY <1>6, <1>11 DEF FilesAndLines

\* A file that is restored gets the content of the checkpoint closest to the target.
LEMMA FilesRestores ==
  ASSUME Shape, Blobs, FilesAndLines, NEW p \in Procs, RestoreFile(p)
  PROVE  FilesAndLines'
<1>1. job[p].at = "restore" /\ UNCHANGED <<log, tail, blobs>>
  BY DEF RestoreFile
<1>2. PICK f \in job[p].todo :
        LET c == Closest(f, job[p].target).content IN
        /\ ws' = IF c \in blobs \cup {Absent} THEN [ws EXCEPT ![f] = c] ELSE ws
        /\ job' = [job EXCEPT ![p].todo = @ \ {f}]
  BY DEF RestoreFile
<1> DEFINE c == Closest(f, job[p].target).content
           todo == job[p].todo \ {f}
           j == [job[p] EXCEPT !.todo = todo]
<1>3. JobFits(p, job[p]) /\ job[p] \in Job /\ f \in Files /\ TypeOK /\ Events \in Seq(Line)
  BY Held, EventsFacts DEF JobFits, Job
<1>4. job' = [job EXCEPT ![p] = j] /\ ws' = IF c \in blobs \cup {Absent} THEN [ws EXCEPT ![f] = c] ELSE ws
  BY <1>2
<1> HIDE DEF c, todo
<1>5. j.at = "restore" /\ j.batch = job[p].batch /\ j.target = job[p].target
      /\ j.todo = todo /\ j.disturbed = job[p].disturbed
  BY <1>1, <1>3 DEF Job
<1> HIDE DEF j
<1>6. job'[p] = j /\ \A q \in Procs \ {p} : job'[q] = job[q]
  BY <1>4, Held
<1>7. Events' = Events
  BY <1>1 DEF Events, Parses
<1>8. \A q \in Procs \ {p} : /\ job[q].at \notin {"write", "meta", "restore"}
                             /\ job[q].at = "tool" => job[q].disturbed
  BY <1>1, Held DEF Locked, FilesAndLines, FilesFit
<1>9. ASSUME NEW q \in Procs
      PROVE  Guarded(q, job[q])'
  <2>1. CASE q = p
    <3>1. job'[q].at = "restore"
      BY <1>5, <1>6, <2>1
    <3> QED
      BY <3>1 DEF Guarded, Awaits
  <2>2. CASE q # p
    <3>1. job'[q] = job[q] /\ Guarded(q, job[q])
      BY <1>6, <2>2 DEF FilesAndLines, FilesFit
    <3> QED
      BY <1>8, <2>2, <3>1 DEF Guarded, Awaits
  <2> QED
    BY <2>1, <2>2
<1>10. ASSUME NEW q \in Procs, job'[q].at = "tool", ~job'[q].disturbed
       PROVE  FALSE
  <2>1. q # p
    BY <1>5, <1>6, <1>10
  <2> QED
    BY <1>6, <1>8, <1>10, <2>1
<1>11. ASSUME NEW q \in Procs, job'[q].at = "restore", ~job'[q].disturbed, NEW g \in Files \ job'[q].todo
       PROVE  Restored(job[q], g)'
  <2>1. q = p
    BY <1>6, <1>8, <1>11
  <2>2. job'[q].target = job[p].target
    BY <1>5, <1>6, <2>1
  <2> DEFINE A(h) == CheckpointsAfter(h, job[p].target)
  <2>3. ASSUME NEW i \in A(g), \A k \in A(g) : i <= k
        PROVE  ws'[g] = Events[i].content
    <3>1. CASE g = f
      <4>1. i \in 1..Len(Events) /\ IsCheckpoint(Events[i]) /\ \A k \in A(f) : k \in 1..Len(Events)
        BY <1>3, <2>3, <3>1 DEF CheckpointsAfter, IsCheckpoint
      <4>2. ASSUME NEW k \in A(f), \A y \in A(f) : k <= y
            PROVE  k = i
        <5>1. i <= k /\ k <= i /\ k \in Int /\ i \in Int
          BY <2>3, <3>1, <4>1, <4>2
        <5> QED
          BY <5>1
      <4>3. Min(A(f)) = i
        BY <2>3, <3>1, <4>2 DEF Min
      <4>4. c = Events[i].content
        BY <4>3 DEF c, Closest
      <4>5. c \in blobs \cup {Absent}
        BY <1>3, <4>1, <4>4, ReferencedFacts DEF Blobs
      <4> QED
        BY <1>3, <1>4, <3>1, <4>4, <4>5 DEF TypeOK
    <3>2. CASE g # f
      <4>1. ws'[g] = ws[g]
        BY <1>3, <1>4, <3>2 DEF TypeOK
      <4>2. g \in Files \ job[p].todo
        BY <1>5, <1>6, <1>11, <2>1, <3>2 DEF todo
      <4>3. Restored(job[p], g)
        BY <1>1, <1>5, <1>6, <1>11, <2>1, <4>2 DEF FilesAndLines, FilesFit
      <4> QED
        BY <2>3, <4>1, <4>3 DEF Restored
    <3> QED
      BY <3>1, <3>2
  <2>4. CheckpointsAfter(g, job[q].target)' = A(g)
    BY <1>7, <2>2 DEF CheckpointsAfter
  <2> HIDE DEF A
  <2> QED
    BY <1>7, <2>3, <2>4 DEF Restored
<1>12. FilesFit'
  BY <1>9, <1>10, <1>11 DEF FilesFit
<1>13. TrueBatch(j.batch)
  BY <1>5 DEF TrueBatch, FilesAndLines, LinesAreTrue
<1>14. LinesAreTrue'
  BY <1>1, <1>4, <1>13, LinesQuiet DEF FilesAndLines
<1> QED
  BY <1>12, <1>14 DEF FilesAndLines

\* A rewind that begins disturbs the tool calls of other processes.
LEMMA FilesApplies ==
  ASSUME SnapshotContract, Shape, FilesAndLines, NEW p \in Procs, ApplyRewind(p)
  PROVE  FilesAndLines'
<1>1. /\ UNCHANGED <<log, tail, ws>> /\ p \in Rewinders /\ lock = NoProc
  BY DEF ApplyRewind, Lock
<1>2. PICK target \in 0..Last(Events).seq :
         job' = [q \in Procs |->
                  IF q = p
                  THEN [Idle EXCEPT !.at = "restore", !.target = target,
                          !.todo = {f \in Files : CheckpointsAfter(f, target) # {}}]
                  ELSE [job[q] EXCEPT !.disturbed = job[q].at = "tool"]]
  BY DEF ApplyRewind
<1> DEFINE todo == {f \in Files : CheckpointsAfter(f, target) # {}}
<1>3. /\ job'[p].at = "restore" /\ job'[p].batch = <<>> /\ job'[p].target = target
      /\ job'[p].todo = todo
  <2>1. job'[p] = [Idle EXCEPT !.at = "restore", !.target = target, !.todo = todo]
    BY <1>2
  <2> HIDE DEF todo
  <2> QED
    BY <2>1, IdleFacts DEF Job
<1>4. ASSUME NEW q \in Procs \ {p}
      PROVE  /\ job'[q].at = job[q].at /\ job'[q].batch = job[q].batch
             /\ job'[q].disturbed <=> job[q].at = "tool"
  <2> DEFINE d == job[q].at = "tool"
  <2>1. job'[q] = [job[q] EXCEPT !.disturbed = d]
    BY <1>2
  <2>2. job[q] \in Job
    BY Held DEF JobFits
  <2>3. job'[q].at = job[q].at /\ job'[q].batch = job[q].batch /\ job'[q].disturbed = d
    <3> HIDE DEF d
    <3> QED
      BY <2>1, <2>2 DEF Job
  <2> QED
    BY <2>3
<1>5. Events' = Events
  BY <1>1 DEF Events, Parses
<1>6. \A q \in Procs : job[q].at \notin Locked
  BY <1>1, Held
<1>7. ASSUME NEW q \in Procs
      PROVE  Guarded(q, job[q])'
  <2>1. CASE q = p
    BY <1>3, <2>1 DEF Guarded, Awaits
  <2>2. CASE q # p
    <3>1. job'[q].at \notin {"write", "meta"}
      BY <1>4, <1>6, <2>2 DEF Locked
    <3>2. q \notin Batchers
      BY <1>1, <2>2 DEF SnapshotContract
    <3> QED
      BY <1>4, <2>2, <3>1, <3>2 DEF Guarded, Awaits
  <2> QED
    BY <2>1, <2>2
<1>8. ASSUME NEW q \in Procs, job'[q].at = "tool", ~job'[q].disturbed
      PROVE  FALSE
  BY <1>3, <1>4, <1>8
<1>9. ASSUME NEW q \in Procs, job'[q].at = "restore", NEW g \in Files \ job'[q].todo
      PROVE  Restored(job[q], g)'
  <2>1. q = p
    BY <1>4, <1>6, <1>9 DEF Locked
  <2>2. CheckpointsAfter(g, target) = {}
    BY <1>3, <1>9, <2>1
  <2>3. CheckpointsAfter(g, job[q].target)' = {}
    BY <1>3, <1>5, <2>1, <2>2 DEF CheckpointsAfter
  <2> QED
    BY <2>3 DEF Restored
<1>10. FilesFit'
  BY <1>7, <1>8, <1>9 DEF FilesFit
<1>11. \A q \in Procs : TrueBatch(job'[q].batch)
  <2>1. TrueBatch(job'[p].batch)
    BY <1>3, IdleFacts, IdleIsTrue
  <2>2. \A q \in Procs \ {p} : TrueBatch(job'[q].batch)
    BY <1>4 DEF TrueBatch, FilesAndLines, LinesAreTrue
  <2> QED
    BY <2>1, <2>2
<1>12. LinesAreTrue'
  BY <1>1, <1>11 DEF FilesAndLines, LinesAreTrue, TrueBatch, LineIsTrue, IsCheckpoint
<1> QED
  BY <1>10, <1>12 DEF FilesAndLines

\* An edit replaces what its checkpoint captured, unless a rewind overlaps it.
LEMMA FilesTools ==
  ASSUME Shape, FilesAndLines, NEW p \in Procs, Tool(p)
  PROVE  FilesAndLines'
<1> DEFINE ckpt == job[p].batch[1]
<1>1. ToolChanges(p) /\ job[p].at = "tool" /\ tail' = tail
  BY ToolFacts DEF Tool
<1>2. /\ JobFits(p, job[p]) /\ TypeOK /\ log \in Seq(Line) /\ job[p].batch \in Seq(Line)
      /\ Carries(job[p]) /\ ckpt \in Line /\ ckpt.file \in Files
  BY <1>1, Held DEF JobFits, Job, TypeOK, ToolChanges
<1>3. \A q \in Procs \ {p} : ~Carries(job[q]) /\ job[q].at # "tool"
  BY <1>2, Held DEF Shape, JobFits
<1>4. job'[p].at \in {"idle", "flush"}
  BY <1>1, IdleFacts DEF ToolChanges
<1>5. \A q \in Procs \ {p} : /\ job'[q].at = job[q].at /\ job'[q].batch = job[q].batch
                             /\ job'[q].disturbed <=> job[q].at = "restore"
  BY <1>1 DEF ToolChanges
<1>6. ASSUME NEW q \in Procs
      PROVE  Guarded(q, job[q])'
  <2>1. CASE q = p
    BY <1>4, <2>1 DEF Guarded, Awaits
  <2>2. CASE q # p
    <3>1. ~Carries(job'[q]) /\ job'[q].at # "tool" /\ (job'[q].disturbed <=> job'[q].at = "restore")
      BY <1>3, <1>5, <2>2 DEF Carries
    <3>2. ~Awaits(q, job'[q])
      BY <3>1 DEF Awaits
    <3> QED
      BY <3>1, <3>2 DEF Guarded, Awaits, Carries, IsCheckpoint
  <2> QED
    BY <2>1, <2>2
<1>7. ASSUME NEW q \in Procs, job'[q].at = "tool"
      PROVE  FALSE
  BY <1>3, <1>4, <1>5, <1>7
<1>8. ASSUME NEW q \in Procs, job'[q].at = "restore", ~job'[q].disturbed
      PROVE  FALSE
  BY <1>4, <1>5, <1>8
<1>9. FilesFit'
  BY <1>6, <1>7, <1>8 DEF FilesFit
<1>10. ~job[p].disturbed => ckpt.content = ws[ckpt.file]
  <2>1. Guarded(p, job[p])
    BY DEF FilesAndLines, FilesFit
  <2> QED
    BY <1>1, <1>2, <2>1 DEF Guarded, Awaits, Untouched
<1>11. ASSUME ~job[p].disturbed, NEW lines \in Seq(Line), TrueBatch(lines)
       PROVE  TrueBatch(Noted(lines, ckpt))
  <2> HIDE DEF ckpt
  <2>1. Alike(lines, Noted(lines, ckpt))
    BY <1>2, NotedFacts
  <2>2. ASSUME NEW i \in 1..Len(Noted(lines, ckpt))
        PROVE  LineIsTrue(Noted(lines, ckpt)[i])
    <3> DEFINE new == Noted(lines, ckpt)[i]
    <3>1. i \in 1..Len(lines) /\ SameLine(lines[i], new)
      BY <2>1 DEF Alike
    <3>2. new = lines[i] \/ (new.before = ws[ckpt.file] /\ lines[i] = ckpt)
      BY <1>2, <3>1, NotedFacts
    <3> HIDE DEF new
    <3>3. CASE new = lines[i]
      BY <1>11, <3>1, <3>3 DEF TrueBatch, new
    <3>4. CASE new.before = ws[ckpt.file] /\ lines[i] = ckpt
      BY <1>10, <1>11, <3>1, <3>4 DEF LineIsTrue, SameLine, new
    <3> QED
      BY <3>2, <3>3, <3>4
  <2> QED
    BY <2>2 DEF TrueBatch
<1>12. TrueBatch(log) /\ TrueBatch(job[p].batch)
  BY DEF TrueBatch, FilesAndLines, LinesAreTrue
<1>13. TrueBatch(log')
  BY <1>1, <1>2, <1>11, <1>12 DEF ToolChanges
<1>14. TrueBatch(job'[p].batch)
  <2>1. CASE job'[p] = Idle
    BY <2>1, IdleIsTrue
  <2>2. CASE job'[p] # Idle
    <3>1. p \in Batchers /\ job'[p].batch = Noted(job[p].batch, ckpt)
      BY <1>1, <2>2 DEF ToolChanges
    <3>2. ~job[p].disturbed
      BY <1>1, <3>1 DEF FilesAndLines, FilesFit, Guarded
    <3> QED
      BY <1>2, <1>11, <1>12, <3>1, <3>2
  <2> QED
    BY <2>1, <2>2
<1>15. \A q \in Procs : TrueBatch(job'[q].batch)
  BY <1>5, <1>14 DEF TrueBatch, FilesAndLines, LinesAreTrue
<1>16. LinesAreTrue'
  BY <1>1, <1>13, <1>15 DEF FilesAndLines, LinesAreTrue, TrueBatch, LineIsTrue, IsCheckpoint
<1> QED
  BY SMTT(60), <1>9, <1>16 DEF FilesAndLines

\* A new session has nothing to restore.
LEMMA FilesInit == Init => FilesAndLines
<1> SUFFICES ASSUME Init PROVE FilesAndLines
  OBVIOUS
<1>1. \A p \in Procs : job[p] = Idle
  BY DEF Init
<1>2. (\A i \in 1..Len(log) : FALSE) /\ (\A i \in 1..Len(tail) : FALSE)
  BY DEF Init
<1> QED
  BY <1>1, <1>2, IdleFacts, IdleIsTrue DEF FilesAndLines, FilesFit, LinesAreTrue, TrueBatch

\* Every step keeps the files.
LEMMA FilesNext ==
  ASSUME SnapshotContract, Shape, Numbers, Blobs, FilesAndLines, [Next]_vars
  PROVE  FilesAndLines'
<1>1. ASSUME UNCHANGED <<log, tail, ws, job>>
      PROVE  FilesAndLines'
  <2>1. Events' = Events
    BY <1>1 DEF Events, Parses
  <2> QED
    BY <1>1, <2>1 DEF FilesAndLines, FilesFit, LinesAreTrue, Guarded, Awaits, Carries, Untouched, IsCheckpoint,
       Restored, CheckpointsAfter, LineIsTrue
<1>2. ASSUME NEW p \in Procs,
             AppendEvents(p) \/ AppendEventUnlessExists(p) \/ Flush(p) \/ CaptureToolCheckpoint(p)
      PROVE  FilesAndLines'
  BY <1>2, FilesAppends
<1>3. ASSUME NEW p \in Procs, WriteLog(p) \/ BreakWrite(p) PROVE FilesAndLines'
  BY <1>3, FilesWrites
<1>4. ASSUME NEW p \in Procs,
             \/ WriteCount(p) \/ UpdateTitle(p) \/ WriteTitle(p) \/ TruncateCount(p) \/ Crash(p)
             \/ BreakSync(p)
      PROVE  FilesAndLines'
  BY <1>4, FilesRest
<1>5. ASSUME NEW p \in Procs, SnapshotForCheckpoint(p) PROVE FilesAndLines'
  BY <1>5, FilesSnapshots
<1>6. ASSUME NEW p \in Procs, Tool(p) PROVE FilesAndLines'
  BY <1>6, FilesTools
<1>7. ASSUME NEW p \in Procs, ApplyRewind(p) PROVE FilesAndLines'
  BY <1>7, FilesApplies
<1>8. ASSUME NEW p \in Procs, RestoreFile(p) PROVE FilesAndLines'
  BY <1>8, FilesRestores
<1>9. ASSUME NEW p \in Procs, TruncateLog(p) PROVE FilesAndLines'
  BY <1>9, FilesTruncates
<1>10. ASSUME NEW p \in Procs, PruneOrphanBlobs(p) PROVE FilesAndLines'
  BY <1>10, FilesPrunes
<1>11. ASSUME NEW p \in Procs, ForkRead(p) \/ ForkCopyBlobs(p) PROVE FilesAndLines'
  BY <1>1, <1>11 DEF ForkRead, ForkCopyBlobs
<1>12. CASE UNCHANGED vars
  BY <1>1, <1>12 DEF vars
<1> QED
  BY <1>2, <1>3, <1>4, <1>5, <1>6, <1>7, <1>8, <1>9, <1>10, <1>11, <1>12 DEF Next

\* What was restored is what the first edit replaced.
LEMMA FilesShow ==
  ASSUME Shape, FilesAndLines
  PROVE  RewindUndoesEdits
<1> SUFFICES ASSUME NEW p \in Procs, job[p].at = "restore", job[p].todo = {}, ~job[p].disturbed,
                    NEW f \in Files,
                    NEW i \in {k \in CheckpointsAfter(f, job[p].target) : Events[k].before # NoEdit},
                    \A k \in CheckpointsAfter(f, job[p].target) : i <= k
             PROVE  ws[f] = Events[Min({k \in CheckpointsAfter(f, job[p].target) :
                                           Events[k].before # NoEdit})].before
  BY DEF RewindUndoesEdits
<1> DEFINE later == CheckpointsAfter(f, job[p].target)
           edits == {k \in later : Events[k].before # NoEdit}
<1>1. Events \in Seq(Line)
  BY Held, EventsFacts
<1>2. \A k \in later : k \in 1..Len(Events) /\ IsCheckpoint(Events[k])
  BY <1>1 DEF CheckpointsAfter, IsCheckpoint
<1>3. ws[f] = Events[i].content
  <2>1. Restored(job[p], f)
    BY DEF FilesAndLines, FilesFit
  <2> QED
    BY <2>1 DEF Restored
<1>4. Events[i].before = Events[i].content
  <2>1. LineIsTrue(Events[i])
    BY <1>2, EventsAreTrue DEF FilesAndLines
  <2> QED
    BY <1>2, <2>1 DEF LineIsTrue
<1>5. Min(edits) = i
  <2>1. ASSUME NEW k \in edits, \A y \in edits : k <= y
        PROVE  k = i
    <3>1. i <= k /\ k <= i /\ k \in Int /\ i \in Int
      BY <1>2, <2>1
    <3> QED
      BY <3>1
  <2>2. i \in edits /\ \A y \in edits : i <= y
    OBVIOUS
  <2> HIDE DEF edits
  <2> QED
    BY <2>1, <2>2 DEF Min
<1> QED
  BY <1>3, <1>4, <1>5

\* A rewind gives each file the content that the first edit after the target replaced,
\* also after rewinds that were cut short (restoreCheckpoints, rewind.go), unless
\* a tool call of another process overlaps it.
THEOREM RewindsUndoEdits ==
  ASSUME SnapshotContract
  PROVE  Spec => []RewindUndoesEdits
<1>1. Init => Blobs /\ FilesAndLines
  BY BlobsInit, FilesInit
<1>2. Shape /\ Numbers /\ Blobs /\ FilesAndLines /\ [Next]_vars => Blobs' /\ FilesAndLines'
  BY BlobsNext, FilesNext
<1>3. Shape /\ FilesAndLines => RewindUndoesEdits
  BY FilesShow
<1> QED
  BY <1>1, <1>2, <1>3, NumbersInductive, PTL DEF Spec

=============================================================================
