----------------------------- MODULE TuiRunsProofs -----------------------------
(***************************************************************************)
(* Theorems about TuiRuns, for every number of runs and of sessions.       *)
(***************************************************************************)
EXTENDS TuiRuns, FiniteSetTheorems, SequenceTheorems, TLAPS

USE TuiRunsAssumption

-----------------------------------------------------------------------------
(* The invariant, as predicates of a model n and of the goroutines a.      *)

\* Where l has e.
Where(l, e) == {i \in 1..Len(l) : l[i] = e}

\* Runs and sessions that are still to come have left no trace, and the active
\* run has a session, no review and a context that is not cancelled.
ModelFits(n, a) ==
    /\ n \in Model
    /\ n.active <= n.runs /\ n.session <= n.made
    /\ n.active # None => n.session # None /\ ~n.review
    /\ n.active \notin n.contexts /\ n.contexts \subseteq 1..n.runs
    /\ \A f \in n.flush : f[1] <= n.runs /\ f[2] <= n.made
    /\ \A r \in Runs : r > n.runs => a[r] = "working"
    /\ \A s \in Sessions : /\ s > n.made => n.log[s] = <<>>
                           /\ \A i \in 1..Len(n.log[s]) : n.log[s][i][1] <= n.runs

\* RunsAreAnswered.
Answered(n, a) ==
    /\ \A r \in Runs : a[r] = "waiting" => r \in n.contexts \/ (r = n.active /\ n.modal # "none")
    /\ n.modal # "none" => n.active # None /\ a[n.active] = "waiting"

\* ContextIsTheLog.
Remembered(n) == n.late \/ n.context = (IF n.session = None THEN <<>> ELSE n.log[n.session])

\* A run that is not gone is active in its session or will be flushed to it, and
\* has its events still to come; its session alone has entries of it.
Reached(n, a, r) ==
    /\ n.home[r] \in Sessions
    /\ r = n.active => n.session = n.home[r] /\ ~n.exiting
    /\ \A f \in n.flush : f[1] = r => f[2] = n.home[r]
    /\ a[r] # "gone" => /\ r = n.active \/ <<r, n.home[r]>> \in n.flush
                        /\ Where(n.log[n.home[r]], <<r, "events">>) = {}
                        /\ ~n.quit
    /\ a[r] = "gone" /\ r \notin n.cut => \E i \in Nat : Where(n.log[n.home[r]], <<r, "events">>) = {i}
    /\ \A s \in Sessions \ {n.home[r]} : \A i \in 1..Len(n.log[s]) : n.log[s][i][1] # r

Reaches(n, a) == \A r \in 1..n.runs : r \notin n.disturbed => Reached(n, a, r)

Sound(n, a) == ModelFits(n, a) /\ Answered(n, a) /\ Remembered(n) /\ Reaches(n, a)

\* LoopsAreNotStranded.
Loops(n) ==
    /\ n.loop \in {"running", "dud"} => n.activeLoop = "this"
    /\ n.loop = "running" => n.active # None

\* A compaction is about a session that exists.
CompactionFits ==
    /\ compaction.at \in {"none", "working", "read"}
    /\ compaction.at # "none" => /\ compaction.session \in 1..m.made
                                 /\ compaction.events \in Seq(Entries)

IInv ==
    /\ at \in [Runs -> {"working", "asking", "waiting", "done", "gone"}]
    /\ Sound(m, at) /\ Loops(m) /\ CompactionFits

-----------------------------------------------------------------------------
(* The functions of the model.                                             *)

\* All fields but the log and the events in memory.
Kept(n, o) ==
    /\ o.provider = n.provider /\ o.runs = n.runs /\ o.active = n.active /\ o.contexts = n.contexts
    /\ o.flush = n.flush /\ o.drafts = n.drafts /\ o.session = n.session /\ o.made = n.made
    /\ o.modal = n.modal /\ o.review = n.review /\ o.queued = n.queued
    /\ o.compacting = n.compacting /\ o.loop = n.loop /\ o.activeLoop = n.activeLoop
    /\ o.exiting = n.exiting /\ o.quit = n.quit /\ o.home = n.home
    /\ o.disturbed = n.disturbed /\ o.cut = n.cut /\ o.late = n.late

\* An entry more in a log, and in memory when it is that of the active session.
LEMMA RecordedFields ==
  ASSUME NEW n \in Model, NEW s \in Sessions, NEW e \in Entries
  PROVE  /\ Recorded(n, s, e) \in Model
         /\ Kept(n, Recorded(n, s, e))
         /\ Recorded(n, s, e).log = [n.log EXCEPT ![s] = Append(@, e)]
         /\ Recorded(n, s, e).context = IF s = n.session THEN Append(n.context, e) ELSE n.context
BY ZenonT(60), AppendProperties DEF Recorded, Model, Kept

\* One run more, which is the active one.
LEMMA BeginFields ==
  ASSUME NEW n \in Model, n.runs < MaxRuns
  PROVE  LET o == Begin(n) IN
         /\ o \in Model
         /\ o.runs = n.runs + 1 /\ o.active = n.runs + 1
         /\ o.home = [n.home EXCEPT ![n.runs + 1] = n.session]
         /\ o.disturbed = n.disturbed \cup ({n.active} \ {None}) \cup (IF n.exiting THEN {n.runs + 1} ELSE {})
         /\ o.log = n.log /\ o.context = n.context
         /\ o.provider = n.provider /\ o.contexts = n.contexts
         /\ o.flush = n.flush /\ o.drafts = n.drafts /\ o.session = n.session /\ o.made = n.made
         /\ o.modal = n.modal /\ o.review = n.review /\ o.queued = n.queued
         /\ o.compacting = n.compacting /\ o.loop = n.loop /\ o.activeLoop = n.activeLoop
         /\ o.exiting = n.exiting /\ o.quit = n.quit
         /\ o.cut = n.cut /\ o.late = n.late
<1> DEFINE d == n.disturbed \cup ({n.active} \ {None}) \cup (IF n.exiting THEN {n.runs + 1} ELSE {})
           k == n.runs + 1
           h == [n.home EXCEPT ![k] = n.session]
<1>1. k \in Runs /\ k \in 0..MaxRuns
  BY DEF Model, Runs, TuiRunsAssumption
<1>2. d \in SUBSET Runs
  BY <1>1 DEF Model, Runs
<1>3. h \in [Runs -> Sessions \cup {None}]
  BY DEF Model
<1>4. Begin(n) = [n EXCEPT !.runs = k, !.active = k, !.home = h, !.disturbed = d]
  BY DEF Begin, Model
<1> HIDE DEF d, h, k
<1>5. LET o == Begin(n) IN
      /\ o \in Model
      /\ o.runs = k /\ o.active = k /\ o.home = h /\ o.disturbed = d
      /\ o.log = n.log /\ o.context = n.context
      /\ o.provider = n.provider /\ o.contexts = n.contexts
      /\ o.flush = n.flush /\ o.drafts = n.drafts /\ o.session = n.session /\ o.made = n.made
      /\ o.modal = n.modal /\ o.review = n.review /\ o.queued = n.queued
      /\ o.compacting = n.compacting /\ o.loop = n.loop /\ o.activeLoop = n.activeLoop
      /\ o.exiting = n.exiting /\ o.quit = n.quit
      /\ o.cut = n.cut /\ o.late = n.late
  BY ZenonT(60), <1>1, <1>2, <1>3, <1>4 DEF Model
<1> QED
  BY <1>5 DEF d, h, k

\* What an entry more in a log is: nothing but that.
Entered(n, s, e, o) ==
    /\ \A t \in Sessions : \A i \in 1..Len(o.log[t]) :
          \/ t = s /\ o.log[t][i] = e
          \/ i \in 1..Len(n.log[t]) /\ o.log[t][i] = n.log[t][i]
    /\ \A t \in Sessions \ {s} : o.log[t] = n.log[t]
    /\ \A x : x # e => Where(o.log[s], x) = Where(n.log[s], x)
    /\ Where(o.log[s], e) = Where(n.log[s], e) \cup {Len(n.log[s]) + 1}
    /\ Len(n.log[s]) + 1 \in Nat
    /\ Remembered(n) => Remembered(o)

LEMMA EnteredFacts ==
  ASSUME NEW n \in Model, NEW s \in Sessions, NEW e \in Entries
  PROVE  Entered(n, s, e, Recorded(n, s, e))
<1> DEFINE o == Recorded(n, s, e)
           l == n.log[s]
<1>1. /\ o.log = [n.log EXCEPT ![s] = Append(@, e)]
      /\ o.context = IF s = n.session THEN Append(n.context, e) ELSE n.context
      /\ o.session = n.session /\ o.late = n.late
  BY RecordedFields DEF Kept
<1>2. /\ n.log \in [Sessions -> Seq(Entries)] /\ l \in Seq(Entries)
      /\ n.session \in Sessions \cup {None}
  BY DEF Model
<1>3. o.log[s] = Append(l, e) /\ \A t \in Sessions \ {s} : o.log[t] = n.log[t]
  BY <1>1, <1>2
<1> HIDE DEF o
<1>4. /\ Len(Append(l, e)) = Len(l) + 1 /\ Len(l) \in Nat
      /\ \A i \in 1..Len(l) : Append(l, e)[i] = l[i]
      /\ Append(l, e)[Len(l) + 1] = e
  BY <1>2, AppendProperties
<1>5. \A t \in Sessions : \A i \in 1..Len(o.log[t]) :
               \/ t = s /\ o.log[t][i] = e
               \/ i \in 1..Len(n.log[t]) /\ o.log[t][i] = n.log[t][i]
  <2> SUFFICES ASSUME NEW t \in Sessions, NEW i \in 1..Len(o.log[t])
               PROVE  \/ t = s /\ o.log[t][i] = e
                      \/ i \in 1..Len(n.log[t]) /\ o.log[t][i] = n.log[t][i]
    OBVIOUS
  <2>1. CASE t # s
    BY <1>3, <2>1
  <2>2. CASE t = s /\ i \in 1..Len(l)
    BY <1>3, <1>4, <2>2
  <2>3. CASE t = s /\ i \notin 1..Len(l)
    <3>1. i = Len(l) + 1
      BY <1>3, <1>4, <2>3
    <3> QED
      BY <1>3, <1>4, <2>3, <3>1
  <2> QED
    BY <2>1, <2>2, <2>3
<1>6. \A x : x # e => Where(o.log[s], x) = Where(n.log[s], x)
  <2> SUFFICES ASSUME NEW x, x # e PROVE Where(Append(l, e), x) = Where(l, x)
    BY <1>3
  <2>1. \A i : i \in 1..(Len(l) + 1) /\ i # Len(l) + 1 => i \in 1..Len(l)
    BY <1>4
  <2>2. \A i : i \in 1..Len(l) => i \in 1..(Len(l) + 1)
    BY <1>4
  <2> HIDE DEF l
  <2> QED
    BY <1>4, <2>1, <2>2 DEF Where
<1>7. Where(o.log[s], e) = Where(n.log[s], e) \cup {Len(n.log[s]) + 1}
  <2>1. \A i : i \in 1..(Len(l) + 1) <=> i \in 1..Len(l) \/ i = Len(l) + 1
    BY <1>4
  <2> HIDE DEF l
  <2>2. Where(Append(l, e), e) = Where(l, e) \cup {Len(l) + 1}
    BY <1>4, <2>1 DEF Where
  <2> QED
    BY <1>3, <2>2 DEF l
<1>8. Remembered(n) => Remembered(o)
  <2>0. None \notin Sessions
    BY DEF None, Sessions
  <2>1. CASE s = n.session
    BY <1>1, <1>2, <1>3, <2>0, <2>1 DEF Remembered
  <2>2. CASE s # n.session
    BY <1>1, <1>2, <1>3, <2>2 DEF Remembered
  <2> QED
    BY <2>1, <2>2
<1> QED
  BY <1>3, <1>4, <1>5, <1>6, <1>7, <1>8 DEF o, Entered

\* What is said of a model rests on these of its fields, and on those of a dialog.
Alike(n, o) ==
    /\ o \in Model
    /\ o.runs = n.runs /\ o.active = n.active /\ o.contexts = n.contexts /\ o.flush = n.flush
    /\ o.session = n.session /\ o.context = n.context /\ o.log = n.log /\ o.made = n.made
    /\ o.review => n.review
    /\ o.exiting = n.exiting /\ o.quit = n.quit
    /\ o.home = n.home /\ o.disturbed = n.disturbed /\ o.cut = n.cut /\ o.late = n.late

LEMMA SoundFrame ==
  ASSUME NEW n, NEW o, NEW a, Sound(n, a), Alike(n, o)
  PROVE  /\ ModelFits(o, a) /\ Remembered(o) /\ Reaches(o, a)
         /\ o.modal = n.modal => Sound(o, a)
<1> USE DEF Alike
<1>1. ModelFits(o, a)
  BY DEF Sound, ModelFits
<1>2. o.modal = n.modal => Answered(o, a)
  BY DEF Sound, Answered
<1>3. Remembered(o)
  BY DEF Sound, Remembered
<1>4. Reaches(o, a)
  <2> SUFFICES ASSUME NEW r \in 1..n.runs, r \notin n.disturbed
               PROVE  Reached(o, a, r)
    BY DEF Reaches
  <2>1. Reached(n, a, r)
    BY DEF Sound, Reaches
  <2> QED
    BY <2>1 DEF Reached
<1> QED
  BY <1>1, <1>2, <1>3, <1>4 DEF Sound

\* A run that begins with its prompt.
BeginRun(n) == Begin(Recorded(n, n.session, <<n.runs + 1, "prompt">>))

LEMMA BeginRunSound ==
  ASSUME NEW n, NEW a, Sound(n, a),
         n.runs < MaxRuns, n.session # None, n.modal = "none", ~n.review, ~n.quit
  PROVE  LET o == BeginRun(n) IN
         /\ Sound(o, a)
         /\ o.active # None /\ o.made = n.made
         /\ o.loop = n.loop /\ o.activeLoop = n.activeLoop
<1> DEFINE k == n.runs + 1
           e == <<k, "prompt">>
           p == Recorded(n, n.session, e)
           o == Begin(p)
<1>0. n \in Model /\ ModelFits(n, a) /\ Answered(n, a) /\ Remembered(n) /\ Reaches(n, a)
  BY DEF Sound, ModelFits
<1>1. /\ n.runs \in Nat /\ k \in Runs /\ k # None /\ n.session \in Sessions
      /\ e \in Entries /\ n.active \in Nat /\ n.made \in Nat /\ n.log \in [Sessions -> Seq(Entries)]
      /\ n.home \in [Runs -> Sessions \cup {None}] /\ n.active \in Runs \cup {None}
      /\ None \notin Sessions
  BY SMTT(60), <1>0 DEF Model, Runs, Entries, TuiRunsAssumption, None, Sessions
<1>2. /\ p \in Model /\ p.runs = n.runs /\ p.active = n.active /\ p.contexts = n.contexts
      /\ p.flush = n.flush /\ p.session = n.session /\ p.made = n.made
      /\ p.modal = n.modal /\ p.review = n.review /\ p.loop = n.loop /\ p.activeLoop = n.activeLoop
      /\ p.exiting = n.exiting /\ p.quit = n.quit /\ p.home = n.home
      /\ p.disturbed = n.disturbed /\ p.cut = n.cut /\ p.late = n.late
  <2>1. n \in Model /\ n.session \in Sessions /\ e \in Entries
    BY <1>0, <1>1
  <2> HIDE DEF e
  <2>2. p \in Model /\ Kept(n, p)
    BY <2>1, RecordedFields
  <2> QED
    BY <2>2 DEF Kept
<1>3. /\ \A t \in Sessions : \A i \in 1..Len(p.log[t]) :
            \/ t = n.session /\ p.log[t][i] = e
            \/ i \in 1..Len(n.log[t]) /\ p.log[t][i] = n.log[t][i]
      /\ \A t \in Sessions \ {n.session} : p.log[t] = n.log[t]
      /\ \A x : x # e => Where(p.log[n.session], x) = Where(n.log[n.session], x)
      /\ Remembered(p)
  <2>1. Entered(n, n.session, e, p)
    BY <1>0, <1>1, EnteredFacts
  <2> QED
    BY <1>0, <2>1 DEF Entered
<1> HIDE DEF p
<1>4. /\ o \in Model
      /\ o.runs = k /\ o.active = k
      /\ o.home = [n.home EXCEPT ![k] = n.session]
      /\ o.disturbed = n.disturbed \cup ({n.active} \ {None}) \cup (IF n.exiting THEN {k} ELSE {})
      /\ o.log = p.log /\ o.context = p.context /\ o.contexts = n.contexts
      /\ o.flush = n.flush /\ o.session = n.session /\ o.made = n.made
      /\ o.modal = n.modal /\ o.review = n.review /\ o.loop = n.loop /\ o.activeLoop = n.activeLoop
      /\ o.exiting = n.exiting /\ o.quit = n.quit /\ o.cut = n.cut /\ o.late = n.late
  <2>1. p.runs < MaxRuns
    BY <1>2
  <2>2. /\ o \in Model
        /\ o.runs = p.runs + 1 /\ o.active = p.runs + 1
        /\ o.home = [p.home EXCEPT ![p.runs + 1] = p.session]
        /\ o.disturbed = p.disturbed \cup ({p.active} \ {None}) \cup (IF p.exiting THEN {p.runs + 1} ELSE {})
        /\ o.log = p.log /\ o.context = p.context /\ o.contexts = p.contexts
        /\ o.flush = p.flush /\ o.session = p.session /\ o.made = p.made
        /\ o.modal = p.modal /\ o.review = p.review /\ o.loop = p.loop /\ o.activeLoop = p.activeLoop
        /\ o.exiting = p.exiting /\ o.quit = p.quit /\ o.cut = p.cut /\ o.late = p.late
    BY <1>2, <2>1, BeginFields
  <2> HIDE DEF o
  <2> QED
    BY <1>2, <2>2
<1> HIDE DEF o
<1>5. ModelFits(o, a)
  <2>1. \A s \in Sessions : /\ s > n.made => o.log[s] = <<>>
                            /\ \A i \in 1..Len(o.log[s]) : o.log[s][i][1] <= k
    <3> SUFFICES ASSUME NEW s \in Sessions
                 PROVE  /\ s > n.made => o.log[s] = <<>>
                        /\ \A i \in 1..Len(o.log[s]) : o.log[s][i][1] <= k
      OBVIOUS
    <3>1. s > n.made => o.log[s] = <<>>
      <4>1. HAVE s > n.made
      <4>2. s # n.session
        BY <1>0, <1>1, <4>1 DEF ModelFits, Sessions
      <4>3. o.log[s] = n.log[s]
        BY <1>3, <1>4, <4>2
      <4> QED
        BY <1>0, <4>1, <4>3 DEF ModelFits
    <3>2. ASSUME NEW i \in 1..Len(o.log[s]) PROVE o.log[s][i][1] <= k
      <4>1. CASE o.log[s][i] = e
        BY <1>1, <4>1
      <4>2. CASE i \in 1..Len(n.log[s]) /\ o.log[s][i] = n.log[s][i]
        <5>1. n.log[s][i] \in Entries /\ n.log[s][i][1] <= n.runs
          BY <1>0, <1>1, <4>2, ElementOfSeq DEF ModelFits
        <5> QED
          BY SMTT(60), <1>1, <4>2, <5>1 DEF Entries, Runs
      <4> QED
        BY <1>3, <1>4, <4>1, <4>2
    <3> QED
      BY <3>1, <3>2
  <2>2. \A f \in n.flush : f[1] <= k /\ f[2] <= n.made
    <3>1. n.flush \subseteq Runs \X Sessions
      BY <1>0 DEF Model
    <3> QED
      BY <1>0, <1>1, <3>1 DEF ModelFits, Runs
  <2>3. \A r \in Runs : r > k => a[r] = "working"
    BY <1>0, <1>1 DEF ModelFits, Runs
  <2>4. k \notin n.contexts /\ n.contexts \subseteq 1..k
    BY <1>0, <1>1 DEF ModelFits
  <2> QED
    BY <1>0, <1>1, <1>4, <2>1, <2>2, <2>3, <2>4 DEF ModelFits
<1>6. Answered(o, a)
  BY <1>0, <1>4 DEF Answered
<1>7. Remembered(o)
  BY <1>2, <1>3, <1>4 DEF Remembered
<1>8. Reaches(o, a)
  <2> SUFFICES ASSUME NEW r \in 1..k, r \notin o.disturbed
               PROVE  Reached(o, a, r)
    BY <1>4 DEF Reaches
  <2>0. <<r, "events">> # e
    OBVIOUS
  <2>1. \A t \in Sessions : Where(o.log[t], <<r, "events">>) = Where(n.log[t], <<r, "events">>)
    BY SMTT(60), <1>1, <1>3, <1>4, <2>0
  <2>2. CASE r = k
    <3>1. o.home[r] = n.session /\ ~n.exiting
      BY <1>1, <1>4, <2>2
    <3>2. \A f \in n.flush : f[1] # k
      BY <1>0, <1>1 DEF ModelFits
    <3>3. a[k] = "working"
      BY <1>0, <1>1 DEF ModelFits
    <3>4. \A s \in Sessions : \A i \in 1..Len(n.log[s]) : n.log[s][i][1] # k
      BY <1>0, <1>1 DEF ModelFits
    <3>5. Where(o.log[o.home[r]], <<r, "events">>) = {}
      <4> DEFINE h == o.home[r]
      <4>1. h \in Sessions
        BY <1>1, <3>1
      <4>2. ASSUME NEW i \in 1..Len(n.log[h])
            PROVE  n.log[h][i] # <<r, "events">>
        BY <2>2, <3>4, <4>1
      <4>3. Where(n.log[h], <<r, "events">>) = {}
        BY <4>2 DEF Where
      <4> QED
        BY <2>1, <4>1, <4>3
    <3>6. ASSUME NEW s \in Sessions \ {o.home[r]}, NEW i \in 1..Len(o.log[s])
          PROVE  o.log[s][i][1] # r
      <4>1. o.log[s] = n.log[s]
        BY <1>3, <1>4, <3>1
      <4> QED
        BY <2>2, <3>4, <4>1
    <3> QED
      BY <1>1, <1>4, <2>2, <3>1, <3>2, <3>3, <3>5, <3>6 DEF Reached
  <2>3. CASE r # k
    <3>1. r \in 1..n.runs /\ r \notin n.disturbed /\ r # n.active
      <4>1. r # None
        BY DEF None
      <4> QED
        BY <1>1, <1>4, <2>3, <4>1
    <3>2. Reached(n, a, r)
      BY <1>0, <3>1 DEF Reaches
    <3>3. o.home[r] = n.home[r]
      BY <1>1, <1>4, <2>3
    <3>4. \A s \in Sessions \ {o.home[r]} : \A i \in 1..Len(o.log[s]) : o.log[s][i][1] # r
      <4>1. e[1] # r
        BY <2>3
      <4> QED
        BY SMTT(60), <1>3, <1>4, <3>2, <3>3, <4>1 DEF Reached
    <3> HIDE DEF k
    <3> QED
      BY <1>4, <2>1, <2>3, <3>1, <3>2, <3>3, <3>4 DEF Reached
  <2> QED
    BY <2>2, <2>3
<1> QED
  BY <1>1, <1>4, <1>5, <1>6, <1>7, <1>8 DEF Sound, BeginRun, o, p

\* A session that a command creates has an empty log.
LEMMA InNewSessionSound ==
  ASSUME NEW n, NEW a, Sound(n, a), n.made < MaxSessions, n.active = None
  PROVE  LET o == InNewSession(n) IN
         /\ Sound(o, a)
         /\ o.session # None /\ o.made = n.made + 1 /\ o.active = None /\ o.runs = n.runs
         /\ o.provider = n.provider /\ o.loop = n.loop /\ o.activeLoop = n.activeLoop
         /\ o.modal = n.modal /\ o.review = n.review /\ o.quit = n.quit
<1> DEFINE s == n.made + 1
           o == InNewSession(n)
<1>0. n \in Model /\ ModelFits(n, a) /\ Answered(n, a) /\ Remembered(n) /\ Reaches(n, a)
  BY DEF Sound, ModelFits
<1>1. /\ s \in Sessions /\ s # None /\ n.made \in Nat /\ s \in 0..MaxSessions
      /\ n.flush \subseteq Runs \X Sessions /\ n.session \in Nat
  BY SMTT(60), <1>0 DEF Model, Sessions, None, TuiRunsAssumption
<1>2. o = [n EXCEPT !.session = s, !.made = s, !.context = <<>>, !.late = FALSE]
  BY <1>0 DEF InNewSession, Model
<1> HIDE DEF s, o
<1>3. /\ o \in Model
      /\ o.session = s /\ o.made = s /\ o.context = <<>> /\ o.late = FALSE
      /\ o.provider = n.provider /\ o.runs = n.runs /\ o.active = n.active /\ o.contexts = n.contexts
      /\ o.flush = n.flush /\ o.log = n.log
      /\ o.modal = n.modal /\ o.review = n.review /\ o.loop = n.loop /\ o.activeLoop = n.activeLoop
      /\ o.exiting = n.exiting /\ o.quit = n.quit /\ o.home = n.home
      /\ o.disturbed = n.disturbed /\ o.cut = n.cut
  BY ZenonT(60), <1>0, <1>1, <1>2, EmptySeq DEF Model
<1>4. ModelFits(o, a)
  <2>1. n.session <= s /\ s <= s /\ \A t \in Sessions : t > s => t > n.made
    BY <1>0, <1>1 DEF ModelFits, s, Sessions
  <2>2. \A f \in n.flush : f[2] <= s
    BY <1>0, <1>1 DEF ModelFits, s, Sessions
  <2> QED
    BY <1>0, <1>1, <1>3, <2>1, <2>2 DEF ModelFits, None
<1>5. Answered(o, a)
  BY <1>0, <1>3 DEF Answered
<1>6. Remembered(o)
  <2>1. n.log[s] = <<>>
    BY <1>0, <1>1 DEF ModelFits, s
  <2> QED
    BY <1>1, <1>3, <2>1 DEF Remembered
<1>7. Reaches(o, a)
  <2> SUFFICES ASSUME NEW r \in 1..n.runs, r \notin n.disturbed
               PROVE  Reached(o, a, r)
    BY <1>3 DEF Reaches
  <2>1. Reached(n, a, r) /\ r # n.active
    BY <1>0 DEF Reaches, None
  <2> QED
    BY <1>3, <2>1 DEF Reached
<1> QED
  BY <1>1, <1>3, <1>4, <1>5, <1>6, <1>7 DEF Sound, o, s

\* A prompt, while nothing is asked or reviewed.
LEMMA LaunchPromptSound ==
  ASSUME NEW n, NEW a, Sound(n, a),
         CanLaunch(n), n.modal = "none", ~n.review, ~n.quit
  PROVE  LET o == LaunchPrompt(n) IN
         /\ Sound(o, a)
         /\ o.made >= n.made
         /\ o.loop = n.loop /\ o.activeLoop = n.activeLoop
         /\ IF n.provider THEN o.active # None ELSE o = n
<1>0. n.made \in Nat /\ n.made <= n.made /\ n.made <= n.made + 1
  BY DEF Sound, ModelFits, Model
<1>1. CASE ~n.provider
  BY <1>0, <1>1 DEF LaunchPrompt
<1>2. CASE n.provider /\ n.session # None
  <2>1. LaunchPrompt(n) = BeginRun(n)
    BY <1>2 DEF LaunchPrompt, BeginRun
  <2>2. n.runs < MaxRuns
    BY DEF CanLaunch, HasRoom
  <2> QED
    BY <1>0, <1>2, <2>1, <2>2, BeginRunSound
<1>3. CASE n.provider /\ n.session = None
  <2> DEFINE p == InNewSession(n)
  <2>1. n.active = None /\ n.made < MaxSessions /\ n.runs < MaxRuns
    BY <1>0, <1>3 DEF CanLaunch, HasRoom, Sound, ModelFits, TuiRunsAssumption
  <2>2. /\ Sound(p, a) /\ p.session # None /\ p.made = n.made + 1 /\ p.runs = n.runs
        /\ p.loop = n.loop /\ p.activeLoop = n.activeLoop
        /\ p.modal = n.modal /\ p.review = n.review /\ p.quit = n.quit
    BY <2>1, InNewSessionSound
  <2>3. LaunchPrompt(n) = BeginRun(p)
    BY <1>3, <2>2 DEF LaunchPrompt, BeginRun
  <2> HIDE DEF p
  <2>4. LET o == BeginRun(p) IN
        /\ Sound(o, a)
        /\ o.active # None /\ o.made = p.made
        /\ o.loop = p.loop /\ o.activeLoop = p.activeLoop
    BY <2>1, <2>2, BeginRunSound
  <2> QED
    BY <1>0, <1>3, <2>2, <2>3, <2>4
<1> QED
  BY <1>1, <1>2, <1>3

LEMMA LaunchQueuedSound ==
  ASSUME NEW n, NEW a, Sound(n, a), ~n.quit
  PROVE  LET o == LaunchQueued(n) IN
         /\ Sound(o, a)
         /\ o.made >= n.made
         /\ Loops(n) => Loops(o)
<1> DEFINE p == [n EXCEPT !.queued = FALSE]
<1>0. n.made \in Nat /\ n.made <= n.made /\ n \in Model
  BY DEF Sound, ModelFits, Model
<1>1. CASE n.queued /\ n.active = None /\ ~n.exiting /\ n.modal = "none" /\ ~n.review /\ CanLaunch(n)
  <2>1. /\ p \in Model /\ p.provider = n.provider
        /\ p.runs = n.runs /\ p.active = n.active /\ p.contexts = n.contexts /\ p.flush = n.flush
        /\ p.session = n.session /\ p.context = n.context /\ p.log = n.log /\ p.made = n.made
        /\ p.modal = n.modal /\ p.review = n.review /\ p.exiting = n.exiting /\ p.quit = n.quit
        /\ p.home = n.home /\ p.disturbed = n.disturbed /\ p.cut = n.cut /\ p.late = n.late
        /\ p.loop = n.loop /\ p.activeLoop = n.activeLoop
    BY ZenonT(60), <1>0 DEF Model
  <2>2. LaunchQueued(n) = LaunchPrompt(p)
    BY <1>1 DEF LaunchQueued
  <2> HIDE DEF p
  <2>3. Sound(p, a)
    BY <2>1, SoundFrame DEF Alike
  <2>4. CanLaunch(p)
    BY <1>1, <2>1 DEF CanLaunch, HasRoom
  <2>5. LET o == LaunchPrompt(p) IN
        /\ Sound(o, a)
        /\ o.made >= p.made
        /\ o.loop = p.loop /\ o.activeLoop = p.activeLoop
        /\ IF p.provider THEN o.active # None ELSE o = p
    BY <1>1, <2>1, <2>3, <2>4, LaunchPromptSound
  <2> QED
    BY <1>1, <2>1, <2>2, <2>5 DEF Loops
<1>2. CASE ~(n.queued /\ n.active = None /\ ~n.exiting /\ n.modal = "none" /\ ~n.review /\ CanLaunch(n))
  <2>1. LaunchQueued(n) = n
    BY <1>2 DEF LaunchQueued
  <2> QED
    BY <1>0, <2>1
<1> QED
  BY <1>1, <1>2

\* An entry of a known run in a known session.
LEMMA RecordedFits ==
  ASSUME NEW n, NEW a, Sound(n, a), NEW s \in 1..n.made, NEW r \in 1..n.runs,
         NEW kind \in {"prompt", "events", "cancelled"}
  PROVE  LET o == Recorded(n, s, <<r, kind>>) IN
         /\ ModelFits(o, a)
         /\ s \in Sessions /\ r \in Runs /\ <<r, kind>> \in Entries
<1> DEFINE e == <<r, kind>>
           o == Recorded(n, s, e)
<1>0. n \in Model /\ ModelFits(n, a)
  BY DEF Sound, ModelFits
<1>1. /\ s \in Sessions /\ r \in Runs /\ e \in Entries /\ e[1] <= n.runs
      /\ s <= n.made /\ n.made \in Nat
  <2>1. n.made \in 0..MaxSessions /\ n.runs \in 0..MaxRuns
    BY <1>0 DEF Model
  <2>2. s \in Sessions /\ r \in Runs /\ r <= n.runs /\ s <= n.made /\ n.made \in Nat
    BY <2>1, TuiRunsAssumption DEF Runs, Sessions
  <2> QED
    BY <2>2 DEF Entries
<1> HIDE DEF e
<1>2. /\ o \in Model
      /\ o.runs = n.runs /\ o.active = n.active /\ o.session = n.session /\ o.made = n.made
      /\ o.review = n.review /\ o.flush = n.flush /\ o.contexts = n.contexts
  <2>1. n \in Model /\ s \in Sessions /\ e \in Entries
    BY <1>0, <1>1
  <2>2. o \in Model /\ Kept(n, o)
    BY <2>1, RecordedFields
  <2> QED
    BY <2>2 DEF Kept
<1>3. /\ \A t \in Sessions : \A i \in 1..Len(o.log[t]) :
            \/ t = s /\ o.log[t][i] = e
            \/ i \in 1..Len(n.log[t]) /\ o.log[t][i] = n.log[t][i]
      /\ \A t \in Sessions \ {s} : o.log[t] = n.log[t]
  <2>1. Entered(n, s, e, o)
    BY <1>0, <1>1, EnteredFacts
  <2> QED
    BY <2>1 DEF Entered
<1> HIDE DEF o
<1>4. \A t \in Sessions : t > n.made => o.log[t] = <<>>
  <2> SUFFICES ASSUME NEW t \in Sessions, t > n.made PROVE o.log[t] = <<>>
    OBVIOUS
  <2>1. t # s
    BY <1>1 DEF Sessions
  <2> QED
    BY <1>0, <1>3, <2>1 DEF ModelFits
<1>5. \A t \in Sessions : \A i \in 1..Len(o.log[t]) : o.log[t][i][1] <= n.runs
  BY ZenonT(60), <1>0, <1>1, <1>3 DEF ModelFits
<1>6. ModelFits(o, a)
  BY <1>0, <1>2, <1>4, <1>5 DEF ModelFits
<1> QED
  BY <1>1, <1>6 DEF o, e

LEMMA CancelRunSound ==
  ASSUME NEW n, NEW a, Sound(n, a), ~n.quit
  PROVE  LET o == CancelRun(n) IN
         /\ Sound(o, a)
         /\ o.made = n.made /\ o.active = None /\ ~o.quit /\ o.modal = "none"
         /\ Loops(n) => Loops(o)
<1> DEFINE lp == IF n.activeLoop = "this" THEN "waiting" ELSE n.loop
           p == [n EXCEPT !.loop = lp, !.activeLoop = "none"]
<1>0. n \in Model /\ ModelFits(n, a) /\ Answered(n, a) /\ Remembered(n) /\ Reaches(n, a)
  BY DEF Sound, ModelFits
<1>1. /\ lp \in {"none", "waiting", "running", "dud"}
      /\ Loops(n) => lp \notin {"running", "dud"}
  BY <1>0 DEF Model, Loops
<1>2. CancelRun(n) = IF n.active = None THEN p
                     ELSE [Recorded(p, n.session, <<n.active, "cancelled">>) EXCEPT
                             !.contexts = @ \cup {n.active},
                             !.flush = @ \cup {<<n.active, n.session>>},
                             !.active = None,
                             !.modal = "none"]
  BY <1>0 DEF CancelRun, Model
<1> HIDE DEF lp
<1>3. /\ p \in Model
      /\ p.runs = n.runs /\ p.active = n.active /\ p.contexts = n.contexts /\ p.flush = n.flush
      /\ p.session = n.session /\ p.context = n.context /\ p.log = n.log /\ p.made = n.made
      /\ p.modal = n.modal /\ p.review = n.review /\ p.exiting = n.exiting /\ p.quit = n.quit
      /\ p.home = n.home /\ p.disturbed = n.disturbed /\ p.cut = n.cut /\ p.late = n.late
      /\ p.loop = lp /\ p.activeLoop = "none"
  BY ZenonT(60), <1>0, <1>1 DEF Model
<1> HIDE DEF p
<1>4. Sound(p, a)
  BY <1>3, SoundFrame DEF Alike
<1>5. CASE n.active = None
  <2>1. n.modal = "none"
    BY <1>0, <1>5 DEF Answered
  <2> QED
    BY <1>1, <1>2, <1>3, <1>4, <1>5, <2>1 DEF Loops
<1>6. CASE n.active # None
  <2> DEFINE q == n.active
             s == n.session
             e == <<q, "cancelled">>
             c == Recorded(p, s, e)
             ctx == n.contexts \cup {q}
             fl == n.flush \cup {<<q, s>>}
             o == [c EXCEPT !.contexts = ctx, !.flush = fl, !.active = None, !.modal = "none"]
  <2>1. /\ q \in 1..n.runs /\ s \in 1..n.made /\ q \in Runs /\ s \in Sessions /\ e \in Entries
        /\ n.runs \in Nat /\ n.made \in Nat
    BY <1>0, <1>6 DEF ModelFits, Model, Runs, Sessions, None, Entries
  <2>2. ModelFits(c, a)
    BY <1>3, <1>4, <2>1, RecordedFits
  <2>3. /\ c \in Model
        /\ c.runs = n.runs /\ c.active = n.active /\ c.contexts = n.contexts /\ c.flush = n.flush
        /\ c.session = n.session /\ c.made = n.made
        /\ c.modal = n.modal /\ c.review = n.review /\ c.exiting = n.exiting /\ c.quit = n.quit
        /\ c.home = n.home /\ c.disturbed = n.disturbed /\ c.cut = n.cut /\ c.late = n.late
        /\ c.loop = lp /\ c.activeLoop = "none"
    <3>1. p \in Model /\ s \in Sessions /\ e \in Entries
      BY <1>3, <2>1
    <3> HIDE DEF e, s, q
    <3>2. c \in Model /\ Kept(p, c)
      BY <3>1, RecordedFields
    <3> QED
      BY <1>3, <3>2 DEF Kept
  <2>4. /\ \A t \in Sessions : \A i \in 1..Len(c.log[t]) :
              \/ t = s /\ c.log[t][i] = e
              \/ i \in 1..Len(p.log[t]) /\ c.log[t][i] = p.log[t][i]
        /\ \A t \in Sessions \ {s} : c.log[t] = p.log[t]
        /\ \A x : x # e => Where(c.log[s], x) = Where(p.log[s], x)
        /\ Remembered(p) => Remembered(c)
    <3>1. Entered(p, s, e, c)
      BY <1>3, <2>1, EnteredFacts
    <3> HIDE DEF c, e
    <3> QED
      BY <3>1 DEF Entered
  <2>5. CancelRun(n) = o
    BY <1>2, <1>6, <2>3
  <2>6. ctx \in SUBSET Runs /\ fl \in SUBSET (Runs \X Sessions)
    BY <1>0, <2>1 DEF Model
  <2> HIDE DEF c, ctx, fl
  <2>7. /\ o \in Model
        /\ o.contexts = ctx /\ o.flush = fl /\ o.active = None /\ o.modal = "none"
        /\ o.runs = n.runs /\ o.session = n.session /\ o.made = n.made /\ o.context = c.context
        /\ o.log = c.log
        /\ o.review = n.review /\ o.exiting = n.exiting /\ o.quit = n.quit
        /\ o.home = n.home /\ o.disturbed = n.disturbed /\ o.cut = n.cut /\ o.late = n.late
        /\ o.loop = lp /\ o.activeLoop = "none"
    BY ZenonT(60), <2>3, <2>6 DEF Model
  <2> HIDE DEF o
  <2>8. ModelFits(o, a)
    <3>0. None \notin ctx /\ ctx \subseteq 1..n.runs
      BY <1>0, <2>1 DEF ModelFits, ctx, None
    <3>1. \A f \in fl : f[1] <= n.runs /\ f[2] <= n.made
      <4>1. q <= n.runs /\ s <= n.made
        BY <2>1
      <4> QED
        BY <1>0, <4>1 DEF ModelFits, fl
    <3>2. None <= n.runs
      BY <2>1 DEF None
    <3> QED
      BY <2>2, <2>3, <2>7, <3>0, <3>1, <3>2 DEF ModelFits
  <2>9. Answered(o, a)
    BY <1>0, <2>7 DEF Answered, ctx
  <2>10. Remembered(o)
    BY <1>4, <2>3, <2>4, <2>7 DEF Sound, Remembered
  <2>11. Reaches(o, a)
    <3> SUFFICES ASSUME NEW r \in 1..n.runs, r \notin n.disturbed
                 PROVE  Reached(o, a, r)
      BY <2>7 DEF Reaches
    <3>1. Reached(n, a, r)
      BY <1>0 DEF Reaches
    <3>2. \A t \in Sessions : Where(o.log[t], <<r, "events">>) = Where(n.log[t], <<r, "events">>)
      <4>1. <<r, "events">> # e
        OBVIOUS
      <4> QED
        BY <1>3, <2>4, <2>7, <4>1
    <3>3. r # None
      BY DEF None
    <3>4. CASE r = q
      <4>1. n.home[r] = s /\ ~n.exiting
        BY <3>1, <3>4 DEF Reached
      <4>2. \A f \in fl : f[1] = r => f[2] = s
        BY <3>1, <3>4, <4>1 DEF Reached, fl
      <4>3. <<r, s>> \in fl
        BY <3>4 DEF fl
      <4>4. \A t \in Sessions \ {s} : \A i \in 1..Len(o.log[t]) : o.log[t][i][1] # r
        BY <1>3, <2>4, <2>7, <3>1, <4>1 DEF Reached
      <4> HIDE DEF s, q
      <4> QED
        BY SMTT(60), <2>1, <2>7, <3>1, <3>2, <3>3, <4>1, <4>2, <4>3, <4>4 DEF Reached
    <3>5. CASE r # q
      <4>1. e[1] # r
        BY <3>5
      <4>2. \A f \in fl : f[1] = r => f[2] = n.home[r]
        BY <3>1, <3>5 DEF Reached, fl
      <4>3. a[r] # "gone" => <<r, n.home[r]>> \in fl
        BY <3>1, <3>5 DEF Reached, fl
      <4>4. \A t \in Sessions \ {n.home[r]} : \A i \in 1..Len(o.log[t]) : o.log[t][i][1] # r
        BY SMTT(60), <1>3, <2>4, <2>7, <3>1, <4>1 DEF Reached
      <4> HIDE DEF s, q, e
      <4> QED
        BY <2>7, <3>1, <3>2, <3>3, <4>2, <4>3, <4>4 DEF Reached
    <3> QED
      BY <3>4, <3>5
  <2>12. Loops(n) => Loops(o)
    BY <1>1, <2>7 DEF Loops
  <2> QED
    BY <2>5, <2>7, <2>8, <2>9, <2>10, <2>11, <2>12 DEF Sound
<1> QED
  BY <1>5, <1>6

\* The end of the active run: its events are recorded, and the next prompt of
\* the queue is launched.
LEMMA CompletedSound ==
  ASSUME NEW n, NEW a \in [Runs -> {"working", "asking", "waiting", "done", "gone"}],
         Sound(n, a), ~n.quit, n.active # None, a[n.active] = "done",
         NEW loopEnds \in BOOLEAN, NEW review \in BOOLEAN
  PROVE  LET o == Completed(n, loopEnds, review)
             b == [a EXCEPT ![n.active] = "gone"]
         IN /\ Sound(o, b)
            /\ o.made >= n.made
            /\ Loops(n) => Loops(o)
<1> DEFINE r == n.active
           s == n.session
<1> DEFINE e == <<r, "events">>
           c == Recorded(n, s, e)
           b == [a EXCEPT ![r] = "gone"]
<1>0. n \in Model /\ ModelFits(n, a) /\ Answered(n, a) /\ Remembered(n) /\ Reaches(n, a)
  BY DEF Sound, ModelFits
<1>1. /\ r \in 1..n.runs /\ s \in 1..n.made /\ r \in Runs /\ s \in Sessions /\ e \in Entries
      /\ n.runs \in Nat /\ n.made \in Nat
  BY <1>0 DEF ModelFits, Model, Runs, Sessions, None, Entries
<1>2. ModelFits(c, a)
  BY <1>1, RecordedFits
<1>3. c \in Model /\ Kept(n, c)
  <2> HIDE DEF e
  <2> QED
    BY <1>0, <1>1, RecordedFields
<1>4. /\ \A t \in Sessions : \A i \in 1..Len(c.log[t]) :
            \/ t = s /\ c.log[t][i] = e
            \/ i \in 1..Len(n.log[t]) /\ c.log[t][i] = n.log[t][i]
      /\ \A t \in Sessions \ {s} : c.log[t] = n.log[t]
      /\ \A x : x # e => Where(c.log[s], x) = Where(n.log[s], x)
      /\ Where(c.log[s], e) = Where(n.log[s], e) \cup {Len(n.log[s]) + 1}
      /\ Len(n.log[s]) + 1 \in Nat
      /\ Remembered(c)
  <2>1. n \in Model /\ s \in Sessions /\ e \in Entries /\ Remembered(n)
    BY <1>0, <1>1
  <2> HIDE DEF e
  <2>2. Entered(n, s, e, c)
    BY <2>1, EnteredFacts
  <2> HIDE DEF c
  <2> QED
    BY <2>1, <2>2 DEF Entered
<1> HIDE DEF c
<1>5. /\ b[r] = "gone" /\ \A x \in Runs : x # r => b[x] = a[x]
  BY <1>1
<1> HIDE DEF b
<1> DEFINE lp == IF n.activeLoop = "this" THEN (IF loopEnds THEN "none" ELSE "waiting") ELSE n.loop
           o == [c EXCEPT !.active = None, !.modal = "none", !.review = review,
                          !.loop = lp, !.activeLoop = "none"]
<1>6. /\ lp \in {"none", "waiting", "running", "dud"}
      /\ Loops(n) => lp \notin {"running", "dud"}
      /\ Completed(n, loopEnds, review) = LaunchQueued(o)
  <2>1. /\ lp \in {"none", "waiting", "running", "dud"}
        /\ Loops(n) => lp \notin {"running", "dud"}
    BY <1>0 DEF Model, Loops
  <2>2. c.loop = n.loop /\ c.activeLoop = n.activeLoop
    BY <1>3 DEF Kept
  <2>3. Completed(n, loopEnds, review) = LaunchQueued(o)
    BY <1>3, <2>2 DEF Completed, c, Model
  <2> QED
    BY <2>1, <2>3
<1> HIDE DEF lp
<1>7. /\ o \in Model
      /\ o.active = None /\ o.modal = "none" /\ o.review = review /\ o.loop = lp /\ o.activeLoop = "none"
      /\ o.runs = c.runs /\ o.contexts = c.contexts /\ o.flush = c.flush /\ o.session = c.session
      /\ o.made = c.made /\ o.context = c.context /\ o.log = c.log
      /\ o.exiting = c.exiting /\ o.quit = c.quit /\ o.home = c.home
      /\ o.disturbed = c.disturbed /\ o.cut = c.cut /\ o.late = c.late
  BY ZenonT(60), <1>3, <1>6 DEF Model
<1> HIDE DEF o
<1>8. ModelFits(o, b)
  <2>1. \A x \in Runs : x > n.runs => b[x] = "working"
    BY <1>0, <1>1, <1>5 DEF ModelFits, Runs
  <2>2. None <= n.runs /\ None \notin n.contexts
    BY <1>0, <1>1 DEF None, ModelFits
  <2> QED
    BY <1>2, <1>3, <1>7, <2>1, <2>2 DEF ModelFits, Kept
<1>9. Answered(o, b)
  BY <1>0, <1>3, <1>5, <1>7 DEF Answered, Kept
<1>10. Remembered(o)
  BY <1>4, <1>7 DEF Remembered
<1>11. Reaches(o, b)
  <2> SUFFICES ASSUME NEW x \in 1..n.runs, x \notin n.disturbed
               PROVE  Reached(o, b, x)
    BY <1>3, <1>7 DEF Reaches, Kept
  <2>1. Reached(n, a, x) /\ x \in Runs
    BY <1>0 DEF Reaches, Model, Runs
  <2>2. x # None
    BY DEF None
  <2>3. CASE x = r
    <3>1. n.home[x] = s
      BY <2>1, <2>3 DEF Reached
    <3>2. Where(o.log[s], e) = {Len(n.log[s]) + 1}
      BY <1>4, <1>7, <2>1, <2>3, <3>1 DEF Reached
    <3>3. \A t \in Sessions \ {s} : \A i \in 1..Len(o.log[t]) : o.log[t][i][1] # x
      BY <1>4, <1>7, <2>1, <3>1 DEF Reached
    <3> QED
      BY SMTT(60), <1>1, <1>3, <1>4, <1>5, <1>7, <2>1, <2>2, <2>3, <3>1, <3>2, <3>3 DEF Reached, Kept
  <2>4. CASE x # r
    <3>1. b[x] = a[x]
      BY <1>5, <2>1, <2>4
    <3>2. \A t \in Sessions : Where(o.log[t], <<x, "events">>) = Where(n.log[t], <<x, "events">>)
      <4>1. <<x, "events">> # e
        BY <2>4
      <4> QED
        BY <1>4, <1>7, <4>1
    <3>3. \A t \in Sessions \ {n.home[x]} : \A i \in 1..Len(o.log[t]) : o.log[t][i][1] # x
      <4>1. e[1] # x
        BY <2>4
      <4>2. \A t \in Sessions \ {n.home[x]} : \A i \in 1..Len(n.log[t]) : n.log[t][i][1] # x
        BY <2>1 DEF Reached
      <4>3. o.log = c.log
        BY <1>7
      <4> HIDE DEF e
      <4> QED
        BY SMTT(60), <1>4, <4>1, <4>2, <4>3
    <3> QED
      BY SMTT(60), <1>3, <1>7, <2>1, <2>2, <2>4, <3>1, <3>2, <3>3 DEF Reached, Kept
  <2> QED
    BY <2>3, <2>4
<1>12. Sound(o, b) /\ ~o.quit /\ o.made = n.made /\ (Loops(n) => Loops(o))
  BY <1>3, <1>6, <1>7, <1>8, <1>9, <1>10, <1>11 DEF Sound, Loops, Kept
<1>13. LET q == LaunchQueued(o) IN
       /\ Sound(q, b)
       /\ q.made >= o.made
       /\ Loops(o) => Loops(q)
  BY <1>12, LaunchQueuedSound
<1> QED
  BY <1>6, <1>12, <1>13 DEF b

\* The end of a cancelled run: its events go to its session.
LEMMA FlushedSound ==
  ASSUME NEW n, NEW a \in [Runs -> {"working", "asking", "waiting", "done", "gone"}],
         Sound(n, a), ~n.quit, NEW r, NEW s, <<r, s>> \in n.flush, a[r] = "done"
  PROVE  LET o == Flushed(n, r, s)
             b == [a EXCEPT ![r] = "gone"]
         IN /\ Sound(o, b)
            /\ o.made = n.made
            /\ Loops(n) => Loops(o)
<1> DEFINE e == <<r, "events">>
           c == Recorded(n, s, e)
           b == [a EXCEPT ![r] = "gone"]
<1>0. n \in Model /\ ModelFits(n, a) /\ Answered(n, a) /\ Remembered(n) /\ Reaches(n, a)
  BY DEF Sound, ModelFits
<1>1. /\ r \in 1..n.runs /\ s \in 1..n.made /\ r \in Runs /\ s \in Sessions /\ e \in Entries
      /\ n.runs \in Nat /\ n.made \in Nat
  <2>1. <<r, s>> \in Runs \X Sessions /\ r <= n.runs /\ s <= n.made
    BY <1>0 DEF ModelFits, Model
  <2>2. n.runs \in Nat /\ n.made \in Nat
    BY <1>0 DEF Model
  <2> QED
    BY <2>1, <2>2 DEF Runs, Sessions, Entries
<1>2. ModelFits(c, a)
  BY <1>1, RecordedFits
<1>3. c \in Model /\ Kept(n, c)
  <2> HIDE DEF e
  <2> QED
    BY <1>0, <1>1, RecordedFields
<1>4. /\ \A t \in Sessions : \A i \in 1..Len(c.log[t]) :
            \/ t = s /\ c.log[t][i] = e
            \/ i \in 1..Len(n.log[t]) /\ c.log[t][i] = n.log[t][i]
      /\ \A t \in Sessions \ {s} : c.log[t] = n.log[t]
      /\ \A x : x # e => Where(c.log[s], x) = Where(n.log[s], x)
      /\ Where(c.log[s], e) = Where(n.log[s], e) \cup {Len(n.log[s]) + 1}
      /\ Len(n.log[s]) + 1 \in Nat
      /\ Remembered(c)
  <2>1. n \in Model /\ s \in Sessions /\ e \in Entries /\ Remembered(n)
    BY <1>0, <1>1
  <2> HIDE DEF e
  <2>2. Entered(n, s, e, c)
    BY <2>1, EnteredFacts
  <2> HIDE DEF c
  <2> QED
    BY <2>1, <2>2 DEF Entered
<1> HIDE DEF c
<1>5. /\ b[r] = "gone" /\ \A x \in Runs : x # r => b[x] = a[x]
  BY <1>1
<1> HIDE DEF b
<1> DEFINE fl == n.flush \ {<<r, s>>}
           quits == n.exiting /\ fl = {}
           o == [c EXCEPT !.flush = fl, !.quit = quits]
<1>6. fl \in SUBSET (Runs \X Sessions) /\ quits \in BOOLEAN /\ Flushed(n, r, s) = o
  BY <1>0, <1>3 DEF Flushed, c, Model
<1> HIDE DEF fl, quits
<1>7. /\ o \in Model
      /\ o.flush = fl /\ o.quit = quits
      /\ o.active = c.active /\ o.modal = c.modal /\ o.review = c.review
      /\ o.loop = c.loop /\ o.activeLoop = c.activeLoop
      /\ o.runs = c.runs /\ o.contexts = c.contexts /\ o.session = c.session
      /\ o.made = c.made /\ o.context = c.context /\ o.log = c.log
      /\ o.exiting = c.exiting /\ o.home = c.home
      /\ o.disturbed = c.disturbed /\ o.cut = c.cut /\ o.late = c.late
  BY ZenonT(60), <1>3, <1>6 DEF Model
<1> HIDE DEF o
<1>8. ModelFits(o, b)
  <2>1. \A x \in Runs : x > n.runs => b[x] = "working"
    BY <1>0, <1>1, <1>5 DEF ModelFits, Runs
  <2>2. \A f \in fl : f[1] <= n.runs /\ f[2] <= n.made
    BY <1>0 DEF ModelFits, fl
  <2> QED
    BY <1>2, <1>3, <1>7, <2>1, <2>2 DEF ModelFits, Kept
<1>9. Answered(o, b)
  <2>1. n.active # None => n.active \in Runs
    BY <1>0 DEF Model
  <2> QED
    BY <1>0, <1>3, <1>5, <1>7, <2>1 DEF Answered, Kept
<1>10. Remembered(o)
  BY <1>4, <1>7 DEF Remembered
<1>11. Reaches(o, b)
  <2> SUFFICES ASSUME NEW x \in 1..n.runs, x \notin n.disturbed
               PROVE  Reached(o, b, x)
    BY <1>3, <1>7 DEF Reaches, Kept
  <2>1. Reached(n, a, x) /\ x \in Runs
    BY <1>0 DEF Reaches, Model, Runs
  <2>2. x # None
    BY DEF None
  <2>3. CASE x = r
    <3>1. n.home[x] = s
      BY <2>1, <2>3 DEF Reached
    <3>2. Where(o.log[s], e) = {Len(n.log[s]) + 1}
      BY <1>4, <1>7, <2>1, <2>3, <3>1 DEF Reached
    <3>3. \A t \in Sessions \ {s} : \A i \in 1..Len(o.log[t]) : o.log[t][i][1] # x
      BY <1>4, <1>7, <2>1, <3>1 DEF Reached
    <3> QED
      BY SMTT(60), <1>1, <1>3, <1>4, <1>5, <1>7, <2>1, <2>2, <2>3, <3>1, <3>2, <3>3 DEF Reached, Kept, fl
  <2>4. CASE x # r
    <3>1. b[x] = a[x]
      BY <1>5, <2>1, <2>4
    <3>2. \A t \in Sessions : Where(o.log[t], <<x, "events">>) = Where(n.log[t], <<x, "events">>)
      <4>1. <<x, "events">> # e
        BY <2>4
      <4> QED
        BY <1>4, <1>7, <4>1
    <3>3. \A t \in Sessions \ {n.home[x]} : \A i \in 1..Len(o.log[t]) : o.log[t][i][1] # x
      <4>1. e[1] # x
        BY <2>4
      <4>2. \A t \in Sessions \ {n.home[x]} : \A i \in 1..Len(n.log[t]) : n.log[t][i][1] # x
        BY <2>1 DEF Reached
      <4>3. o.log = c.log
        BY <1>7
      <4> HIDE DEF e
      <4> QED
        BY SMTT(60), <1>4, <4>1, <4>2, <4>3
    <3>4. a[x] # "gone" => ~quits
      BY <2>1, <2>4 DEF Reached, fl, quits
    <3>5. <<x, n.home[x]>> \in n.flush => <<x, n.home[x]>> \in fl
      BY <2>4 DEF fl
    <3>6. fl \subseteq n.flush
      BY DEF fl
    <3>7. /\ o.home = n.home /\ o.active = n.active /\ o.session = n.session /\ o.exiting = n.exiting
          /\ o.flush = fl /\ o.quit = quits /\ o.cut = n.cut
      BY <1>3, <1>7 DEF Kept
    <3> HIDE DEF e
    <3> QED
      BY ZenonT(60), <2>1, <2>2, <2>4, <3>1, <3>2, <3>3, <3>4, <3>5, <3>6, <3>7 DEF Reached
  <2> QED
    BY <2>3, <2>4
<1>12. o.made = n.made /\ (Loops(n) => Loops(o))
  BY <1>3, <1>7 DEF Loops, Kept
<1> QED
  BY <1>6, <1>8, <1>9, <1>10, <1>11, <1>12 DEF Sound, b

-----------------------------------------------------------------------------
(* The steps.                                                              *)

At == {"working", "asking", "waiting", "done", "gone"}

LEMMA InitIInv == Init => IInv
<1> SUFFICES ASSUME Init PROVE IInv
  OBVIOUS
<1>1. PICK provider \in BOOLEAN :
      m = [provider |-> provider, runs |-> 0, active |-> None, contexts |-> {}, flush |-> {}, drafts |-> {},
           session |-> None, context |-> <<>>, log |-> [s \in Sessions |-> <<>>], made |-> 0,
           modal |-> "none", review |-> FALSE, queued |-> FALSE, compacting |-> FALSE,
           loop |-> "none", activeLoop |-> "none", exiting |-> FALSE, quit |-> FALSE,
           home |-> [r \in Runs |-> None], disturbed |-> {}, cut |-> {}, late |-> FALSE]
  BY DEF Init
<1>2. m \in Model
  <2>1. /\ [s \in Sessions |-> <<>>] \in [Sessions -> Seq(Entries)]
        /\ [r \in Runs |-> None] \in [Runs -> Sessions \cup {None}]
        /\ 0 \in 0..MaxRuns /\ 0 \in 0..MaxSessions
    BY EmptySeq DEF TuiRunsAssumption
  <2> QED
    BY <1>1, <2>1, EmptySeq DEF Model
<1>3. at = [r \in Runs |-> "working"]
  BY DEF Init
<1>4. ModelFits(m, at)
  BY <1>1, <1>2, <1>3, EmptySeq DEF ModelFits, None
<1>5. Answered(m, at) /\ Remembered(m) /\ Reaches(m, at) /\ Loops(m)
  BY <1>1, <1>3 DEF Answered, Remembered, Reaches, Loops
<1>6. at \in [Runs -> {"working", "asking", "waiting", "done", "gone"}]
  BY <1>3
<1>7. CompactionFits
  BY DEF Init, CompactionFits
<1> QED
  BY <1>4, <1>5, <1>6, <1>7 DEF IInv, Sound

\* A message or a key that the model alone answers to.
LEMMA ModelKeeps ==
  ASSUME IInv, UNCHANGED <<at, compaction>>, Sound(m', at), Loops(m'), m'.made >= m.made
  PROVE  IInv'
<1>1. CompactionFits'
  <2>1. m.made \in Nat /\ m'.made \in Nat
    BY DEF IInv, Sound, ModelFits, Model
  <2> QED
    BY <2>1 DEF IInv, CompactionFits
<1>2. Sound(m', at') /\ Loops(m') /\ at' = at
  OBVIOUS
<1> QED
  BY <1>1, <1>2 DEF IInv

\* What is known of the model.
LEMMA ModelFacts ==
  ASSUME IInv
  PROVE  /\ m \in Model /\ Sound(m, at) /\ Loops(m)
         /\ m.made \in Nat /\ m.made >= m.made /\ m.made + 1 >= m.made
BY DEF IInv, Sound, ModelFits, Model

LEMMA QuietKeeps ==
  ASSUME IInv, UNCHANGED <<at, compaction>>, Alike(m, m'), m'.modal = m.modal, Loops(m')
  PROVE  IInv'
BY ModelFacts, SoundFrame, ModelKeeps DEF Alike

LEMMA ConfigureKeeps == ASSUME IInv, Configure PROVE IInv'
<1>1. m \in Model /\ m' = [m EXCEPT !.provider = TRUE]
  BY ModelFacts DEF Configure, Update
<1>2. Alike(m, m') /\ m'.modal = m.modal /\ m'.loop = m.loop /\ m'.activeLoop = m.activeLoop
  BY ZenonT(60), <1>1 DEF Alike, Model
<1> QED
  BY <1>2, ModelFacts, QuietKeeps DEF Configure, Update, Loops, Alike

LEMMA LaunchKeeps ==
  ASSUME IInv, UNCHANGED <<at, compaction>>, Typing, CanLaunch(m), m' = LaunchPrompt(m)
  PROVE  IInv'
<1>1. LET o == LaunchPrompt(m) IN
      /\ Sound(o, at)
      /\ o.made >= m.made
      /\ o.loop = m.loop /\ o.activeLoop = m.activeLoop
      /\ IF m.provider THEN o.active # None ELSE o = m
  BY ModelFacts, LaunchPromptSound DEF Typing
<1>2. Loops(m')
  BY <1>1, ModelFacts DEF Loops
<1> QED
  BY <1>1, <1>2, ModelKeeps

LEMMA SubmitKeeps == ASSUME IInv, Submit PROVE IInv'
<1>1. CASE m.active # None /\ Update([m EXCEPT !.queued = TRUE])
  <2>1. m \in Model /\ m' = [m EXCEPT !.queued = TRUE]
    BY <1>1, ModelFacts DEF Update
  <2>2. Alike(m, m') /\ m'.modal = m.modal /\ m'.loop = m.loop /\ m'.activeLoop = m.activeLoop
    BY ZenonT(60), <2>1 DEF Alike, Model
  <2> QED
    BY <1>1, <2>2, ModelFacts, QuietKeeps DEF Update, Loops, Alike
<1>2. CASE CanLaunch(m) /\ Update(LaunchPrompt(m))
  BY <1>2, LaunchKeeps DEF Submit, Update
<1> QED
  BY <1>1, <1>2 DEF Submit

LEMMA InitCommandKeeps == ASSUME IInv, InitCommand PROVE IInv'
BY LaunchKeeps DEF InitCommand, Update

LEMMA SpecCommandKeeps == ASSUME IInv, SpecCommand PROVE IInv'
<1> DEFINE n == InNewSession(m)
           b == BeginRun(n)
<1>1. m.made < MaxSessions /\ m.runs < MaxRuns /\ m.active = None
  <2>1. m.made + 1 <= MaxSessions
    BY DEF SpecCommand, HasRoom
  <2> QED
    BY <2>1, ModelFacts DEF SpecCommand, HasRoom, TuiRunsAssumption
<1>2. /\ Sound(n, at)
      /\ n.session # None /\ n.made = m.made + 1 /\ n.runs = m.runs
      /\ n.loop = m.loop /\ n.activeLoop = m.activeLoop
      /\ n.modal = m.modal /\ n.review = m.review /\ n.quit = m.quit
  BY <1>1, ModelFacts, InNewSessionSound
<1>3. m' = [b EXCEPT !.drafts = @ \cup {m.runs + 1}]
  BY <1>2 DEF SpecCommand, Update, BeginRun
<1> HIDE DEF n
<1>4. /\ Sound(b, at)
      /\ b.active # None /\ b.made = n.made /\ b.loop = n.loop /\ b.activeLoop = n.activeLoop
  BY <1>1, <1>2, ModelFacts, BeginRunSound DEF SpecCommand, Typing
<1> HIDE DEF b
<1>5. b \in Model /\ m.runs + 1 \in Runs
  <2>1. b \in Model
    BY <1>4 DEF Sound, ModelFits
  <2>2. m.runs \in 0..MaxRuns
    BY ModelFacts DEF Model
  <2> QED
    BY <1>1, <2>1, <2>2, ModelFacts DEF Runs, TuiRunsAssumption
<1>6. Alike(b, m') /\ m'.modal = b.modal /\ m'.loop = b.loop /\ m'.activeLoop = b.activeLoop
  BY ZenonT(60), <1>3, <1>5 DEF Alike, Model
<1>7. Sound(m', at)
  BY <1>4, <1>6, SoundFrame
<1>8. Loops(m') /\ m'.made >= m.made
  BY <1>2, <1>4, <1>6, ModelFacts DEF Loops, Alike
<1> QED
  BY <1>7, <1>8, ModelKeeps DEF SpecCommand, Update

LEMMA ApproveSpecKeeps == ASSUME IInv, ApproveSpec PROVE IInv'
<1> DEFINE v == [m EXCEPT !.review = FALSE]
           n == InNewSession(v)
<1>1. m.made < MaxSessions /\ m.runs < MaxRuns /\ m.active = None /\ m.modal = "none"
  <2>1. m.made + 1 <= MaxSessions
    BY DEF ApproveSpec, HasRoom
  <2> QED
    BY <2>1, ModelFacts DEF ApproveSpec, HasRoom, TuiRunsAssumption, Sound, ModelFits, Answered
<1>2. m' = Begin(Recorded(n, n.session, <<m.runs + 1, "prompt">>))
  BY DEF ApproveSpec, Update
<1>3. /\ Alike(m, v) /\ v.modal = m.modal /\ v.review = FALSE
      /\ v.loop = m.loop /\ v.activeLoop = m.activeLoop
  BY ZenonT(60), ModelFacts DEF Alike, Model
<1> HIDE DEF v
<1>4. Sound(v, at) /\ v.made = m.made /\ v.runs = m.runs /\ v.active = None /\ v.quit = m.quit
  BY <1>1, <1>3, ModelFacts, SoundFrame DEF Alike
<1>5. /\ Sound(n, at)
      /\ n.session # None /\ n.made = v.made + 1 /\ n.runs = v.runs
      /\ n.loop = v.loop /\ n.activeLoop = v.activeLoop
      /\ n.modal = v.modal /\ n.review = v.review /\ n.quit = v.quit
  BY <1>1, <1>4, ModelFacts, InNewSessionSound
<1> HIDE DEF n
<1>6. m' = BeginRun(n)
  BY <1>2, <1>4, <1>5 DEF BeginRun
<1>7. LET b == BeginRun(n) IN
      /\ Sound(b, at)
      /\ b.active # None /\ b.made = n.made /\ b.loop = n.loop /\ b.activeLoop = n.activeLoop
  BY <1>1, <1>3, <1>4, <1>5, ModelFacts, BeginRunSound DEF ApproveSpec
<1>8. Loops(m') /\ m'.made >= m.made
  BY <1>3, <1>4, <1>5, <1>6, <1>7, ModelFacts DEF Loops
<1> QED
  BY <1>6, <1>7, <1>8, ModelKeeps DEF ApproveSpec, Update

LEMMA RejectSpecKeeps == ASSUME IInv, RejectSpec PROVE IInv'
<1> DEFINE v == [m EXCEPT !.review = FALSE]
<1>1. m' = LaunchQueued(v) /\ ~m.quit
  BY DEF RejectSpec, Update
<1>2. Alike(m, v) /\ v.modal = m.modal /\ v.loop = m.loop /\ v.activeLoop = m.activeLoop
  BY ZenonT(60), ModelFacts DEF Alike, Model
<1> HIDE DEF v
<1>3. Sound(v, at) /\ v.made = m.made /\ ~v.quit /\ Loops(v)
  BY <1>1, <1>2, ModelFacts, SoundFrame DEF Alike, Loops
<1>4. LET o == LaunchQueued(v) IN
      /\ Sound(o, at)
      /\ o.made >= v.made
      /\ Loops(v) => Loops(o)
  BY <1>3, ModelFacts, LaunchQueuedSound
<1> QED
  BY <1>1, <1>3, <1>4, ModelKeeps DEF RejectSpec, Update

LEMMA CancelKeeps == ASSUME IInv, UNCHANGED <<at, compaction>>, ~m.quit, m' = CancelRun(m) PROVE IInv'
<1>1. LET o == CancelRun(m) IN
      /\ Sound(o, at)
      /\ o.made = m.made
      /\ Loops(m) => Loops(o)
  BY ModelFacts, CancelRunSound
<1> QED
  BY <1>1, ModelFacts, ModelKeeps

LEMMA EscapeKeeps == ASSUME IInv, Escape PROVE IInv'
<1>1. CASE Update([m EXCEPT !.queued = FALSE])
  <2>1. m \in Model /\ m' = [m EXCEPT !.queued = FALSE]
    BY <1>1, ModelFacts DEF Update
  <2>2. Alike(m, m') /\ m'.modal = m.modal /\ m'.loop = m.loop /\ m'.activeLoop = m.activeLoop
    BY ZenonT(60), <2>1 DEF Alike, Model
  <2> QED
    BY <1>1, <2>2, ModelFacts, QuietKeeps DEF Update, Loops, Alike
<1>2. CASE Update(CancelRun(m))
  BY <1>2, CancelKeeps DEF Escape, Update
<1> QED
  BY <1>1, <1>2 DEF Escape

LEMMA InterruptKeeps == ASSUME IInv, Interrupt PROVE IInv'
BY CancelKeeps DEF Interrupt, Update

LEMMA ExitKeeps == ASSUME IInv, Exit PROVE IInv'
<1> DEFINE n == CancelRun(m)
           quits == n.flush = {}
<1>1. m' = [n EXCEPT !.exiting = TRUE, !.quit = quits]
  BY DEF Exit, Update
<1>2. /\ Sound(n, at)
      /\ n.made = m.made /\ n.active = None /\ n.modal = "none" /\ Loops(n)
  BY ModelFacts, CancelRunSound DEF Exit
<1> HIDE DEF n
<1>3. n \in Model /\ quits \in BOOLEAN
  BY <1>2 DEF Sound, ModelFits
<1> HIDE DEF quits
<1>4. /\ m' \in Model /\ m'.quit = quits
      /\ m'.runs = n.runs /\ m'.active = n.active /\ m'.contexts = n.contexts /\ m'.flush = n.flush
      /\ m'.session = n.session /\ m'.context = n.context /\ m'.log = n.log /\ m'.made = n.made
      /\ m'.modal = n.modal /\ m'.review = n.review
      /\ m'.home = n.home /\ m'.disturbed = n.disturbed /\ m'.cut = n.cut /\ m'.late = n.late
      /\ m'.loop = n.loop /\ m'.activeLoop = n.activeLoop
  BY ZenonT(60), <1>1, <1>3 DEF Model
<1>5. ModelFits(m', at) /\ Answered(m', at) /\ Remembered(m') /\ Loops(m')
  <2>1. ModelFits(m', at)
    BY <1>2, <1>4 DEF Sound, ModelFits
  <2>2. Answered(m', at) /\ Remembered(m') /\ Loops(m')
    BY <1>2, <1>4 DEF Sound, Answered, Remembered, Loops
  <2> QED
    BY <2>1, <2>2
<1>6. Reaches(m', at)
  <2> SUFFICES ASSUME NEW r \in 1..n.runs, r \notin n.disturbed
               PROVE  Reached(m', at, r)
    BY <1>4 DEF Reaches
  <2>1. Reached(n, at, r) /\ r # None
    BY <1>2 DEF Sound, Reaches, None
  <2>2. at[r] # "gone" => ~quits
    BY <1>2, <2>1 DEF Reached, quits
  <2> QED
    BY <1>2, <1>4, <2>1, <2>2 DEF Reached
<1> QED
  BY <1>2, <1>4, <1>5, <1>6, ModelFacts, ModelKeeps DEF Exit, Update, Sound

\* A goroutine that goes on, and is not gone.
LEMMA GoesKeeps ==
  ASSUME NEW n, NEW a \in [Runs -> At], ModelFits(n, a), Reaches(n, a),
         NEW r \in Runs, r <= n.runs, a[r] # "gone", NEW to \in At \ {"gone"}
  PROVE  /\ [a EXCEPT ![r] = to] \in [Runs -> At]
         /\ ModelFits(n, [a EXCEPT ![r] = to])
         /\ Reaches(n, [a EXCEPT ![r] = to])
<1> DEFINE b == [a EXCEPT ![r] = to]
<1>1. b \in [Runs -> At] /\ b[r] = to /\ \A x \in Runs : x # r => b[x] = a[x]
  OBVIOUS
<1> HIDE DEF b
<1>2. n.runs \in 0..MaxRuns
  BY DEF ModelFits, Model
<1>3. ModelFits(n, b)
  <2>1. \A x \in Runs : x > n.runs => b[x] = "working"
    BY <1>1, <1>2 DEF ModelFits, Runs
  <2> QED
    BY <2>1 DEF ModelFits
<1>4. Reaches(n, b)
  <2> SUFFICES ASSUME NEW x \in 1..n.runs, x \notin n.disturbed
               PROVE  Reached(n, b, x)
    BY DEF Reaches
  <2>1. x \in Runs /\ Reached(n, a, x)
    BY <1>2, TuiRunsAssumption DEF Reaches, Runs, TuiRunsAssumption
  <2>2. b[x] = "gone" <=> a[x] = "gone"
    BY <1>1, <2>1
  <2> QED
    BY <2>1, <2>2 DEF Reached
<1> QED
  BY <1>1, <1>3, <1>4 DEF b

\* A step of the goroutine of r, with or without a dialog.
LEMMA RunKeeps ==
  ASSUME IInv, UNCHANGED compaction, NEW r \in Runs, r <= m.runs, at[r] # "gone",
         NEW to \in At \ {"gone"}, at' = [at EXCEPT ![r] = to],
         Alike(m, m'), m'.loop = m.loop, m'.activeLoop = m.activeLoop, Answered(m', at')
  PROVE  IInv'
<1>1. /\ at \in [Runs -> At] /\ ModelFits(m', at) /\ Remembered(m') /\ Reaches(m', at)
      /\ m'.runs = m.runs /\ m'.made = m.made
  BY ModelFacts, SoundFrame DEF IInv, At, Alike
<1>2. at' \in [Runs -> At] /\ ModelFits(m', at') /\ Reaches(m', at')
  BY <1>1, ModelFacts, GoesKeeps
<1>3. Loops(m')
  BY ModelFacts DEF Loops, Alike
<1>4. CompactionFits'
  BY <1>1 DEF IInv, CompactionFits
<1> QED
  BY <1>1, <1>2, <1>3, <1>4 DEF IInv, Sound, At

LEMMA SameModel == ASSUME IInv, UNCHANGED m PROVE Alike(m, m') /\ m'.modal = m.modal
BY ModelFacts DEF Alike

LEMMA AnswerKeeps == ASSUME IInv, Answer PROVE IInv'
<1>1. m \in Model /\ m' = [m EXCEPT !.modal = "none"] /\ m.modal # "none"
  BY ModelFacts DEF Answer
<1>2. Alike(m, m') /\ m'.modal = "none" /\ m'.loop = m.loop /\ m'.activeLoop = m.activeLoop
  BY ZenonT(60), <1>1 DEF Alike, Model
<1>3. m.active \in Runs /\ m.active <= m.runs /\ at[m.active] = "waiting"
  BY <1>1, ModelFacts DEF Sound, ModelFits, Answered, Model
<1>4. at' = [at EXCEPT ![m.active] = "working"] /\ at \in [Runs -> At]
  BY DEF Answer, IInv, At
<1>5. Answered(m', at')
  BY <1>2, <1>3, <1>4, ModelFacts DEF Sound, Answered, Alike
<1> QED
  BY <1>2, <1>3, <1>4, <1>5, RunKeeps DEF Answer, At

LEMMA AskKeeps == ASSUME IInv, NEW r \in Runs, Ask(r) PROVE IInv'
<1>1. Answered(m', at')
  BY ModelFacts DEF Ask, Started, Goes, IInv, Sound, Answered
<1> QED
  BY <1>1, SameModel, RunKeeps DEF Ask, Started, Goes, At

LEMMA RequestKeeps == ASSUME IInv, NEW r \in Runs, Request(r) PROVE IInv'
<1>1. CASE Goes(r, "working") /\ UNCHANGED m
  <2>1. Answered(m', at')
    BY <1>1, ModelFacts DEF Request, Started, Goes, IInv, Sound, Answered
  <2> QED
    BY <1>1, <2>1, SameModel, RunKeeps DEF Request, Started, Goes, At
<1>2. ASSUME r = m.active, Goes(r, "waiting"), NEW kind \in {"permission", "question"},
             m' = [m EXCEPT !.modal = kind]
      PROVE  IInv'
  <2>1. Alike(m, m') /\ m'.modal = kind /\ m'.loop = m.loop /\ m'.activeLoop = m.activeLoop
    BY ZenonT(60), <1>2, ModelFacts DEF Alike, Model
  <2>2. r # None
    BY DEF Runs, None
  <2>3. Answered(m', at')
    BY <1>2, <2>1, <2>2, ModelFacts DEF Alike, Goes, IInv, Sound, Answered
  <2> QED
    BY <1>2, <2>1, <2>3, RunKeeps DEF Request, Started, Goes, At
<1> QED
  BY <1>1, <1>2 DEF Request

LEMMA UnparkKeeps == ASSUME IInv, NEW r \in Runs, Unpark(r) PROVE IInv'
<1>1. m.modal # "none" => m.active # r
  BY ModelFacts DEF Unpark, Sound, ModelFits
<1>2. Answered(m', at')
  BY <1>1, ModelFacts DEF Unpark, Started, Goes, IInv, Sound, Answered
<1> QED
  BY <1>2, SameModel, RunKeeps DEF Unpark, Started, Goes, At

LEMMA FinishKeeps == ASSUME IInv, NEW r \in Runs, Finish(r) PROVE IInv'
<1>1. Answered(m', at')
  BY ModelFacts DEF Finish, Started, Goes, IInv, Sound, Answered
<1> QED
  BY <1>1, SameModel, RunKeeps DEF Finish, Started, Goes, At

LEMMA ResponseKeeps == ASSUME IInv, NEW r \in Runs, Response(r) PROVE IInv'
<1> DEFINE b == [at EXCEPT ![r] = "gone"]
<1>1. /\ at' = b /\ at \in [Runs -> {"working", "asking", "waiting", "done", "gone"}]
      /\ at[r] = "done" /\ r <= m.runs /\ ~m.quit /\ compaction' = compaction
  BY DEF Response, Started, Goes, IInv
<1>2. /\ b \in [Runs -> {"working", "asking", "waiting", "done", "gone"}]
      /\ b[r] = "gone" /\ \A x \in Runs : x # r => b[x] = at[x]
  BY <1>1
<1>3. SUFFICES Sound(m', b) /\ Loops(m') /\ m'.made >= m.made
  <2>1. Sound(m', at') /\ at' \in [Runs -> {"working", "asking", "waiting", "done", "gone"}]
    BY <1>1, <1>2, <1>3
  <2>2. CompactionFits'
    <3>1. m.made \in Nat /\ m'.made \in Nat
      BY <1>3, ModelFacts DEF Sound, ModelFits, Model
    <3> QED
      BY <1>1, <1>3, <3>1 DEF IInv, CompactionFits
  <2> QED
    BY <1>3, <2>1, <2>2 DEF IInv
<1>4. ASSUME r = m.active, NEW loopEnds \in BOOLEAN, NEW review \in BOOLEAN,
             m' = Completed(m, loopEnds, review)
      PROVE  Sound(m', b) /\ Loops(m') /\ m'.made >= m.made
  <2>1. m.active # None
    BY <1>4 DEF Runs, None
  <2>2. LET o == Completed(m, loopEnds, review)
            c == [at EXCEPT ![m.active] = "gone"]
        IN /\ Sound(o, c)
           /\ o.made >= m.made
           /\ Loops(m) => Loops(o)
    BY <1>1, <1>4, <2>1, ModelFacts, CompletedSound
  <2> QED
    BY <1>4, <2>2, ModelFacts
<1>5. ASSUME NEW f \in m.flush, f[1] = r, m' = Flushed(m, r, f[2])
      PROVE  Sound(m', b) /\ Loops(m') /\ m'.made >= m.made
  <2>1. f = <<r, f[2]>>
    BY <1>5, ModelFacts DEF Model
  <2>2. LET o == Flushed(m, r, f[2])
            c == [at EXCEPT ![r] = "gone"]
        IN /\ Sound(o, c)
           /\ o.made = m.made
           /\ Loops(m) => Loops(o)
    BY <1>1, <2>1, ModelFacts, FlushedSound
  <2> QED
    BY <1>5, <2>2, ModelFacts
<1>6. ASSUME r # m.active, \A f \in m.flush : f[1] # r, UNCHANGED m
      PROVE  Sound(m', b) /\ Loops(m') /\ m'.made >= m.made
  <2>1. ModelFits(m, at) /\ Answered(m, at) /\ Remembered(m) /\ Reaches(m, at) /\ Loops(m) /\ m \in Model
    BY ModelFacts DEF Sound
  <2>2. ModelFits(m, b)
    <3>1. \A x \in Runs : x > m.runs => b[x] = "working"
      <4>1. r \in Nat /\ m.runs \in Nat
        BY <2>1 DEF Model, Runs
      <4> QED
        BY <1>1, <1>2, <2>1, <4>1 DEF ModelFits, Runs
    <3> QED
      BY <2>1, <3>1 DEF ModelFits
  <2>3. Answered(m, b)
    BY <1>1, <1>2, <2>1 DEF Answered, Model
  <2>4. Reaches(m, b)
    <3> SUFFICES ASSUME NEW x \in 1..m.runs, x \notin m.disturbed
                 PROVE  Reached(m, b, x)
      BY DEF Reaches
    <3>1. x \in Runs /\ Reached(m, at, x)
      BY <2>1, ModelFacts DEF Reaches, Runs, Model, TuiRunsAssumption
    <3>2. x # r
      BY <1>1, <1>6, <3>1 DEF Reached
    <3> QED
      BY <1>2, <3>1, <3>2 DEF Reached
  <2> QED
    BY <1>6, <2>1, <2>2, <2>3, <2>4, ModelFacts DEF Sound
<1> QED
  BY <1>4, <1>5, <1>6 DEF Response

\* Another session, or what is left of one, without an active run.
LEMMA SessionKeeps ==
  ASSUME IInv, UNCHANGED <<at, compaction>>, Loops(m'), m' \in Model,
         m.active = None, m'.session <= m.made,
         m'.context = IF m'.session = None THEN <<>> ELSE m.log[m'.session],
         m'.runs = m.runs, m'.active = m.active, m'.contexts = m.contexts, m'.flush = m.flush,
         m'.log = m.log, m'.made = m.made, m'.review = m.review, m'.modal = m.modal,
         m'.exiting = m.exiting, m'.quit = m.quit, m'.home = m.home, m'.disturbed = m.disturbed,
         m'.cut = m.cut
  PROVE  IInv'
<1>1. ModelFits(m, at) /\ Answered(m, at) /\ Reaches(m, at)
  BY ModelFacts DEF Sound
<1>2. ModelFits(m', at)
  BY <1>1 DEF ModelFits
<1>3. Answered(m', at) /\ Remembered(m')
  BY <1>1 DEF Answered, Remembered
<1>4. Reaches(m', at)
  <2> SUFFICES ASSUME NEW r \in 1..m.runs, r \notin m.disturbed
               PROVE  Reached(m', at, r)
    BY DEF Reaches
  <2>1. Reached(m, at, r) /\ r # None
    BY <1>1 DEF Reaches, None
  <2> QED
    BY <2>1 DEF Reached
<1> QED
  BY <1>2, <1>3, <1>4, ModelFacts, ModelKeeps DEF Sound

LEMMA NewSessionKeeps == ASSUME IInv, NewSession PROVE IInv'
<1>1. /\ m \in Model /\ m.active = None
      /\ m' = [m EXCEPT !.session = None, !.context = <<>>, !.queued = FALSE, !.loop = "none",
                        !.activeLoop = "none", !.late = FALSE]
  BY ModelFacts DEF NewSession, Update
<1>2. /\ m' \in Model /\ m'.session = None /\ m'.context = <<>> /\ m'.loop = "none"
      /\ m'.runs = m.runs /\ m'.active = m.active /\ m'.contexts = m.contexts /\ m'.flush = m.flush
      /\ m'.log = m.log /\ m'.made = m.made /\ m'.review = m.review /\ m'.modal = m.modal
      /\ m'.exiting = m.exiting /\ m'.quit = m.quit /\ m'.home = m.home /\ m'.disturbed = m.disturbed
      /\ m'.cut = m.cut
  <2>1. m' \in Model
    <3>1. <<>> \in Seq(Entries)
      BY EmptySeq
    <3> DEFINE p == [m EXCEPT !.session = None, !.context = <<>>, !.late = FALSE]
    <3>2. p \in Model
      BY ZenonT(60), <1>1, <3>1 DEF Model
    <3>3. m' = [p EXCEPT !.queued = FALSE, !.loop = "none", !.activeLoop = "none"]
      BY <1>1 DEF Model
    <3> HIDE DEF p
    <3> QED
      BY ZenonT(60), <3>2, <3>3 DEF Model
  <2> QED
    BY SMTT(60), <1>1, <2>1 DEF Model
<1>3. m'.session <= m.made /\ Loops(m')
  BY <1>2, ModelFacts DEF None, Loops
<1> QED
  BY <1>1, <1>2, <1>3, SessionKeeps DEF NewSession, Update

LEMMA ResumeKeeps == ASSUME IInv, NEW s \in Sessions, Resume(s) PROVE IInv'
<1> DEFINE lp == IF s = m.session THEN m.loop ELSE "none"
           al == IF s = m.session THEN m.activeLoop ELSE "none"
<1>1. /\ m \in Model /\ m.active = None /\ s <= m.made
      /\ m' = [m EXCEPT !.session = s, !.context = m.log[s], !.late = FALSE,
                        !.loop = lp, !.activeLoop = al]
  BY ModelFacts DEF Resume, Update
<1>2. /\ lp \in {"none", "waiting", "running", "dud"} /\ al \in {"none", "this", "stopped"}
      /\ lp \in {"running", "dud"} => al = "this"
      /\ lp # "running" /\ s # None
  BY <1>1, ModelFacts DEF Model, Loops, Sessions, None
<1> HIDE DEF lp, al
<1>3. /\ m' \in Model /\ m'.session = s /\ m'.context = m.log[s] /\ m'.loop = lp /\ m'.activeLoop = al
      /\ m'.runs = m.runs /\ m'.active = m.active /\ m'.contexts = m.contexts /\ m'.flush = m.flush
      /\ m'.log = m.log /\ m'.made = m.made /\ m'.review = m.review /\ m'.modal = m.modal
      /\ m'.exiting = m.exiting /\ m'.quit = m.quit /\ m'.home = m.home /\ m'.disturbed = m.disturbed
      /\ m'.cut = m.cut
  BY ZenonT(60), <1>1, <1>2 DEF Model
<1>4. Loops(m')
  BY <1>2, <1>3 DEF Loops
<1> QED
  BY <1>1, <1>2, <1>3, <1>4, SessionKeeps DEF Resume, Update

\* All runs are gone: a rewind cuts no events but of those it marks.
LEMMA RewindKeeps == ASSUME IInv, Rewind PROVE IInv'
<1> DEFINE s == m.session
           l == m.log[s]
<1>1. PICK i \in 0..(Len(l) - 1) :
         m' = [m EXCEPT !.log[m.session] = SubSeq(l, 1, i), !.context = SubSeq(l, 1, i), !.late = FALSE,
                        !.cut = @ \cup {e[1] : e \in {l[j] : j \in (i + 1)..Len(l)}}]
  BY DEF Rewind, Update
<1> DEFINE kept == SubSeq(l, 1, i)
           gone == {e[1] : e \in {l[j] : j \in (i + 1)..Len(l)}}
           cut == m.cut \cup gone
           logs == [m.log EXCEPT ![s] = kept]
<1>2. /\ m \in Model /\ ModelFits(m, at) /\ Answered(m, at) /\ Reaches(m, at) /\ Loops(m)
      /\ m.active = None /\ m.flush = {} /\ s \in Sessions /\ l \in Seq(Entries) /\ Len(l) \in Nat
      /\ m.log \in [Sessions -> Seq(Entries)]
  BY ModelFacts DEF Rewind, Sound, Model
<1>3. /\ i \in Nat /\ i + 1 \in Nat /\ i <= Len(l)
      /\ kept \in Seq(Entries) /\ Len(kept) = i
      /\ \A j \in 1..i : kept[j] = l[j]
  <2>1. i \in Nat /\ i <= Len(l)
    BY <1>2
  <2> HIDE DEF l
  <2> QED
    BY <1>2, <2>1, SubSeqProperties
<1>4. cut \in SUBSET Runs
  <2>1. \A j \in (i + 1)..Len(l) : l[j] \in Entries
    <3> SUFFICES ASSUME NEW j \in (i + 1)..Len(l) PROVE l[j] \in Entries
      OBVIOUS
    <3>1. j \in 1..Len(l)
      BY <1>2, <1>3
    <3> QED
      BY <1>2, <3>1, ElementOfSeq
  <2>2. m.cut \in SUBSET Runs
    BY <1>2 DEF Model
  <2> HIDE DEF l
  <2> QED
    BY <2>1, <2>2 DEF Entries
<1>5. logs \in [Sessions -> Seq(Entries)] /\ logs[s] = kept /\ \A t \in Sessions \ {s} : logs[t] = m.log[t]
  <2> HIDE DEF kept, s
  <2> QED
    BY <1>2, <1>3
<1>6. m' = [m EXCEPT !.log = logs, !.context = kept, !.late = FALSE, !.cut = cut]
  BY <1>1, <1>2
<1> HIDE DEF kept, gone, cut, logs
<1>7. /\ m' \in Model /\ m'.log = logs /\ m'.context = kept /\ m'.cut = cut
      /\ m'.session = m.session /\ m'.loop = m.loop /\ m'.activeLoop = m.activeLoop
      /\ m'.runs = m.runs /\ m'.active = m.active /\ m'.contexts = m.contexts /\ m'.flush = m.flush
      /\ m'.made = m.made /\ m'.review = m.review /\ m'.modal = m.modal
      /\ m'.exiting = m.exiting /\ m'.quit = m.quit /\ m'.home = m.home /\ m'.disturbed = m.disturbed
  BY ZenonT(60), <1>2, <1>3, <1>4, <1>5, <1>6 DEF Model
<1>8. \A t \in Sessions : \A j \in 1..Len(logs[t]) : j \in 1..Len(m.log[t]) /\ logs[t][j] = m.log[t][j]
  <2> SUFFICES ASSUME NEW t \in Sessions, NEW j \in 1..Len(logs[t])
               PROVE  j \in 1..Len(m.log[t]) /\ logs[t][j] = m.log[t][j]
    OBVIOUS
  <2>1. CASE t = s
    <3>1. j \in 1..i
      BY <1>3, <1>5, <2>1
    <3>2. j \in 1..Len(l)
      BY <1>2, <1>3, <3>1
    <3> QED
      BY <1>3, <1>5, <2>1, <3>1, <3>2
  <2>2. CASE t # s
    BY <1>5, <2>2
  <2> QED
    BY <2>1, <2>2
<1>9. ModelFits(m', at)
  <2>1. \A t \in Sessions : t > m.made => logs[t] = <<>>
    <3> SUFFICES ASSUME NEW t \in Sessions, t > m.made PROVE logs[t] = <<>>
      OBVIOUS
    <3>1. t # s
      BY <1>2, ModelFacts DEF ModelFits, Sessions
    <3> QED
      BY <1>2, <1>5, <3>1 DEF ModelFits
  <2>2. \A t \in Sessions : \A j \in 1..Len(logs[t]) : logs[t][j][1] <= m.runs
    BY <1>2, <1>8 DEF ModelFits
  <2> QED
    BY <1>2, <1>7, <2>1, <2>2 DEF ModelFits
<1>10. Answered(m', at) /\ Remembered(m') /\ Loops(m')
  <2>1. s # None
    BY <1>2 DEF Sessions, None
  <2> QED
    BY <1>2, <1>5, <1>7, <2>1 DEF Answered, Remembered, Loops
<1>11. Reaches(m', at)
  <2> SUFFICES ASSUME NEW r \in 1..m.runs, r \notin m.disturbed
               PROVE  Reached(m', at, r)
    BY <1>7 DEF Reaches
  <2>1. Reached(m, at, r) /\ r # None
    BY <1>2 DEF Reaches, None
  <2>2. at[r] = "gone"
    BY <1>2, <2>1 DEF Reached
  <2>3. ASSUME r \notin cut
        PROVE  Where(logs[m.home[r]], <<r, "events">>) = Where(m.log[m.home[r]], <<r, "events">>)
    <3>1. CASE m.home[r] = s
      <4>1. \A j \in (i + 1)..Len(l) : l[j][1] # r
        BY <2>3 DEF cut, gone
      <4>2. \A j \in 1..Len(l) : l[j] = <<r, "events">> => j \in 1..i
        <5> SUFFICES ASSUME NEW j \in 1..Len(l), l[j] = <<r, "events">>, j \notin 1..i PROVE FALSE
          OBVIOUS
        <5>1. j \in (i + 1)..Len(l)
          BY <1>2, <1>3
        <5> QED
          BY <4>1, <5>1
      <4>3. 1..i \subseteq 1..Len(l)
        BY <1>2, <1>3
      <4>4. Where(kept, <<r, "events">>) = Where(l, <<r, "events">>)
        <5> HIDE DEF l
        <5> QED
          BY <1>3, <4>2, <4>3 DEF Where
      <4> QED
        BY <1>5, <3>1, <4>4
    <3>2. CASE m.home[r] # s
      BY <1>5, <2>1, <3>2 DEF Reached
    <3> QED
      BY <3>1, <3>2
  <2>4. r \notin cut => r \notin m.cut
    BY DEF cut
  <2>5. \A t \in Sessions \ {m.home[r]} : \A j \in 1..Len(logs[t]) : logs[t][j][1] # r
    BY SMTT(60), <1>8, <2>1 DEF Reached
  <2> QED
    BY ZenonT(60), <1>2, <1>7, <2>1, <2>2, <2>3, <2>4, <2>5 DEF Reached
<1> QED
  BY <1>7, <1>9, <1>10, <1>11, ModelFacts, ModelKeeps DEF Rewind, Update, Sound

LEMMA StartLoopKeeps == ASSUME IInv, StartLoop PROVE IInv'
<1>1. m \in Model /\ m' = [m EXCEPT !.loop = "waiting"]
  BY ModelFacts DEF StartLoop, Update
<1>2. Alike(m, m') /\ m'.modal = m.modal /\ m'.loop = "waiting"
  BY ZenonT(60), <1>1 DEF Alike, Model
<1> QED
  BY <1>2, QuietKeeps DEF StartLoop, Update, Loops

LEMMA StopLoopKeeps == ASSUME IInv, StopLoop PROVE IInv'
<1> DEFINE al == IF m.activeLoop = "this" THEN "stopped" ELSE m.activeLoop
<1>1. m \in Model /\ m' = [m EXCEPT !.loop = "none", !.activeLoop = al]
  BY ModelFacts DEF StopLoop, Update
<1>2. al \in {"none", "this", "stopped"}
  BY <1>1 DEF Model
<1> HIDE DEF al
<1>3. Alike(m, m') /\ m'.modal = m.modal /\ m'.loop = "none"
  BY ZenonT(60), <1>1, <1>2 DEF Alike, Model
<1> QED
  BY <1>3, QuietKeeps DEF StopLoop, Update, Loops

LEMMA FireDueLoopKeeps == ASSUME IInv, FireDueLoop PROVE IInv'
<1> DEFINE lp == IF m.provider THEN "running" ELSE "dud"
           n == [m EXCEPT !.loop = lp, !.activeLoop = "this"]
<1>1. m' = LaunchPrompt(n)
  BY DEF FireDueLoop, Update
<1>2. lp \in {"running", "dud"} /\ (~m.provider => lp = "dud")
  OBVIOUS
<1> HIDE DEF lp
<1>3. /\ Alike(m, n) /\ n.modal = m.modal /\ n.review = m.review /\ n.provider = m.provider
      /\ n.loop = lp /\ n.activeLoop = "this"
  BY ZenonT(60), <1>2, ModelFacts DEF Alike, Model
<1> HIDE DEF n
<1>4. /\ Sound(n, at) /\ n.made = m.made /\ n.modal = "none" /\ ~n.review /\ ~n.quit /\ CanLaunch(n)
  BY <1>3, ModelFacts, SoundFrame DEF Alike, FireDueLoop, Typing, CanLaunch, HasRoom
<1>5. LET o == LaunchPrompt(n) IN
      /\ Sound(o, at)
      /\ o.made >= n.made
      /\ o.loop = n.loop /\ o.activeLoop = n.activeLoop
      /\ IF n.provider THEN o.active # None ELSE o = n
  BY <1>4, ModelFacts, LaunchPromptSound
<1>6. Loops(m')
  BY <1>1, <1>2, <1>3, <1>5 DEF Loops
<1> QED
  BY <1>1, <1>4, <1>5, <1>6, ModelKeeps DEF FireDueLoop, Update

LEMMA CompactKeeps == ASSUME IInv, Compact PROVE IInv'
<1>1. /\ m \in Model /\ m' = [m EXCEPT !.compacting = TRUE] /\ m.session # None /\ at' = at
      /\ compaction' = [at |-> "working", session |-> m.session, events |-> m.context]
  BY ModelFacts DEF Compact
<1>2. /\ Alike(m, m') /\ m'.modal = m.modal /\ m'.loop = m.loop /\ m'.activeLoop = m.activeLoop
      /\ m'.made = m.made
  BY ZenonT(60), <1>1 DEF Alike, Model
<1>3. Sound(m', at) /\ Loops(m')
  BY <1>2, ModelFacts, SoundFrame DEF Loops, Alike
<1>4. m.session \in 1..m.made /\ m.context \in Seq(Entries)
  BY <1>1, ModelFacts DEF Sound, ModelFits, Model, Sessions, None
<1>5. CompactionFits'
  BY <1>1, <1>2, <1>4 DEF CompactionFits
<1> QED
  BY <1>1, <1>3, <1>5 DEF IInv

LEMMA CompactReadsKeeps == ASSUME IInv, CompactReads PROVE IInv'
<1>1. PICK events \in {m.log[compaction.session], compaction.events} :
         compaction' = [compaction EXCEPT !.at = "read", !.events = events]
  BY DEF CompactReads
<1>2. compaction.session \in 1..m.made /\ compaction.events \in Seq(Entries)
  BY DEF CompactReads, IInv, CompactionFits
<1>3. events \in Seq(Entries)
  <2>1. m.log \in [Sessions -> Seq(Entries)] /\ m.made \in 0..MaxSessions
    BY ModelFacts DEF Model
  <2>2. compaction.session \in Sessions
    BY <1>2, <2>1, ModelFacts DEF Sessions, TuiRunsAssumption
  <2> QED
    BY <1>2, <2>1, <2>2
<1>4. m' = m /\ at' = at /\ compaction.at = "working"
  BY DEF CompactReads
<1>5. CompactionFits'
  BY <1>1, <1>2, <1>3, <1>4 DEF CompactionFits, IInv
<1> QED
  BY <1>4, <1>5 DEF IInv

LEMMA CompactResultKeeps == ASSUME IInv, CompactResult PROVE IInv'
<1>1. /\ m \in Model /\ at' = at /\ compaction.at # "none"
      /\ compaction' = [at |-> "none", session |-> None, events |-> <<>>]
      /\ compaction.session \in 1..m.made /\ compaction.events \in Seq(Entries)
  BY ModelFacts DEF CompactResult, IInv, CompactionFits
<1>2. CompactionFits'
  BY <1>1 DEF CompactionFits
<1>3. SUFFICES Sound(m', at) /\ Loops(m')
  BY <1>1, <1>2, <1>3 DEF IInv
<1>4. CASE m' = [m EXCEPT !.compacting = FALSE]
  <2>1. Alike(m, m') /\ m'.modal = m.modal /\ m'.loop = m.loop /\ m'.activeLoop = m.activeLoop
    BY ZenonT(60), <1>1, <1>4 DEF Alike, Model
  <2> QED
    BY <2>1, ModelFacts, SoundFrame DEF Loops, Alike
<1> DEFINE cs == compaction.session
           ce == compaction.events
           late == ce # m.log[cs]
           dist == IF cs = m.session THEN m.disturbed ELSE m.disturbed \cup ({m.active} \ {None})
<1>5. CASE m' = [m EXCEPT !.compacting = FALSE, !.session = cs, !.context = ce, !.late = late,
                          !.disturbed = dist]
  <2>1. /\ cs \in Sessions /\ cs # None /\ cs <= m.made /\ ce \in Seq(Entries) /\ late \in BOOLEAN
        /\ dist \in SUBSET Runs
    <3>1. m.made \in 0..MaxSessions /\ m.active \in Runs \cup {None} /\ m.disturbed \in SUBSET Runs
      BY <1>1 DEF Model
    <3> QED
      BY <1>1, <3>1, ModelFacts DEF Sessions, TuiRunsAssumption, None
  <2> HIDE DEF cs, ce, late, dist
  <2>2. /\ m' \in Model /\ m'.session = cs /\ m'.context = ce /\ m'.late = late /\ m'.disturbed = dist
        /\ m'.loop = m.loop /\ m'.activeLoop = m.activeLoop
        /\ m'.runs = m.runs /\ m'.active = m.active /\ m'.contexts = m.contexts /\ m'.flush = m.flush
        /\ m'.log = m.log /\ m'.made = m.made /\ m'.review = m.review /\ m'.modal = m.modal
        /\ m'.exiting = m.exiting /\ m'.quit = m.quit /\ m'.home = m.home /\ m'.cut = m.cut
    BY ZenonT(60), <1>1, <1>5, <2>1 DEF Model
  <2>3. ModelFits(m', at)
    BY <2>1, <2>2, ModelFacts DEF Sound, ModelFits
  <2>4. Answered(m', at) /\ Loops(m')
    BY <2>2, ModelFacts DEF Sound, Answered, Loops
  <2>5. Remembered(m')
    BY <2>1, <2>2 DEF Remembered, late
  <2>6. Reaches(m', at)
    <3> SUFFICES ASSUME NEW r \in 1..m.runs, r \notin dist
                 PROVE  Reached(m', at, r)
      BY <2>2 DEF Reaches
    <3>1. r \notin m.disturbed /\ (r = m.active => cs = m.session)
      BY DEF dist, None
    <3>2. Reached(m, at, r)
      BY <3>1, ModelFacts DEF Sound, Reaches
    <3> QED
      BY <2>2, <3>1, <3>2 DEF Reached
  <2> QED
    BY <2>3, <2>4, <2>5, <2>6 DEF Sound
<1> QED
  BY <1>4, <1>5 DEF CompactResult

LEMMA NextKeepsIInv == IInv /\ [Next]_vars => IInv'
<1> SUFFICES ASSUME IInv, [Next]_vars PROVE IInv'
  OBVIOUS
<1>1. CASE \/ Configure \/ Submit \/ InitCommand \/ SpecCommand \/ ApproveSpec \/ RejectSpec
           \/ Escape \/ Interrupt \/ Exit \/ Answer
  BY <1>1, ConfigureKeeps, SubmitKeeps, InitCommandKeeps, SpecCommandKeeps, ApproveSpecKeeps,
     RejectSpecKeeps, EscapeKeeps, InterruptKeeps, ExitKeeps, AnswerKeeps
<1>2. CASE NewSession \/ (\E s \in Sessions : Resume(s)) \/ Rewind \/ StartLoop \/ StopLoop \/ FireDueLoop
  BY <1>2, NewSessionKeeps, ResumeKeeps, RewindKeeps, StartLoopKeeps, StopLoopKeeps, FireDueLoopKeeps
<1>3. CASE Compact \/ CompactReads \/ CompactResult
  BY <1>3, CompactKeeps, CompactReadsKeeps, CompactResultKeeps
<1>4. ASSUME NEW r \in Runs, Ask(r) \/ GoOn(r) PROVE IInv'
  BY <1>4, AskKeeps, RequestKeeps, UnparkKeeps, FinishKeeps, ResponseKeeps DEF GoOn
<1>5. CASE UNCHANGED vars
  BY <1>5 DEF vars, IInv, CompactionFits
<1> QED
  BY <1>1, <1>2, <1>3, <1>4, <1>5 DEF Next

LEMMA Inductive == Spec => []IInv
<1>1. Init => IInv
  BY InitIInv
<1>2. IInv /\ [Next]_vars => IInv'
  BY NextKeepsIInv
<1> QED
  BY <1>1, <1>2, PTL DEF Spec

\* Whoever waits for something, a run for an answer, a loop for the end of its
\* iteration, waits for something that can still happen (permissionRequestMsg,
\* askUserRequestMsg, cancelRun, advanceLoop).
THEOREM NoWaitIsInVain == Spec => []NothingWaitsInVain
<1>1. IInv => NothingWaitsInVain
  <2> SUFFICES ASSUME IInv PROVE NothingWaitsInVain
    OBVIOUS
  <2>1. TypeOK
    BY ModelFacts DEF IInv, CompactionFits, TypeOK
  <2>2. RunsAreAnswered
    BY ModelFacts DEF Sound, Answered, RunsAreAnswered
  <2>3. LoopsAreNotStranded
    BY ModelFacts DEF Loops, LoopsAreNotStranded
  <2> QED
    BY <2>1, <2>2, <2>3 DEF NothingWaitsInVain
<1>2. Spec => []IInv
  BY Inductive
<1> QED
  BY <1>1, <1>2, PTL

\* The next prompt takes along what the log of its session says (sessionEvents).
THEOREM ContextStaysTheLog == Spec => []ContextIsTheLog
<1>1. IInv => ContextIsTheLog
  BY DEF IInv, Sound, Remembered, ContextIsTheLog
<1>2. Spec => []IInv
  BY Inductive
<1> QED
  BY <1>1, <1>2, PTL

\* What a run did reaches the log of the session it began in, once, and no other,
\* before the program quits (agentResponseMsg, flushRunIDs, quit).
THEOREM EventsComeHome == Spec => []EventsReachTheirSession
<1>1. IInv => EventsReachTheirSession
  <2> SUFFICES ASSUME IInv, NEW r \in 1..m.runs, r \notin m.disturbed
               PROVE  /\ \A s \in Sessions \ {m.home[r]} : \A i \in 1..Len(m.log[s]) : m.log[s][i][1] # r
                      /\ at[r] = "gone" /\ r \notin m.cut => Times(m.home[r], <<r, "events">>) = 1
                      /\ m.quit => at[r] = "gone"
    BY DEF EventsReachTheirSession
  <2>1. Reached(m, at, r)
    BY DEF IInv, Sound, Reaches
  <2>2. ASSUME at[r] = "gone", r \notin m.cut
        PROVE  Times(m.home[r], <<r, "events">>) = 1
    <3>1. PICK i \in Nat : Where(m.log[m.home[r]], <<r, "events">>) = {i}
      BY <2>1, <2>2 DEF Reached
    <3> QED
      BY <3>1, FS_Singleton DEF Times, Where
  <2> QED
    BY <2>1, <2>2 DEF Reached
<1>2. Spec => []IInv
  BY Inductive
<1> QED
  BY <1>1, <1>2, PTL

=============================================================================
