------------------------------- MODULE TuiRuns -------------------------------
(***************************************************************************)
(* The runs of the terminal interface, internal/tui: prompts, the queue,   *)
(* cancellation, dialogs, loops, sessions, compaction, rewind and exit.    *)
(*                                                                         *)
(* As in Bubble Tea, m is the model that Update replaces, one message at a *)
(* time; its handlers are functions of it.  The goroutine of each run is   *)
(* beside it, and that of a compaction: what they send is a message that   *)
(* Update handles later.  A session is what the store has of it: an entry  *)
(* for each prompt, for the events of each run, and for a cancellation.    *)
(* The side conversations of /btw, and stores that fail, are left out.     *)
(***************************************************************************)
EXTENDS Naturals, Sequences, FiniteSets

CONSTANTS MaxRuns,     \* bound on the runs
          MaxSessions  \* bound on the sessions

ASSUME TuiRunsAssumption == MaxRuns \in Nat \ {0} /\ MaxSessions \in Nat \ {0}

VARIABLES
    m,           \* the model
    at,          \* where each run's goroutine is
    compaction   \* the goroutine of /compact: its session, and what it has read

vars == <<m, at, compaction>>

Runs == 1..MaxRuns
Sessions == 1..MaxSessions
None == 0
Entries == Runs \X {"prompt", "events", "cancelled"}

Model ==
    [provider : BOOLEAN,                   \* a provider is configured
     runs : 0..MaxRuns,                    \* runID
     active : Runs \cup {None},            \* activeRunID, and pending when there is one
     contexts : SUBSET Runs,               \* runs whose context is cancelled
     flush : SUBSET (Runs \X Sessions),    \* flushRunIDs
     drafts : SUBSET Runs,                 \* runs that draft a spec
     session : Sessions \cup {None},       \* activeSession
     context : Seq(Entries),               \* sessionEvents
     log : [Sessions -> Seq(Entries)],     \* the store
     made : 0..MaxSessions,                \* sessions in it
     modal : {"none", "permission", "question"},  \* pendingPermission, pendingAskUser
     review : BOOLEAN,                     \* pendingSpecReview
     queued : BOOLEAN,                     \* queuedMessage
     compacting : BOOLEAN,                 \* compactInFlight
     loop : {"none", "waiting", "running", "dud"},  \* the loop of the session; the last two
                                           \* have no nextRunAt, a dud fired without a provider
     activeLoop : {"none", "this", "stopped"},
     exiting : BOOLEAN,
     quit : BOOLEAN,
     home : [Runs -> Sessions \cup {None}],  \* auxiliary: the session each run started in
     disturbed : SUBSET Runs,              \* auxiliary: see EventsReachTheirSession
     cut : SUBSET Runs,                    \* auxiliary: runs that a rewind has cut from a log
     late : BOOLEAN]                       \* auxiliary: see ContextIsTheLog

\* Type invariant.
TypeOK ==
    /\ m \in Model
    /\ at \in [Runs -> {"working", "asking", "waiting", "done", "gone"}]
    /\ compaction.at \in {"none", "working", "read"}

Init ==
    /\ \E provider \in BOOLEAN :
       m = [provider |-> provider, runs |-> 0, active |-> None, contexts |-> {}, flush |-> {}, drafts |-> {},
            session |-> None, context |-> <<>>, log |-> [s \in Sessions |-> <<>>], made |-> 0,
            modal |-> "none", review |-> FALSE, queued |-> FALSE, compacting |-> FALSE,
            loop |-> "none", activeLoop |-> "none", exiting |-> FALSE, quit |-> FALSE,
            home |-> [r \in Runs |-> None], disturbed |-> {}, cut |-> {}, late |-> FALSE]
    /\ at = [r \in Runs |-> "working"]
    /\ compaction = [at |-> "none", session |-> None, events |-> <<>>]

-----------------------------------------------------------------------------
(* Functions of the model.                                                 *)

\* As if what is recorded were always added to the events in memory.
RecordedAndRemembered(n, s, e) == [n EXCEPT !.log[s] = Append(@, e), !.context = Append(@, e)]

\* appendSessionEvent(s) and appendSessionEventsTo.
Recorded(n, s, e) ==
    [n EXCEPT !.log[s] = Append(@, e),
              !.context = IF s = n.session THEN Append(@, e) ELSE @]

\* beginRun: whatever ran is forgotten, not cancelled.
Begin(n) ==
    [n EXCEPT !.runs = @ + 1,
              !.active = n.runs + 1,
              !.home[n.runs + 1] = n.session,
              !.disturbed = @ \cup ({n.active} \ {None}) \cup (IF n.exiting THEN {n.runs + 1} ELSE {})]

HasRoom(n, sessions) == n.runs < MaxRuns /\ n.made + sessions <= MaxSessions

\* A session that a command creates.
InNewSession(n) == [n EXCEPT !.session = n.made + 1, !.made = @ + 1, !.context = <<>>, !.late = FALSE]

\* Without a provider the prompt is shown and no run begins.  ensureActiveSession
\* creates a session where there is none.
LaunchPrompt(n) ==
    LET o == IF n.session = None THEN InNewSession(n) ELSE n
    IN IF n.provider THEN Begin(Recorded(o, o.session, <<n.runs + 1, "prompt">>)) ELSE n

CanLaunch(n) == HasRoom(n, IF n.session = None THEN 1 ELSE 0)

LaunchQueued(n) ==
    IF n.queued /\ n.active = None /\ ~n.exiting /\ n.modal = "none" /\ ~n.review /\ CanLaunch(n)
    THEN LaunchPrompt([n EXCEPT !.queued = FALSE]) ELSE n

\* The loop whose iteration is cancelled waits for its next turn.
CancelRun(n) ==
    LET o == [n EXCEPT !.loop = IF n.activeLoop = "this" THEN "waiting" ELSE @,
                       !.activeLoop = "none"]
    IN IF n.active = None THEN o
       ELSE [Recorded(o, n.session, <<n.active, "cancelled">>) EXCEPT
                !.contexts = @ \cup {n.active},
                !.flush = @ \cup {<<n.active, n.session>>},
                !.active = None,
                !.modal = "none"]

\* The response of the active run, its loop advanced or ended.
Completed(n, loopEnds, review) ==
    LaunchQueued(
        [Recorded(n, n.session, <<n.active, "events">>) EXCEPT
            !.active = None,
            !.modal = "none",
            !.review = review,
            !.loop = IF n.activeLoop = "this" THEN (IF loopEnds THEN "none" ELSE "waiting") ELSE @,
            !.activeLoop = "none"])

\* As if the events went to the session that is now active.
FlushedToTheActive(n, r, s) ==
    LET flush == n.flush \ {<<r, s>>}
        to == IF n.session = None THEN s ELSE n.session
    IN [Recorded(n, to, <<r, "events">>) EXCEPT
           !.flush = flush,
           !.quit = n.exiting /\ flush = {}]

\* As if the deferred quit were forgotten.
FlushedWithoutQuit(n, r, s) ==
    [Recorded(n, s, <<r, "events">>) EXCEPT !.flush = @ \ {<<r, s>>}]

\* The response of a run that was cancelled in session s.
Flushed(n, r, s) ==
    LET flush == n.flush \ {<<r, s>>}
    IN [Recorded(n, s, <<r, "events">>) EXCEPT
           !.flush = flush,
           !.quit = n.exiting /\ flush = {}]

-----------------------------------------------------------------------------
(* The user.  A dialog or a review has the keyboard while it is there.     *)

Typing == ~m.quit /\ m.modal = "none" /\ ~m.review

Update(n) == m' = n /\ UNCHANGED <<at, compaction>>

\* A provider is chosen.
Configure == Typing /\ ~m.provider /\ Update([m EXCEPT !.provider = TRUE])

\* A prompt, a retry or a user's own command: queued while a run is active.
Submit ==
    /\ Typing /\ ~m.exiting
    /\ \/ /\ m.active # None
          /\ Update([m EXCEPT !.queued = TRUE])
       \/ /\ m.active = None /\ ~m.compacting /\ CanLaunch(m)
          /\ Update(LaunchPrompt(m))

\* /init does not look whether a run is active.
InitCommand ==
    /\ Typing /\ ~m.exiting /\ CanLaunch(m)
    /\ Update(LaunchPrompt(m))

SpecCommand ==
    /\ Typing /\ ~m.exiting /\ m.active = None /\ m.provider /\ HasRoom(m, 1)
    /\ LET n == InNewSession(m)
       IN Update([Begin(Recorded(n, n.session, <<m.runs + 1, "prompt">>)) EXCEPT !.drafts = @ \cup {m.runs + 1}])

\* The implementation of an approved spec runs in a session of its own.
ApproveSpec ==
    /\ ~m.quit /\ m.review /\ m.provider /\ HasRoom(m, 1)
    /\ LET n == InNewSession([m EXCEPT !.review = FALSE])
       IN Update(Begin(Recorded(n, n.session, <<m.runs + 1, "prompt">>)))

RejectSpec ==
    /\ ~m.quit /\ m.review
    /\ Update(LaunchQueued([m EXCEPT !.review = FALSE]))

\* Esc clears the queue first; twice more, it cancels the run.
Escape ==
    /\ ~m.quit /\ m.modal # "question" /\ ~m.review
    /\ \/ m.queued /\ Update([m EXCEPT !.queued = FALSE])
       \/ ~m.queued /\ m.active # None /\ Update(CancelRun(m))

\* Ctrl+C, once.
Interrupt == ~m.quit /\ Update(CancelRun(m))

\* Ctrl+C again, or /exit: what cancelled runs have to say is waited for.
Exit ==
    /\ ~m.quit
    /\ LET n == CancelRun(m)
       IN Update([n EXCEPT !.exiting = TRUE, !.quit = (n.flush = {})])

\* resolvePermission, submitAskUser.
Answer ==
    /\ ~m.quit /\ m.modal # "none"
    /\ m' = [m EXCEPT !.modal = "none"]
    /\ at' = [at EXCEPT ![m.active] = "working"]
    /\ UNCHANGED compaction

NewSession ==
    /\ Typing /\ m.active = None /\ ~m.compacting
    /\ Update([m EXCEPT !.session = None, !.context = <<>>, !.queued = FALSE, !.loop = "none",
                        !.activeLoop = "none", !.late = FALSE])

Resume(s) ==
    /\ Typing /\ m.active = None /\ s <= m.made
    /\ Update([m EXCEPT !.session = s, !.context = m.log[s], !.late = FALSE,
                        !.loop = IF s = m.session THEN @ ELSE "none",
                        !.activeLoop = IF s = m.session THEN @ ELSE "none"])

\* The log is cut after some entry, and read again.
Rewind ==
    /\ Typing /\ m.active = None /\ m.flush = {} /\ m.session # None
    /\ \E i \in 0..(Len(m.log[m.session]) - 1) :
          LET kept == SubSeq(m.log[m.session], 1, i)
          IN Update([m EXCEPT !.log[m.session] = kept, !.context = kept, !.late = FALSE,
                              !.cut = @ \cup {e[1] : e \in {m.log[m.session][j] : j \in (i + 1)..Len(m.log[m.session])}}])

StartLoop == Typing /\ m.loop = "none" /\ Update([m EXCEPT !.loop = "waiting"])

StopLoop ==
    /\ Typing /\ m.loop # "none"
    /\ Update([m EXCEPT !.loop = "none", !.activeLoop = IF @ = "this" THEN "stopped" ELSE @])

\* A loop is due, and nothing else is going on.
FireDueLoop ==
    /\ Typing /\ m.loop = "waiting" /\ CanLaunch(m)
    /\ m.active = None /\ ~m.exiting /\ ~m.compacting /\ ~m.queued
    /\ Update(LaunchPrompt([m EXCEPT !.loop = IF m.provider THEN "running" ELSE "dud", !.activeLoop = "this"]))

-----------------------------------------------------------------------------
(* /compact looks at nothing but another compaction.                       *)

Compact ==
    /\ Typing /\ ~m.compacting /\ m.session # None
    /\ m' = [m EXCEPT !.compacting = TRUE]
    /\ compaction' = [at |-> "working", session |-> m.session, events |-> m.context]
    /\ UNCHANGED at

\* The end of compactActiveSession: the session is read back, or nothing was to
\* be compacted and the events are those of the model that asked for it.
CompactReads ==
    /\ compaction.at = "working" /\ ~m.quit
    /\ \E events \in {m.log[compaction.session], compaction.events} :
          compaction' = [compaction EXCEPT !.at = "read", !.events = events]
    /\ UNCHANGED <<m, at>>

\* compactResultMsg: session and events are what the goroutine has seen.
CompactResult ==
    /\ compaction.at # "none" /\ ~m.quit
    /\ \/ m' = [m EXCEPT !.compacting = FALSE]
       \/ /\ compaction.at = "read"
          /\ m' = [m EXCEPT !.compacting = FALSE,
                            !.session = compaction.session,
                            !.context = compaction.events,
                            !.late = (compaction.events # m.log[compaction.session]),
                            !.disturbed = IF compaction.session = m.session THEN @ ELSE @ \cup ({m.active} \ {None})]
    /\ compaction' = [at |-> "none", session |-> None, events |-> <<>>]
    /\ UNCHANGED at

-----------------------------------------------------------------------------
(* The goroutines of runs, and what Update does with their messages.       *)

Started(r, where) == r <= m.runs /\ at[r] = where /\ ~m.quit
Goes(r, to) == at' = [at EXCEPT ![r] = to]

\* A permission or a question: the message is sent, then an answer is waited for.
Ask(r) ==
    /\ Started(r, "working") /\ r \notin m.contexts
    /\ Goes(r, "asking") /\ UNCHANGED <<m, compaction>>

\* As if the request of a run that is not active were dropped.
RequestDropped(r) ==
    /\ Started(r, "asking")
    /\ Goes(r, "waiting")
    /\ IF r = m.active THEN \E kind \in {"permission", "question"} : m' = [m EXCEPT !.modal = kind]
       ELSE UNCHANGED m
    /\ UNCHANGED compaction

\* The request of a run that is not active, or that nobody need see, is answered at once.
Request(r) ==
    /\ Started(r, "asking")
    /\ \/ /\ Goes(r, "working") /\ UNCHANGED m
       \/ /\ r = m.active
          /\ Goes(r, "waiting")
          /\ \E kind \in {"permission", "question"} : m' = [m EXCEPT !.modal = kind]
    /\ UNCHANGED compaction

\* ctx.Done.
Unpark(r) ==
    /\ Started(r, "waiting") /\ r \in m.contexts
    /\ Goes(r, "working") /\ UNCHANGED <<m, compaction>>

Finish(r) ==
    /\ Started(r, "working")
    /\ Goes(r, "done") /\ UNCHANGED <<m, compaction>>

\* agentResponseMsg.  That of a run neither active nor cancelled is dropped.
Response(r) ==
    /\ Started(r, "done")
    /\ Goes(r, "gone")
    /\ \/ /\ r = m.active
          /\ \E loopEnds \in BOOLEAN, review \in (IF r \in m.drafts THEN BOOLEAN ELSE {FALSE}) :
                m' = Completed(m, loopEnds, review)
       \/ \E f \in m.flush : f[1] = r /\ m' = Flushed(m, r, f[2])
       \/ r # m.active /\ (\A f \in m.flush : f[1] # r) /\ UNCHANGED m
    /\ UNCHANGED compaction

GoOn(r) == Request(r) \/ Unpark(r) \/ Finish(r) \/ Response(r)

-----------------------------------------------------------------------------

Next ==
    \/ Configure \/ Submit \/ InitCommand \/ SpecCommand \/ ApproveSpec \/ RejectSpec
    \/ Escape \/ Interrupt \/ Exit \/ Answer
    \/ NewSession \/ (\E s \in Sessions : Resume(s)) \/ Rewind
    \/ StartLoop \/ StopLoop \/ FireDueLoop
    \/ Compact \/ CompactReads \/ CompactResult
    \/ \E r \in Runs : Ask(r) \/ GoOn(r)

\* Goroutines go on and messages are handled; the user need not do anything.
Spec == Init /\ [][Next]_vars /\ \A r \in Runs : WF_vars(GoOn(r))

-----------------------------------------------------------------------------
(* Properties.                                                             *)

\* "Dropping a request without resolving parks the run forever": a run that
\* waits has a dialog on the screen or a cancelled context, and no dialog
\* outlives the run it asks for.
RunsAreAnswered ==
    /\ \A r \in Runs : at[r] = "waiting" => r \in m.contexts \/ (r = m.active /\ m.modal # "none")
    /\ m.modal # "none" => m.active # None /\ at[m.active] = "waiting"

Times(s, e) == Cardinality({i \in 1..Len(m.log[s]) : m.log[s][i] = e})

\* What a run did is recorded once, in the session it started in, also when it
\* was cancelled and another session is active by then, and the program does not
\* quit before: except for the runs that /init put aside, those under which a
\* compaction changed the session, and those started while the program exits.
EventsReachTheirSession ==
    \A r \in 1..m.runs : r \notin m.disturbed =>
        /\ \A s \in Sessions \ {m.home[r]} : \A i \in 1..Len(m.log[s]) : m.log[s][i][1] # r
        /\ at[r] = "gone" /\ r \notin m.cut => Times(m.home[r], <<r, "events">>) = 1
        /\ m.quit => at[r] = "gone"

\* The events in memory, which the next prompt takes along, are those of the
\* active session, unless a compaction brought a copy that was out of date.
ContextIsTheLog == m.late \/ m.context = (IF m.session = None THEN <<>> ELSE m.log[m.session])

\* A loop that waits for its iteration to end is the one that the end of a run
\* advances, and there is such a run, unless a loop fired without a provider:
\* "otherwise the loop is left running forever".
LoopsAreNotStranded ==
    /\ m.loop \in {"running", "dud"} => m.activeLoop = "this"
    /\ m.loop = "running" => m.active # None

\* What waits, a run or a loop, waits for something that can still happen.
NothingWaitsInVain == TypeOK /\ RunsAreAnswered /\ LoopsAreNotStranded

\* The quit that waits for cancelled runs comes.
ExitCompletes == m.exiting ~> m.quit

-----------------------------------------------------------------------------
(* Claims that the code refutes.                                           *)

\* /init during a run: its context is not cancelled and its events are dropped.
NoRunIsPutAside == \A r \in 1..m.runs : at[r] # "gone" => r = m.active \/ r \in m.contexts

\* A loop that fires without a provider has no iteration; the next prompt counts
\* as one.
LoopsRun == m.loop # "dud"

\* A compaction under way undoes a /resume, or a /spec that has started a run.
SessionsAreNotSwapped == [][m'.session # m.session => ~compaction.at = "read"]_vars
==============================================================================
