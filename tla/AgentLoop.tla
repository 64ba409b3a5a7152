------------------------------ MODULE AgentLoop ------------------------------
(***************************************************************************)
(* One run of the agent (internal/agent): the turn loop that sends the     *)
(* transcript to the model, collects the streamed reply, runs the tools it *)
(* asks for and appends their results, with its recoveries: compaction of  *)
(* a transcript that grew too long, the retry of a stalled stream, guards  *)
(* against loops, and cancellation.  The model and the tools are           *)
(* nondeterministic.  Message text is left out; token counts decide only   *)
(* whether to compact, so that decision is nondeterministic too, except    *)
(* for pruning, which depends on which tool results are large.             *)
(***************************************************************************)
EXTENDS Naturals, Sequences, FiniteSets

CONSTANTS MaxTurns,     \* turn ceiling of the run
          RaisedTurns,  \* ceiling after the posture escalation
          MaxCalls,     \* bound: tool calls of one reply
          MaxStalls,    \* maxStreamStallRetries
          MaxEmpty,     \* maxEmptyTurns
          HintAt,       \* toolFailureHintAt
          StopAt,       \* toolFailureStopAt
          MaxRework,    \* maxFileReworkPasses
          MaxNudges,    \* maxContinueNudges
          PreserveLast, \* messages that compaction keeps
          PruneKeep,    \* Options.CompactionPreserveLast as pruning sees it
          Protect,      \* large results that pruning spares, the newest ones
          MinReclaim,   \* large results that make pruning worth it
          Bodies,       \* sizes of a tool result that pruning tells apart
          Gated,        \* Options.RequireCompletionSignal
          Cancels       \* may the run be cancelled?

ASSUME AgentAssumption ==
    /\ {MaxTurns, RaisedTurns, MaxStalls, MaxRework, MaxNudges, PruneKeep} \subseteq Nat
    /\ {MaxCalls, MaxEmpty, StopAt, PreserveLast, MinReclaim} \subseteq Nat \ {0}
    /\ MaxTurns <= RaisedTurns /\ Bodies \subseteq {"small", "large"} /\ Gated \in BOOLEAN /\ Cancels \in BOOLEAN

VARIABLES pc,        \* where the loop is
          messages,  \* the transcript
          turn,      \* turns begun
          ceiling,   \* maxTurns
          gate,      \* options.RequireCompletionSignal
          guards,    \* guardState, reactiveAttempted and the other one-shot flags
          diag,      \* are edits being checked in the background?
          cancelled, \* ctx.Err() /= nil
          collected, \* the collected stream
          attempt,   \* stall retries of this turn
          forwarded, \* forwardedVisibleText
          batch,     \* progress through the tool calls of the reply
          shown,     \* history: streams of this turn whose prose the user saw
          late,      \* history: tool executions begun after the cancellation
          result

vars == <<pc, messages, turn, ceiling, gate, guards, diag, cancelled, collected,
          attempt, forwarded, batch, shown, late, result>>

-----------------------------------------------------------------------------
(* The transcript.  A tool call is named by its turn and its place.        *)

System == [role |-> "system"]
User == [role |-> "user"]
Assistant(t, n) == [role |-> "assistant", turn |-> t, calls |-> n]
ToolResult(t, c, body) == [role |-> "tool", turn |-> t, call |-> c, body |-> body]
IsTool(m) == m.role = "tool"
Notes(n) == [i \in 1..n |-> User]
One(b) == IF b THEN 1 ELSE 0

\* appendAbortedToolResults: the calls from c to n get a placeholder.
Aborted(t, c, n) == [i \in 1..(n + 1 - c) |-> ToolResult(t, c + i - 1, "aborted")]

\* Mutant of Boundary: the suffix is not widened to the start of a turn.
NaiveBoundary(ms) == IF Len(ms) > PreserveLast THEN Len(ms) - PreserveLast ELSE 1

\* safeSuffixBoundary: the messages up to it are cut; 1 (system) cuts none.
Boundary(ms) ==
    LET naive == IF Len(ms) > PreserveLast THEN Len(ms) - PreserveLast ELSE 1
        safe == {b \in 2..naive : ms[b + 1].role = "assistant"}
    IN  IF safe = {} THEN 1 ELSE CHOOSE b \in safe : \A c \in safe : c <= b

CanCompact(ms) == Boundary(ms) > 1
Compact(ms) == <<System, User>> \o SubSeq(ms, Boundary(ms) + 1, Len(ms))

\* pruneStaleToolOutput: the large results that enough newer ones follow.
Large(m) == IsTool(m) /\ m.body = "large"
Stale(ms) == {i \in 1..(Len(ms) - PruneKeep) :
                /\ Large(ms[i])
                /\ Cardinality({j \in (i + 1)..Len(ms) : Large(ms[j])}) >= Protect}
Prune(ms) == IF Cardinality(Stale(ms)) < MinReclaim THEN ms
             ELSE [i \in DOMAIN ms |-> IF i \in Stale(ms) THEN [ms[i] EXCEPT !.body = "pruned"]
                                                          ELSE ms[i]]

-----------------------------------------------------------------------------
Kinds == {"read", "solo"} \* parallelSafeToolCall or not; it stands for the tool's name
Errors == {"image", "limit", "stall", "cancel", "other"}
Calls == UNION {[1..n -> Kinds] : n \in 0..MaxCalls}
\* What CollectStreamWithOptions can return: a cancelled context may cut the
\* stream, and a stream with an error may have begun a call.
Streams ==
    [error : {"none"}, text : {"none", "blank", "prose"}, calls : {<<>>}, dropped : BOOLEAN]
    \cup [error : {"none"}, text : {"none", "prose"}, calls : Calls \ {<<>>}, dropped : BOOLEAN]
    \cup [error : IF cancelled THEN Errors ELSE Errors \ {"cancel"}, text : {"none", "prose"},
          calls : {<<>>, <<"solo">>}, dropped : {FALSE}]

NoStream == [error |-> "none", text |-> "none", calls |-> <<>>, dropped |-> FALSE]
NoBatch == [index |-> 1, ahead |-> 1, ran |-> <<>>, edited |-> FALSE, hint |-> FALSE]
NoResult == [err |-> "none", stop |-> "none", incomplete |-> FALSE]

Init ==
    /\ pc = "turn" /\ messages = <<System, User>>
    /\ turn = 0 /\ ceiling = MaxTurns /\ gate = Gated
    /\ guards = [reactive |-> FALSE, escalated |-> FALSE, empty |-> 0, nudges |-> 0,
                 checked |-> FALSE, fails |-> [k \in Kinds |-> 0], touched |-> 0]
    /\ diag = FALSE /\ cancelled = FALSE
    /\ collected = NoStream /\ attempt = 0 /\ forwarded = FALSE
    /\ batch = NoBatch /\ shown = 0 /\ late = 0 /\ result = NoResult

streamVars == <<collected, attempt, forwarded, shown>>
runVars == <<turn, ceiling, gate, diag, cancelled, late>>
idle == UNCHANGED <<runVars, streamVars, batch>>

\* The return of Run; the transcript is returned as it is.
Return(err, stop, incomplete) ==
    /\ pc' = "done" /\ result' = [err |-> err, stop |-> stop, incomplete |-> incomplete]
Go(p) == pc' = p /\ UNCHANGED result

\* ctx ends.
Cancel ==
    /\ Cancels /\ ~cancelled /\ pc /= "done" /\ cancelled' = TRUE
    /\ UNCHANGED <<pc, messages, turn, ceiling, gate, guards, diag, streamVars, batch, late, result>>

-----------------------------------------------------------------------------
(* The top of a turn *)

\* The diagnostics of earlier edits may be ready, and be a nudge.
BeginTurn ==
    /\ pc = "turn" /\ turn < ceiling /\ turn' = turn + 1
    /\ \E nudge \in {FALSE, diag} :
        /\ messages' = messages \o Notes(One(nudge))
        /\ diag' \in IF nudge THEN {FALSE} ELSE {FALSE, diag}
    /\ Go("compact")
    /\ UNCHANGED <<ceiling, gate, guards, cancelled, late, streamVars, batch>>

\* maybeCompact: under the threshold, pruned, or pruned and summarized.
MaybeCompact ==
    /\ pc = "compact"
    /\ \/ UNCHANGED messages
       \/ messages' = Prune(messages)
       \/ CanCompact(messages) /\ messages' = Compact(Prune(messages))
    /\ Go("connect") /\ idle /\ UNCHANGED guards

\* compactionState.recover with a summary that shrinks the transcript ...
Recover(next) ==
    /\ ~guards.reactive /\ CanCompact(messages)
    /\ messages' = Compact(messages) /\ guards' = [guards EXCEPT !.reactive = TRUE]
    /\ Go(next)
\* ... and with a summarizer that fails, perhaps because ctx has ended.
RecoverFails ==
    /\ ~guards.reactive /\ CanCompact(messages)
    /\ guards' = [guards EXCEPT !.reactive = TRUE]
    /\ \E e \in {"error"} \cup (IF cancelled THEN {"cancel text"} ELSE {}) : Return(e, "none", FALSE)
    /\ UNCHANGED messages

\* streamWithReconnect fails.  An error of a cancelled context wraps it.
ConnectFails == \E e \in {"error"} \cup (IF cancelled THEN {"cancelled"} ELSE {}) : Return(e, "none", FALSE)

Connect ==
    /\ pc = "connect"
    /\ \/ (Go("stream") \/ ConnectFails) /\ UNCHANGED <<messages, guards>>
       \/ Recover("reconnect") \/ RecoverFails
    /\ idle

Reconnect ==
    /\ pc = "reconnect" /\ (Go("stream") \/ ConnectFails)
    /\ idle /\ UNCHANGED <<messages, guards>>

-----------------------------------------------------------------------------
(* The reply *)

\* A stream with the user's callbacks: the first one and the stall retries.
Stream ==
    /\ pc = "stream" /\ collected' \in Streams
    /\ forwarded' = (forwarded \/ collected'.text /= "none")
    /\ shown' = shown + One(collected'.text /= "none")
    /\ Go(IF attempt > 0 THEN "stall" ELSE IF collected'.error = "none" THEN "checked" ELSE "first")
    /\ UNCHANGED <<messages, runVars, guards, attempt, batch>>

\* recoverStreamError on the error of the first stream, and once more on what
\* is left after the stall retries; the second time an error ends the run.
FirstError ==
    /\ pc = "first"
    /\ \/ collected.error = "image" /\ Return("error", "none", FALSE) /\ UNCHANGED <<messages, guards>>
       \/ collected.error = "limit" /\ (Recover("reissue") \/ RecoverFails)
       \/ collected.error /= "image" /\ Go("checked") /\ UNCHANGED <<messages, guards>>
    /\ idle

LastError ==
    /\ pc = "last"
    /\ \/ collected.error = "limit" /\ (Recover("reissueLast") \/ RecoverFails)
       \/ /\ Return(IF collected.error = "cancel" THEN "cancel text" ELSE "error", "none", FALSE)
          /\ UNCHANGED <<messages, guards>>
    /\ idle

\* The stream sent after a compaction has no visible callbacks.
Reissue ==
    /\ pc \in {"reissue", "reissueLast"}
    /\ \/ /\ collected' \in Streams
          /\ IF pc = "reissue" THEN Go("checked")
             ELSE IF collected'.error = "none" THEN Go("reply")
             ELSE Return(IF collected'.error = "cancel" THEN "cancel text" ELSE "error", "none", FALSE)
       \/ ConnectFails /\ UNCHANGED collected
    /\ UNCHANGED <<messages, runVars, guards, attempt, forwarded, batch, shown>>

CheckContext ==
    /\ pc = "checked"
    /\ IF cancelled THEN Return("cancelled", "none", FALSE) ELSE Go("stall")
    /\ idle /\ UNCHANGED <<messages, guards>>

\* Mutants of RetriesStall and StallRetry: retry whatever was shown; never count.
RetriesAnyStall == attempt < MaxStalls /\ collected.error = "stall"

StallRetryUncounted ==
    /\ pc = "stall" /\ collected.error = "stall" /\ ~forwarded /\ collected.text = "none"
    /\ Go("stream") /\ idle /\ UNCHANGED <<messages, guards>>

RetriesStall == attempt < MaxStalls /\ collected.error = "stall" /\ ~forwarded /\ collected.text = "none"

\* The backoff ends early when ctx does.
StallRetry ==
    /\ pc = "stall" /\ RetriesStall /\ attempt' = attempt + 1
    /\ \/ cancelled /\ Return("cancelled", "none", FALSE)
       \/ Go("stream")
       \/ ConnectFails
    /\ UNCHANGED <<messages, runVars, guards, collected, forwarded, shown, batch>>

StallEnds ==
    /\ pc = "stall" /\ ~RetriesStall
    /\ Go(IF collected.error = "none" THEN "reply" ELSE "last")
    /\ idle /\ UNCHANGED <<messages, guards>>

-----------------------------------------------------------------------------
(* The end of a turn without tool calls *)

Replied == Append(messages, Assistant(turn, Len(collected.calls)))
TextOnly == pc = "reply" /\ collected.calls = <<>>
\* The variables of the turn go out of scope.
TurnOver ==
    /\ collected' = NoStream /\ attempt' = 0 /\ forwarded' = FALSE /\ shown' = 0
    /\ batch' = NoBatch /\ Go("turn")
Nudged == messages' = Append(Replied, User) /\ TurnOver
Ends(stop, incomplete) ==
    messages' = Replied /\ Return("none", stop, incomplete) /\ UNCHANGED <<streamVars, batch>>

Dropped ==
    /\ TextOnly /\ collected.dropped
    /\ Nudged /\ UNCHANGED <<runVars, guards>>

\* observeTurn on a turn without prose; reasoning alone resets the count.
EmptyTurn ==
    /\ TextOnly /\ ~collected.dropped /\ collected.text /= "prose"
    /\ \E reasoned \in BOOLEAN :
        LET n == IF reasoned THEN 0 ELSE guards.empty + 1
        IN  /\ guards' = [guards EXCEPT !.empty = n]
            /\ IF n >= MaxEmpty THEN Ends("no output", FALSE) ELSE Nudged
    /\ UNCHANGED runVars

Prose == TextOnly /\ ~collected.dropped /\ collected.text = "prose"

\* completionPolicy.evaluate: the text admits failure, or announces a next step
\* when the nudges are spent.
Incomplete ==
    /\ Prose /\ gate /\ Ends("none", TRUE)
    /\ guards' = [guards EXCEPT !.empty = 0] /\ UNCHANGED runVars

\* applyPosture: an armed trigger fires once.
Escalates(g) ==
    \/ /\ ~g.escalated /\ guards' = [g EXCEPT !.escalated = TRUE]
       /\ ceiling' = IF RaisedTurns > ceiling THEN RaisedTurns ELSE ceiling
       /\ gate' \in {gate, TRUE}
    \/ guards' = g /\ UNCHANGED <<ceiling, gate>>

Uncertain ==
    /\ Prose /\ gate
    /\ \/ /\ guards.nudges < MaxNudges
          /\ Escalates([guards EXCEPT !.empty = 0, !.nudges = @ + 1])
       \/ ~guards.checked /\ Escalates([guards EXCEPT !.empty = 0, !.checked = TRUE])
    /\ Nudged
    /\ UNCHANGED <<turn, diag, cancelled, late>>

\* The final answer, unless diagnostics that were still running are a nudge.
Settle ==
    /\ Prose /\ guards' = [guards EXCEPT !.empty = 0]
    /\ diag' = FALSE
    /\ \/ diag /\ Nudged
       \/ Ends("settled", FALSE)
    /\ UNCHANGED <<turn, ceiling, gate, cancelled, late>>

-----------------------------------------------------------------------------
(* The tool calls of a turn *)

NCalls == Len(collected.calls)

BeginBatch ==
    /\ pc = "reply" /\ NCalls > 0
    /\ messages' = Replied /\ guards' = [guards EXCEPT !.empty = 0]
    /\ batch' = NoBatch /\ Go("tools")
    /\ UNCHANGED <<runVars, streamVars>>

\* extendParallelRun: calls from i that may run concurrently; resource keys can
\* end the run before a call that is not a read does.
ParallelEnds(i) == {e \in (i + 1)..(NCalls + 1) : \A c \in i..(e - 1) : collected.calls[c] = "read"}

\* Mutant of Execute: a call that ran ahead runs again.
ExecuteAgain ==
    /\ pc = "tools"
    /\ \E end \in ParallelEnds(batch.index) \cup {batch.index + 1} :
        batch' = [batch EXCEPT !.ahead = end, !.ran = Append(@, batch.index..(end - 1))]
    /\ late' = late + One(cancelled) /\ Go("result")
    /\ UNCHANGED <<messages, turn, ceiling, gate, guards, diag, cancelled, streamVars>>

\* A call, or the run of reads that it starts, is executed.
Execute ==
    /\ pc = "tools" /\ batch.index >= batch.ahead
    /\ \E end \in ParallelEnds(batch.index) \cup {batch.index + 1} :
        batch' = [batch EXCEPT !.ahead = end, !.ran = Append(@, batch.index..(end - 1))]
    /\ late' = late + One(cancelled) /\ Go("result")
    /\ UNCHANGED <<messages, turn, ceiling, gate, guards, diag, cancelled, streamVars>>

\* The result of a call that ran ahead is taken.
Precomputed ==
    /\ pc = "tools" /\ batch.index < batch.ahead
    /\ Go("result") /\ idle /\ UNCHANGED <<messages, guards>>

\* observeToolResult: failures of the tool in a row, with the same error.
Failures(kind, outcome) ==
    CASE outcome = "fails again" -> guards.fails[kind] + 1
      [] outcome = "fails anew" -> 1
      [] OTHER -> 0

\* The result is recorded; the rest of the batch is closed out when it ends the run.
Record(body) == Append(messages, ToolResult(turn, batch.index, body))
CloseOut(body) == messages' = Record(body) \o Aborted(turn, batch.index + 1, NCalls)
Stops(n) == n >= StopAt

Solo == collected.calls[batch.index] = "solo"

\* A canceled ask_user prompt aborts the run, and so does a context that has ended.
Abort ==
    /\ pc = "result" /\ (cancelled \/ Solo)
    /\ \E body \in Bodies : CloseOut(body)
    /\ Return("cancelled", "none", FALSE)
    /\ idle /\ UNCHANGED guards

Result(outcome, body) ==
    LET kind == collected.calls[batch.index]
        n == Failures(kind, outcome)
    IN  /\ pc = "result" /\ ~cancelled
        /\ outcome = "edits" => kind = "solo"
        /\ guards' = [guards EXCEPT !.fails[kind] = n]
        /\ IF Stops(n)
           THEN /\ CloseOut(body) /\ Return("none", "tool failure", FALSE)
                /\ UNCHANGED <<batch, diag>>
           ELSE /\ messages' = Record(body)
                /\ batch' = [batch EXCEPT !.index = @ + 1, !.edited = @ \/ outcome = "edits",
                                          !.hint = @ \/ n = HintAt]
                /\ diag' = (diag \/ outcome = "edits")
                /\ Go(IF batch.index = NCalls THEN "after" ELSE "tools")
        /\ UNCHANGED <<turn, ceiling, gate, cancelled, late, streamVars>>

\* A result that asks for a review of the specification ends the run.
SpecReview ==
    /\ pc = "result" /\ ~cancelled /\ Solo
    /\ CloseOut("small") /\ Return("none", "spec review", FALSE)
    /\ idle /\ UNCHANGED guards

Outcomes == {"succeeds", "edits", "fails anew", "fails again"}

\* After the batch: self-correction, the convergence guard, a failed switch of
\* the model, then the notice of dropped calls and a hint or a reminder.
AfterBatch ==
    /\ pc = "after"
    /\ \E feedback \in {FALSE, batch.edited}, switchFailed \in BOOLEAN, reminder \in {batch.hint, TRUE} :
        LET touched == guards.touched + One(batch.edited)
            g == [guards EXCEPT !.touched = touched]
            told == One(feedback) + One(switchFailed) + One(collected.dropped) + One(reminder)
        IN  IF batch.edited /\ touched > MaxRework
            THEN /\ messages' = messages \o Notes(One(feedback))
                 /\ Return("none", "stalled", FALSE)
                 /\ guards' = g /\ UNCHANGED <<ceiling, gate, streamVars, batch>>
            ELSE /\ messages' = messages \o Notes(told)
                 /\ TurnOver /\ Escalates(g)
    /\ UNCHANGED <<turn, diag, cancelled, late>>

-----------------------------------------------------------------------------
(* The ceiling *)

\* Late diagnostics, and finalAnswerAfterMaxTurns: one more request, whose
\* answer may be missing.
Ceiling ==
    /\ pc = "turn" /\ turn >= ceiling
    /\ \/ cancelled /\ Return("cancelled", "none", FALSE) /\ UNCHANGED <<messages, diag>>
       \/ /\ ~cancelled /\ diag' = FALSE
          /\ \E nudge \in {FALSE, diag} :
              \/ messages' = messages \o Notes(One(nudge)) \o <<User, Assistant(turn + 1, 0)>>
              \/ messages' = messages \o Notes(One(nudge))
          /\ Return("none", "ceiling", gate)
    /\ UNCHANGED <<turn, ceiling, gate, cancelled, late, streamVars, batch, guards>>

Loop ==
    \/ BeginTurn \/ MaybeCompact \/ Connect \/ Reconnect \/ Stream \/ FirstError \/ LastError
    \/ Reissue \/ CheckContext \/ StallRetry \/ StallEnds
    \/ Dropped \/ EmptyTurn \/ Incomplete \/ Uncertain \/ Settle
    \/ BeginBatch \/ Execute \/ Precomputed \/ Abort \/ SpecReview
    \/ \E outcome \in Outcomes, body \in Bodies : Result(outcome, body)
    \/ AfterBatch \/ Ceiling

Next == Loop \/ Cancel

Spec == Init /\ [][Next]_vars

\* The loop is a sequential function whose model and tools answer in the end.
FairSpec == Spec /\ WF_vars(Loop)

-----------------------------------------------------------------------------
(* Properties *)

\* The variables have their types, and the bounded counters their bounds
\* (attempt, the failure streaks, the nudges).
TypeOK ==
    /\ pc \in {"turn", "compact", "connect", "reconnect", "stream", "first", "checked", "stall", "last",
               "reissue", "reissueLast", "reply", "tools", "result", "after", "done"}
    /\ messages \in Seq([role : {"system", "user"}] \cup [role : {"assistant"}, turn : Nat, calls : 0..MaxCalls]
                        \cup [role : {"tool"}, turn : Nat, call : 1..MaxCalls,
                              body : {"small", "large", "pruned", "aborted"}])
    /\ turn \in 0..ceiling /\ ceiling \in {MaxTurns, RaisedTurns} /\ gate \in BOOLEAN
    /\ guards.empty \in 0..MaxEmpty /\ guards.nudges \in 0..MaxNudges
    /\ guards.fails \in [Kinds -> 0..StopAt]
    /\ diag \in BOOLEAN /\ cancelled \in BOOLEAN /\ forwarded \in BOOLEAN
    /\ attempt \in 0..MaxStalls

\* A strict provider rejects a transcript in which a tool call has no result
\* right after it, in order, or a result no call.  What is sent and what Run
\* returns has none of these, after compactions, aborts and nudges as well.
Replayable(ms) ==
    /\ ms[1] = System /\ ms[2] = User
    /\ \A i \in DOMAIN ms :
        /\ ms[i].role = "assistant" =>
            \A c \in 1..ms[i].calls :
                /\ i + c <= Len(ms) /\ IsTool(ms[i + c])
                /\ ms[i + c].turn = ms[i].turn /\ ms[i + c].call = c
        /\ IsTool(ms[i]) =>
            /\ ms[i].call < i /\ ms[i - ms[i].call].role = "assistant"
            /\ ms[i - ms[i].call].turn = ms[i].turn /\ ms[i - ms[i].call].calls >= ms[i].call

\* What agent.Run sends and what it returns (Result.Messages, which callers
\* resume from) is replayable.
RequestsReplay ==
    /\ TypeOK
    /\ pc \in {"connect", "reconnect", "stream", "reissue", "reissueLast", "stall", "turn", "done"}
          => Replayable(messages)

\* Stall retries and the reissue after a compaction never show the user the
\* prose of one turn twice.
TextShownOnce == shown <= 1

\* The calls of a reply run once each, and only reads run side by side: what a
\* read follows has ended before it starts.
ToolsRunInOrder ==
    \A p \in DOMAIN batch.ran :
        /\ Cardinality(batch.ran[p]) > 1 => \A c \in batch.ran[p] : collected.calls[c] = "read"
        /\ \A q \in 1..(p - 1) : \A c \in batch.ran[p], d \in batch.ran[q] : d < c

\* The model is told that a call was aborted only if it did not run, as far as
\* calls with effects go.
Ran(c) == \E p \in DOMAIN batch.ran : c \in batch.ran[p]
ToldAborted(c) == \E i \in DOMAIN messages : messages[i] = ToolResult(turn, c, "aborted")

\* So a call with effects that carries the placeholder of the abort path has
\* not been executed.
AbortedEffectsNeverRan ==
    \A c \in DOMAIN collected.calls : ToldAborted(c) /\ collected.calls[c] = "solo" => ~Ran(c)

\* "never executed", says the comment of the placeholder about every call.
AbortedCallsNeverRan == \A c \in DOMAIN collected.calls : ToldAborted(c) => ~Ran(c)

\* No compaction takes away a tool result that no request has carried yet: the
\* results after the last reply.
Unsent == {i \in DOMAIN messages :
             IsTool(messages[i]) /\ \A j \in (i + 1)..Len(messages) : messages[j].role /= "assistant"}

\* maybeCompact and the reactive compaction keep every one of them.
FreshResultsAreKept ==
    [][\A i \in Unsent : \E j \in DOMAIN messages' :
          IsTool(messages'[j]) /\ messages'[j].turn = messages[i].turn /\ messages'[j].call = messages[i].call]_vars

\* Nor are their bodies pruned, since "the model has already acted on them".
PrunedResultsWereSeen == [][\A i \in Unsent : \E j \in DOMAIN messages' : messages'[j] = messages[i]]_vars

\* A cancelled run begins one more tool execution at most.
CancelStopsTheTools == late <= 1

\* What ran is what the transcript and the user are told ran: in order, once,
\* nothing with effects that was reported as aborted, and little after a cancel.
BatchRunsAsTold == ToolsRunInOrder /\ AbortedEffectsNeverRan /\ CancelStopsTheTools

\* A run that ends because its context did returns an error that is ctx.Err(),
\* not one with its text.
CancelKeepsItsCause == result.err /= "cancel text"

\* The run ends, whatever the model answers.
RunEnds == <>(pc = "done")

=============================================================================
