-------------------------- MODULE AgentLoopProofs --------------------------
(***************************************************************************)
(* Theorems about AgentLoop, for every ceiling, retry count and limit of   *)
(* the guards, every number of calls in a reply, every split that the      *)
(* compaction keeps and every threshold of the pruning.                    *)
(***************************************************************************)
EXTENDS AgentLoop, FiniteSetTheorems, SequenceTheorems, WellFoundedInduction, TLAPS

\* The numbers among the parameters.
LEMMA Numbers ==
  /\ MaxTurns \in Nat /\ RaisedTurns \in Nat /\ MaxTurns <= RaisedTurns
  /\ MaxStalls \in Nat /\ MaxRework \in Nat /\ MaxNudges \in Nat /\ PruneKeep \in Nat
  /\ MaxCalls \in Nat \ {0} /\ MaxEmpty \in Nat \ {0} /\ StopAt \in Nat \ {0}
  /\ PreserveLast \in Nat \ {0} /\ MinReclaim \in Nat \ {0}
  /\ Bodies \subseteq {"small", "large"} /\ Gated \in BOOLEAN /\ Cancels \in BOOLEAN
BY AgentAssumption

-----------------------------------------------------------------------------
(* Transcripts.                                                            *)

\* A result, and a message, as TypeOK has them.
ToolMessage == [role : {"tool"}, turn : Nat, call : 1..MaxCalls, body : {"small", "large", "pruned", "aborted"}]
Message ==
    [role : {"system", "user"}] \cup [role : {"assistant"}, turn : Nat, calls : 0..MaxCalls] \cup ToolMessage

\* The first n calls of the reply at i are answered right after it, in order ...
Answered(ms, i, n) ==
    \A c \in 1..n :
        /\ i + c <= Len(ms) /\ IsTool(ms[i + c])
        /\ ms[i + c].turn = ms[i].turn /\ ms[i + c].call = c

\* ... and the result at i has its call.
Asked(ms, i) ==
    /\ ms[i].call < i /\ ms[i - ms[i].call].role = "assistant"
    /\ ms[i - ms[i].call].turn = ms[i].turn /\ ms[i - ms[i].call].calls >= ms[i].call

\* Calls and results match, but for the reply at open (0 if there is none), which
\* has n results so far.
Matched(ms, open, n) ==
    \A i \in DOMAIN ms :
       /\ ms[i].role = "assistant" => Answered(ms, i, IF i = open THEN n ELSE ms[i].calls)
       /\ IsTool(ms[i]) => Asked(ms, i)

\* A transcript begins with the system prompt and the task.
Begun(ms) == Len(ms) >= 2 /\ ms[1] = System /\ ms[2] = User

\* The reply at open, which ends the transcript but for its first n results.
IsOpen(ms, open, n, t, calls) ==
    open \in DOMAIN ms /\ open + n = Len(ms) /\ ms[open] = Assistant(t, calls)

\* What a message is ...
LEMMA MessageFacts ==
  ASSUME NEW m \in Message
  PROVE  /\ IsTool(m) => m.role # "assistant" /\ m.turn \in Nat /\ m.call \in Nat \ {0}
         /\ m.role = "assistant" => m.turn \in Nat /\ m.calls \in Nat
BY Numbers DEF Message, ToolMessage, IsTool

\* ... and how each kind is made: the prompt and the notes.
LEMMA PlainFacts ==
  /\ System \in Message /\ ~IsTool(System) /\ System.role # "assistant"
  /\ User \in Message /\ ~IsTool(User) /\ User.role # "assistant"
BY DEF Message, System, User, IsTool

\* A reply ...
LEMMA ReplyFacts ==
  ASSUME NEW t \in Nat, NEW n \in 0..MaxCalls
  PROVE  \E m \in Message : /\ m = Assistant(t, n) /\ ~IsTool(m)
                             /\ m.role = "assistant" /\ m.turn = t /\ m.calls = n
<1>1. Assistant(t, n) \in Message
  BY DEF Message, Assistant
<1> QED
  BY <1>1 DEF Assistant, IsTool

\* ... and the result of a call.
LEMMA ResultFacts ==
  ASSUME NEW t \in Nat, NEW c \in 1..MaxCalls, NEW b \in {"small", "large", "pruned", "aborted"}
  PROVE  \E m \in Message : /\ m = ToolResult(t, c, b) /\ IsTool(m) /\ m.role # "assistant"
                             /\ m.turn = t /\ m.call = c /\ m.body = b
<1>1. ToolResult(t, c, b) \in Message
  BY DEF Message, ToolMessage, ToolResult
<1> QED
  BY <1>1 DEF ToolResult, IsTool

\* A transcript goes on where it is a prefix of another.
LEMMA MatchedPrefix ==
  ASSUME NEW ms \in Seq(Message), NEW s \in Seq(Message), NEW open, NEW n \in Nat, Matched(ms, open, n),
         NEW i \in 1..Len(ms)
  PROVE  LET new == ms \o s
         IN /\ new[i] = ms[i]
            /\ ms[i].role = "assistant" => Answered(new, i, IF i = open THEN n ELSE ms[i].calls)
            /\ IsTool(ms[i]) => Asked(new, i)
<1> DEFINE new == ms \o s
<1>0. /\ Len(ms) \in Nat /\ Len(s) \in Nat /\ Len(new) = Len(ms) + Len(s)
      /\ \A j \in 1..Len(ms) : new[j] = ms[j] /\ ms[j] \in Message
  BY ConcatProperties, ElementOfSeq
<1> HIDE DEF new
<1>1. ASSUME ms[i].role = "assistant"
      PROVE  Answered(new, i, IF i = open THEN n ELSE ms[i].calls)
  <2> PICK k \in Nat : k = IF i = open THEN n ELSE ms[i].calls
    BY <1>0, <1>1, MessageFacts
  <2>1. Answered(ms, i, k)
    BY <1>0, <1>1 DEF Matched
  <2>2. ASSUME NEW c \in 1..k
        PROVE  i + c \in 1..Len(ms) /\ i + c <= Len(new) /\ new[i + c] = ms[i + c]
    BY <1>0, <2>1 DEF Answered
  <2>3. Answered(new, i, k)
    BY <1>0, <2>1, <2>2 DEF Answered
  <2> QED
    BY <2>3
<1>2. ASSUME IsTool(ms[i])
      PROVE  Asked(new, i)
  <2>1. Asked(ms, i) /\ ms[i].call \in Nat \ {0}
    BY <1>0, <1>2, MessageFacts DEF Matched
  <2>2. i - ms[i].call \in 1..Len(ms)
    <3> DEFINE c == ms[i].call
    <3>1. c \in Nat \ {0} /\ c < i
      BY <2>1 DEF Asked
    <3> HIDE DEF c
    <3>2. i - c \in 1..Len(ms)
      BY <1>0, <3>1
    <3> QED
      BY <3>2 DEF c
  <2> QED
    BY <1>0, <2>1, <2>2 DEF Asked
<1> QED
  BY <1>0, <1>1, <1>2 DEF new

\* Messages that are no calls and no results may be added.
LEMMA MatchedNotes ==
  ASSUME NEW ms \in Seq(Message), NEW s \in Seq(Message), Matched(ms, 0, 0),
         \A i \in 1..Len(s) : ~IsTool(s[i]) /\ (s[i].role = "assistant" => s[i].calls = 0)
  PROVE  Matched(ms \o s, 0, 0)
<1> DEFINE new == ms \o s
<1>0. /\ Len(ms) \in Nat /\ Len(s) \in Nat /\ Len(new) = Len(ms) + Len(s) /\ new \in Seq(Message)
      /\ \A j \in 1..Len(s) : new[Len(ms) + j] = s[j]
  BY ConcatProperties
<1>1. ASSUME NEW i \in 1..Len(ms)
      PROVE  /\ new[i].role = "assistant" => Answered(new, i, IF i = 0 THEN 0 ELSE new[i].calls)
             /\ IsTool(new[i]) => Asked(new, i)
  BY <1>0, MatchedPrefix
<1> HIDE DEF new
<1>2. ASSUME NEW i \in DOMAIN new, i \notin 1..Len(ms)
      PROVE  ~IsTool(new[i]) /\ (new[i].role = "assistant" => new[i].calls = 0)
  <2>1. i - Len(ms) \in 1..Len(s) /\ Len(ms) + (i - Len(ms)) = i
    BY <1>0, <1>2, LenProperties
  <2> QED
    BY <1>0, <2>1
<1>3. Matched(new, 0, 0)
  BY <1>1, <1>2 DEF Matched, Answered
<1> QED
  BY <1>3 DEF new

\* A reply opens its calls.
LEMMA MatchedReply ==
  ASSUME NEW ms \in Seq(Message), Matched(ms, 0, 0), NEW t \in Nat, NEW n \in 0..MaxCalls
  PROVE  LET new == Append(ms, Assistant(t, n))
         IN new \in Seq(Message) /\ Matched(new, Len(ms) + 1, 0) /\ IsOpen(new, Len(ms) + 1, 0, t, n)
<1> PICK reply \in Message : /\ reply = Assistant(t, n) /\ ~IsTool(reply)
                             /\ reply.role = "assistant" /\ reply.turn = t /\ reply.calls = n
  BY ReplyFacts
<1> DEFINE new == ms \o <<reply>>
<1>0. <<reply>> \in Seq(Message) /\ Append(ms, reply) = new
  BY AppendIsConcat
<1>1. /\ Len(ms) \in Nat /\ Len(new) = Len(ms) + 1 /\ new[Len(ms) + 1] = reply /\ new \in Seq(Message)
      /\ DOMAIN new = 1..(Len(ms) + 1)
  BY <1>0, ConcatProperties, LenProperties
<1>2. ASSUME NEW i \in 1..Len(ms)
      PROVE  /\ new[i].role = "assistant" => Answered(new, i, IF i = Len(ms) + 1 THEN 0 ELSE new[i].calls)
             /\ IsTool(new[i]) => Asked(new, i)
  <2>1. i # 0 /\ i # Len(ms) + 1
    BY <1>1
  <2>2. /\ new[i] = ms[i]
        /\ ms[i].role = "assistant" => Answered(new, i, IF i = 0 THEN 0 ELSE ms[i].calls)
        /\ IsTool(ms[i]) => Asked(new, i)
    BY <1>0, MatchedPrefix
  <2> QED
    BY <2>1, <2>2
<1> HIDE DEF new
<1>3. Matched(new, Len(ms) + 1, 0)
  BY <1>0, <1>1, <1>2 DEF Matched, Answered
<1>4. IsOpen(new, Len(ms) + 1, 0, t, n)
  BY <1>1 DEF IsOpen
<1> QED
  BY <1>0, <1>1, <1>3, <1>4

\* The next result belongs to the next call.
LEMMA MatchedResult ==
  ASSUME NEW ms \in Seq(Message), NEW open, NEW n \in Nat, NEW t \in Nat, NEW calls \in 0..MaxCalls,
         Matched(ms, open, n), IsOpen(ms, open, n, t, calls), n < calls,
         NEW b \in {"small", "large", "pruned", "aborted"}
  PROVE  LET new == Append(ms, ToolResult(t, n + 1, b))
         IN new \in Seq(Message) /\ Matched(new, open, n + 1) /\ IsOpen(new, open, n + 1, t, calls)
<1>a. n + 1 \in 1..MaxCalls
  BY Numbers
<1> PICK r \in Message : /\ r = ToolResult(t, n + 1, b) /\ IsTool(r) /\ r.role # "assistant"
                         /\ r.turn = t /\ r.call = n + 1 /\ r.body = b
  BY <1>a, ResultFacts
<1> DEFINE new == ms \o <<r>>
<1>0. <<r>> \in Seq(Message) /\ Append(ms, r) = new
  BY AppendIsConcat
<1>1. /\ Len(ms) \in Nat /\ Len(new) = Len(ms) + 1 /\ new[Len(ms) + 1] = r /\ new \in Seq(Message)
      /\ DOMAIN new = 1..(Len(ms) + 1) /\ DOMAIN ms = 1..Len(ms)
  BY <1>0, ConcatProperties, LenProperties
<1>2. ASSUME NEW i \in 1..Len(ms)
      PROVE  /\ new[i] = ms[i]
             /\ new[i].role = "assistant" => Answered(new, i, IF i = open THEN n ELSE new[i].calls)
             /\ IsTool(new[i]) => Asked(new, i)
  <2>1. /\ new[i] = ms[i]
        /\ ms[i].role = "assistant" => Answered(new, i, IF i = open THEN n ELSE ms[i].calls)
        /\ IsTool(ms[i]) => Asked(new, i)
    BY <1>0, <1>1, MatchedPrefix
  <2> QED
    BY <2>1
<1> HIDE DEF new
<1>3. /\ open \in 1..Len(ms) /\ open + n = Len(ms) /\ new[open] = Assistant(t, calls)
      /\ new[open].role = "assistant" /\ new[open].turn = t /\ new[open].calls = calls
  BY <1>1, <1>2, ReplyFacts DEF IsOpen
<1>4. Answered(new, open, n + 1)
  <2>1. Answered(new, open, n)
    BY <1>2, <1>3
  <2>2. open + (n + 1) = Len(new) /\ new[open + (n + 1)] = r
    BY SMTT(60), <1>1, <1>3
  <2>3. ASSUME NEW c \in 1..(n + 1), c # n + 1
        PROVE  c \in 1..n
    BY <2>3
  <2>4. ASSUME NEW c \in 1..(n + 1)
        PROVE  /\ open + c <= Len(new) /\ IsTool(new[open + c])
               /\ new[open + c].turn = new[open].turn /\ new[open + c].call = c
    <3>1. CASE c = n + 1
      BY <1>0, <1>1, <1>3, <2>2, <3>1
    <3>2. CASE c # n + 1
      BY <2>1, <2>3, <3>2 DEF Answered
    <3> QED
      BY <3>1, <3>2
  <2> QED
    BY <2>4 DEF Answered
<1>5. Asked(new, Len(ms) + 1)
  <2>1. Len(ms) + 1 - r.call = open
    BY <1>0, <1>1, <1>3
  <2>2. r.call < Len(ms) + 1 /\ calls >= r.call
    BY <1>1, <1>3
  <2>3. new[Len(ms) + 1] = r /\ new[Len(ms) + 1 - r.call] = new[open]
    BY <1>1, <2>1
  <2>4. r.turn = new[open].turn /\ new[open].role = "assistant" /\ new[open].calls = calls
    BY <1>3
  <2> QED
    BY <2>2, <2>3, <2>4 DEF Asked
<1>6. Matched(new, open, n + 1)
  BY SMTT(60), <1>0, <1>1, <1>2, <1>3, <1>4, <1>5 DEF Matched
<1>7. IsOpen(new, open, n + 1, t, calls)
  BY SMTT(60), <1>1, <1>3 DEF IsOpen
<1> QED
  BY <1>0, <1>1, <1>6, <1>7

\* The last result closes the reply.
LEMMA MatchedEnd ==
  ASSUME NEW ms \in Seq(Message), NEW open, NEW n \in Nat, NEW t \in Nat, n \in 0..MaxCalls,
         Matched(ms, open, n), IsOpen(ms, open, n, t, n)
  PROVE  Matched(ms, 0, 0)
<1>1. ms[open].calls = n
  BY ReplyFacts DEF IsOpen
<1>2. 0 \notin DOMAIN ms
  BY LenProperties
<1> QED
  BY <1>1, <1>2 DEF Matched

\* The placeholders for the calls after n.
LEMMA AbortedFacts ==
  ASSUME NEW t \in Nat, NEW n \in Nat, NEW calls \in 0..MaxCalls, n <= calls
  PROVE  LET s == Aborted(t, n + 1, calls)
         IN /\ s \in Seq(Message) /\ Len(s) = calls - n
            /\ \A j \in 1..(calls - n) : /\ s[j] = ToolResult(t, n + j, "aborted") /\ IsTool(s[j])
                                         /\ s[j].role # "assistant" /\ s[j].turn = t /\ s[j].call = n + j
<1> DEFINE s == Aborted(t, n + 1, calls)
<1>a. \A j \in 1..(calls - n) : n + j \in 1..MaxCalls /\ (n + 1) + j - 1 = n + j
  BY Numbers
<1>b. ASSUME NEW j \in 1..(calls - n)
      PROVE  \E m \in Message : /\ m = ToolResult(t, n + j, "aborted") /\ IsTool(m) /\ m.role # "assistant"
                                /\ m.turn = t /\ m.call = n + j /\ m.body = "aborted"
  <2>1. n + j \in 1..MaxCalls
    BY <1>a
  <2> QED
    BY <2>1, ResultFacts
<1>c. s = [j \in 1..(calls - n) |-> ToolResult(t, n + j, "aborted")]
  <2>1. calls + 1 - (n + 1) = calls - n
    OBVIOUS
  <2> QED
    BY <1>a, <2>1 DEF Aborted
<1>d. calls - n \in Nat
  OBVIOUS
<1>e. s \in [1..(calls - n) -> Message]
  BY <1>b, <1>c
<1>0. s \in Seq(Message) /\ Len(s) = calls - n
  <2>1. s \in Seq(Message)
    BY <1>d, <1>e, IsASeq
  <2> QED
    BY <1>c, <1>d, <2>1, LenProperties
<1>f. ASSUME NEW j \in 1..(calls - n)
      PROVE  /\ s[j] = ToolResult(t, n + j, "aborted") /\ IsTool(s[j]) /\ s[j].role # "assistant"
             /\ s[j].turn = t /\ s[j].call = n + j
  <2>1. s[j] = ToolResult(t, n + j, "aborted")
    BY <1>c
  <2> HIDE DEF s
  <2> QED
    BY <1>b, <2>1
<1> QED
  BY <1>0, <1>f

\* Placeholders for the calls that are left close the reply.
LEMMA MatchedCloseOut ==
  ASSUME NEW ms \in Seq(Message), NEW open, NEW n \in Nat, NEW t \in Nat, NEW calls \in 0..MaxCalls,
         Matched(ms, open, n), IsOpen(ms, open, n, t, calls), n <= calls
  PROVE  LET new == ms \o Aborted(t, n + 1, calls)
         IN new \in Seq(Message) /\ Matched(new, 0, 0)
<1> DEFINE s == Aborted(t, n + 1, calls)
           new == ms \o s
<1>0. /\ s \in Seq(Message) /\ Len(s) = calls - n
      /\ \A j \in 1..(calls - n) : /\ s[j] = ToolResult(t, n + j, "aborted") /\ IsTool(s[j])
                                   /\ s[j].role # "assistant" /\ s[j].turn = t /\ s[j].call = n + j
  BY AbortedFacts
<1>1. /\ Len(ms) \in Nat /\ Len(new) = Len(ms) + (calls - n) /\ new \in Seq(Message)
      /\ DOMAIN ms = 1..Len(ms) /\ DOMAIN new = 1..Len(new)
      /\ \A j \in 1..(calls - n) : new[Len(ms) + j] = s[j]
  <2> HIDE DEF s
  <2>1. /\ Len(new) = Len(ms) + Len(s) /\ new \in Seq(Message)
        /\ \A j \in 1..Len(s) : new[Len(ms) + j] = s[j]
    <3>1. s \in Seq(Message) /\ Len(ms) \in Nat /\ Len(s) \in Nat
      BY <1>0
    <3> QED
      BY <3>1, ConcatProperties
  <2> HIDE DEF new
  <2> QED
    BY <1>0, <2>1, LenProperties
<1>2. ASSUME NEW i \in 1..Len(ms)
      PROVE  /\ new[i] = ms[i]
             /\ new[i].role = "assistant" => Answered(new, i, IF i = open THEN n ELSE new[i].calls)
             /\ IsTool(new[i]) => Asked(new, i)
  <2>1. /\ new[i] = ms[i]
        /\ ms[i].role = "assistant" => Answered(new, i, IF i = open THEN n ELSE ms[i].calls)
        /\ IsTool(ms[i]) => Asked(new, i)
    BY <1>0, MatchedPrefix
  <2> QED
    BY <2>1
<1> HIDE DEF new, s
<1>3. /\ open \in 1..Len(ms) /\ open + n = Len(ms) /\ new[open] = Assistant(t, calls)
      /\ new[open].role = "assistant" /\ new[open].turn = t /\ new[open].calls = calls
  BY <1>1, <1>2, ReplyFacts DEF IsOpen
<1>4. ASSUME NEW c \in 1..calls
      PROVE  /\ open + c <= Len(new) /\ IsTool(new[open + c])
             /\ new[open + c].turn = new[open].turn /\ new[open + c].call = c
  <2>1. CASE c <= n
    <3>1. c \in 1..n
      BY <2>1
    <3> QED
      BY <1>2, <1>3, <3>1 DEF Answered
  <2>2. CASE c > n
    <3>1. c - n \in 1..(calls - n) /\ n + (c - n) = c /\ open + c = Len(ms) + (c - n)
      BY <1>3, <2>2
    <3>2. open + c <= Len(new)
      BY <1>1, <1>3
    <3> QED
      BY ZenonT(60), <1>1, <1>3, <1>0, <3>1, <3>2
  <2> QED
    BY <2>1, <2>2
<1>5. ASSUME NEW i \in 1..Len(new), i \notin 1..Len(ms)
      PROVE  new[i].role # "assistant" /\ Asked(new, i)
  <2>1. i - Len(ms) \in 1..(calls - n) /\ Len(ms) + (i - Len(ms)) = i
    BY <1>1, <1>5
  <2> PICK j \in 1..(calls - n) : j = i - Len(ms)
    BY <2>1
  <2>2. new[i] = s[j]
    BY <1>1, <2>1
  <2>3. new[i].role # "assistant" /\ new[i].turn = t /\ new[i].call = n + j
    BY <1>0, <2>2
  <2>4. i - (n + j) = open /\ n + j < i /\ n + j <= calls
    BY SMTT(60), <1>1, <1>3
  <2> QED
    BY <1>3, <2>3, <2>4 DEF Asked
<1>6. ASSUME NEW i \in DOMAIN new, new[i].role = "assistant"
      PROVE  Answered(new, i, IF i = 0 THEN 0 ELSE new[i].calls)
  <2>1. i \in 1..Len(ms) /\ i # 0
    BY <1>1, <1>5, <1>6
  <2>2. CASE i = open
    BY <1>3, <1>4, <2>1, <2>2 DEF Answered
  <2>3. CASE i # open
    BY <1>2, <1>6, <2>1, <2>3
  <2> QED
    BY <2>2, <2>3
<1>7. ASSUME NEW i \in DOMAIN new, IsTool(new[i])
      PROVE  Asked(new, i)
  BY <1>1, <1>2, <1>5, <1>7
<1>8. Matched(new, 0, 0)
  BY <1>6, <1>7 DEF Matched
<1> QED
  BY <1>1, <1>8 DEF new, s

\* Pruning changes bodies of results, and nothing else.
LEMMA PruneFacts ==
  ASSUME NEW ms \in Seq(Message)
  PROVE  LET new == Prune(ms)
         IN /\ new \in Seq(Message) /\ Len(new) = Len(ms)
            /\ \A i \in 1..Len(ms) :
                 /\ ~IsTool(ms[i]) => new[i] = ms[i]
                 /\ IsTool(ms[i]) => /\ IsTool(new[i]) /\ new[i].turn = ms[i].turn /\ new[i].call = ms[i].call
                                     /\ new[i].body \in {ms[i].body, "pruned"}
<1> DEFINE new == Prune(ms)
<1>1. /\ Len(ms) \in Nat /\ DOMAIN ms = 1..Len(ms)
      /\ \A i \in 1..Len(ms) : ms[i] \in Message
  BY LenProperties, ElementOfSeq
<1>2. CASE new = ms
  BY <1>1, <1>2
<1>3. CASE new = [i \in DOMAIN ms |-> IF i \in Stale(ms) THEN [ms[i] EXCEPT !.body = "pruned"] ELSE ms[i]]
  <2> HIDE DEF new
  <2>1. ASSUME NEW i \in 1..Len(ms)
        PROVE  /\ new[i] \in Message
               /\ ~IsTool(ms[i]) => new[i] = ms[i]
               /\ IsTool(ms[i]) => /\ IsTool(new[i]) /\ new[i].turn = ms[i].turn /\ new[i].call = ms[i].call
                                   /\ new[i].body \in {ms[i].body, "pruned"}
    <3>1. CASE i \in Stale(ms)
      <4>1. IsTool(ms[i]) /\ new[i] = [ms[i] EXCEPT !.body = "pruned"]
        BY <1>1, <1>3, <3>1 DEF Stale, Large
      <4>2. ms[i] \in ToolMessage
        BY <1>1, <4>1 DEF Message, IsTool, ToolMessage
      <4> QED
        BY <4>1, <4>2 DEF ToolMessage, Message, IsTool
    <3>2. CASE i \notin Stale(ms)
      BY <1>1, <1>3, <3>2
    <3> QED
      BY <3>1, <3>2
  <2>2. new \in [1..Len(ms) -> Message]
    BY <1>1, <1>3, <2>1
  <2>3. new \in Seq(Message) /\ Len(new) = Len(ms)
    <3>1. new \in Seq(Message)
      BY <1>1, <2>2, IsASeq
    <3> QED
      BY <1>1, <2>2, <3>1, LenProperties
  <2> QED
    BY <2>1, <2>3 DEF new
<1> QED
  BY <1>2, <1>3 DEF Prune

\* A nonempty set of numbers below a bound has a greatest one.
LEMMA Greatest ==
  ASSUME NEW n \in Nat, NEW S \in SUBSET (0..n), S # {}
  PROVE  \E b \in S : \A c \in S : c <= b
<1> DEFINE R == OpToRel(<, Nat)
           D == {d \in Nat : n - d \in S}
<1>1. \A x, y \in Nat : <<x, y>> \in R <=> x < y
  BY DEF OpToRel
<1>2. IsWellFoundedOn(R, Nat)
  BY NatLessThanWellFounded
<1>3. D \subseteq Nat /\ D # {}
  <2>1. PICK x \in S : x \in 0..n
    OBVIOUS
  <2>2. n - x \in Nat /\ n - (n - x) = x
    BY <2>1
  <2>3. n - x \in D
    BY <2>1, <2>2
  <2> QED
    BY <2>3
<1> HIDE DEF R, D
<1>4. PICK d \in D : \A e \in D : ~(<<e, d>> \in R)
  BY <1>2, <1>3, WFMin
<1>5. ASSUME NEW c \in S PROVE c <= n - d
  <2>1. c \in 0..n /\ n - c \in Nat /\ n - (n - c) = c
    OBVIOUS
  <2>2. n - c \in D
    BY <2>1 DEF D
  <2>3. ~(n - c < d)
    BY <1>1, <1>3, <1>4, <2>2
  <2> QED
    BY <1>3, <2>1, <2>3 DEF D
<1>6. n - d \in S
  BY DEF D
<1> QED
  BY <1>5, <1>6

\* A cut is made inside the transcript, before a reply.
LEMMA BoundaryFacts ==
  ASSUME NEW ms \in Seq(Message), CanCompact(ms)
  PROVE  /\ Boundary(ms) \in 2..(Len(ms) - 1)
         /\ ms[Boundary(ms) + 1].role = "assistant"
<1> DEFINE naive == IF Len(ms) > PreserveLast THEN Len(ms) - PreserveLast ELSE 1
           safe == {b \in 2..naive : ms[b + 1].role = "assistant"}
<1>1. Len(ms) \in Nat /\ naive \in Nat /\ (naive >= 2 => naive <= Len(ms) - 1)
  BY LenProperties, Numbers
<1>2. Boundary(ms) = IF safe = {} THEN 1 ELSE CHOOSE b \in safe : \A c \in safe : c <= b
  BY DEF Boundary
<1>3. safe # {}
  BY <1>2 DEF CanCompact
<1>4. safe \in SUBSET (0..naive)
  BY <1>1
<1>5. \E b \in safe : \A c \in safe : c <= b
  BY <1>1, <1>3, <1>4, Greatest
<1>6. Boundary(ms) \in safe
  <2> HIDE DEF safe
  <2> QED
    BY <1>2, <1>3, <1>5
<1> QED
  BY <1>1, <1>6

\* What a compaction leaves: the two first messages and the suffix.
LEMMA CompactFacts ==
  ASSUME NEW ms \in Seq(Message), CanCompact(ms)
  PROVE  LET new == Compact(ms)
             b == Boundary(ms)
         IN /\ new \in Seq(Message) /\ Len(new) = 2 + (Len(ms) - b)
            /\ new[1] = System /\ new[2] = User
            /\ \A i \in (b + 1)..Len(ms) : new[i - b + 2] = ms[i]
<1> DEFINE new == Compact(ms)
           b == Boundary(ms)
           head == <<System, User>>
           suffix == SubSeq(ms, b + 1, Len(ms))
<1>1. Len(ms) \in Nat /\ b \in 2..(Len(ms) - 1)
  BY BoundaryFacts, LenProperties
<1>2. head \in Seq(Message) /\ Len(head) = 2 /\ head[1] = System /\ head[2] = User
  BY PlainFacts
<1>3. /\ suffix \in Seq(Message) /\ Len(suffix) = Len(ms) - b
      /\ \A i \in 1..(Len(ms) - b) : suffix[i] = ms[b + i]
  <2> HIDE DEF b
  <2>1. b + 1 \in 1..(Len(ms) + 1) /\ Len(ms) \in b..Len(ms) /\ b + 1 \in Nat
    BY <1>1
  <2>2. suffix \in Seq(Message) /\ Len(suffix) = IF b + 1 <= Len(ms) THEN Len(ms) - (b + 1) + 1 ELSE 0
    BY <1>1, <2>1, SubSeqProperties
  <2>3. \A i \in 1..(Len(ms) - b) : suffix[i] = ms[b + i]
    BY <1>1, <2>1, SubSeqProperties
  <2> QED
    BY <1>1, <2>2, <2>3
<1>4. new = head \o suffix
  BY DEF Compact
<1> HIDE DEF head, suffix, new, b
<1>5. /\ new \in Seq(Message) /\ Len(new) = Len(head) + Len(suffix)
      /\ \A i \in 1..(Len(head) + Len(suffix)) :
            new[i] = IF i <= Len(head) THEN head[i] ELSE suffix[i - Len(head)]
  BY <1>2, <1>3, <1>4, ConcatProperties
<1>6. new[1] = System /\ new[2] = User
  <2>1. Len(head) = 2 /\ 1 \in 1..(Len(head) + Len(suffix)) /\ 2 \in 1..(Len(head) + Len(suffix))
    BY <1>1, <1>2, <1>3
  <2> QED
    BY <1>2, <1>5, <2>1
<1>7. ASSUME NEW i \in (b + 1)..Len(ms)
      PROVE  new[i - b + 2] = ms[i]
  <2>1. /\ i - b \in 1..(Len(ms) - b) /\ b + (i - b) = i
        /\ (i - b + 2) - 2 = i - b /\ ~(i - b + 2 <= 2) /\ i - b + 2 \in 1..(2 + (Len(ms) - b))
    BY <1>1
  <2>2. suffix[i - b] = ms[i]
    BY <1>3, <2>1
  <2> QED
    BY <1>2, <1>3, <1>5, <2>1, <2>2
<1> QED
  BY <1>2, <1>3, <1>5, <1>6, <1>7 DEF new, b

\* A cut before a reply separates no call from its result.
LEMMA MatchedCompact ==
  ASSUME NEW ms \in Seq(Message), Matched(ms, 0, 0), CanCompact(ms)
  PROVE  Matched(Compact(ms), 0, 0)
<1> DEFINE new == Compact(ms)
           b == Boundary(ms)
<1>1. /\ Len(ms) \in Nat /\ DOMAIN ms = 1..Len(ms) /\ \A i \in 1..Len(ms) : ms[i] \in Message
      /\ b \in 2..(Len(ms) - 1) /\ ms[b + 1].role = "assistant"
  BY BoundaryFacts, LenProperties, ElementOfSeq
<1>2. /\ new \in Seq(Message) /\ Len(new) = 2 + (Len(ms) - b)
      /\ new[1] = System /\ new[2] = User
      /\ \A i \in (b + 1)..Len(ms) : new[i - b + 2] = ms[i]
  BY CompactFacts
<1> HIDE DEF new, b
<1>3. DOMAIN new = 1..Len(new)
  BY <1>2, LenProperties
<1>4. ASSUME NEW i \in (b + 1)..Len(ms), ms[i].role = "assistant"
      PROVE  Answered(new, i - b + 2, ms[i].calls)
  <2>1. i \in 1..Len(ms) /\ Answered(ms, i, ms[i].calls) /\ ms[i].calls \in Nat
    BY <1>1, <1>4, MessageFacts DEF Matched
  <2>2. ASSUME NEW c \in 1..ms[i].calls
        PROVE  /\ (i - b + 2) + c <= Len(new) /\ new[(i - b + 2) + c] = ms[i + c]
    <3>1. i + c <= Len(ms)
      BY <2>1 DEF Answered
    <3>2. i + c \in (b + 1)..Len(ms) /\ (i + c) - b + 2 = (i - b + 2) + c
      BY SMTT(60), <1>1, <2>1, <3>1
    <3> QED
      BY <1>1, <1>2, <3>1, <3>2
  <2>3. new[i - b + 2] = ms[i]
    BY <1>2
  <2> QED
    BY <2>1, <2>2, <2>3 DEF Answered
<1>5. ASSUME NEW i \in (b + 1)..Len(ms), IsTool(ms[i])
      PROVE  Asked(new, i - b + 2)
  <2> PICK c \in Nat \ {0} : c = ms[i].call
    BY <1>1, <1>5, MessageFacts
  <2>1. i \in 1..Len(ms) /\ Asked(ms, i)
    BY <1>1, <1>5 DEF Matched
  <2>2. c < i /\ i - c \in 1..Len(ms)
    BY <1>1, <2>1 DEF Asked
  <2> PICK o \in 1..Len(ms) : o = i - c
    BY <2>2
  <2>3. ms[o].role = "assistant" /\ ms[o].turn = ms[i].turn /\ ms[o].calls >= c
    BY <2>1 DEF Asked
  <2>4. Answered(ms, o, ms[o].calls) /\ ms[o].calls \in Nat
    BY SMTT(60), <1>1, <2>3, MessageFacts DEF Matched
  <2>5. o > b
    <3> SUFFICES ASSUME o <= b PROVE FALSE
      BY SMTT(60), <1>1
    <3> PICK k \in Nat : k = ms[o].calls
      BY <2>4
    <3>0. k >= c /\ b \in Nat /\ i >= b + 1
      BY <1>1, <2>3
    <3>1. (b + 1) - o \in 1..k /\ o + ((b + 1) - o) = b + 1
      BY SMTT(60), <3>0
    <3>2. IsTool(ms[b + 1])
      BY <2>4, <3>1 DEF Answered
    <3> QED
      BY <1>1, <3>2 DEF IsTool
  <2>6. o \in (b + 1)..Len(ms) /\ (i - b + 2) - c = o - b + 2 /\ c < i - b + 2
    BY SMTT(60), <1>1, <2>5
  <2>7. new[i - b + 2] = ms[i] /\ new[o - b + 2] = ms[o]
    BY <1>2, <2>6
  <2> QED
    BY <2>3, <2>6, <2>7 DEF Asked
<1>6. ASSUME NEW i \in 1..Len(new), i \notin {1, 2}
      PROVE  \E j \in (b + 1)..Len(ms) : i = j - b + 2 /\ new[i] = ms[j]
  <2>1. i + b - 2 \in (b + 1)..Len(ms) /\ (i + b - 2) - b + 2 = i
    BY <1>1, <1>2, <1>6
  <2> QED
    BY <1>2, <2>1
<1>7. ASSUME NEW i \in 1..Len(new)
      PROVE  /\ new[i].role = "assistant" => Answered(new, i, IF i = 0 THEN 0 ELSE new[i].calls)
             /\ IsTool(new[i]) => Asked(new, i)
  <2>1. CASE i \in {1, 2}
    BY <1>2, <2>1, PlainFacts
  <2>2. CASE i \notin {1, 2}
    BY <1>4, <1>5, <1>6, <2>2
  <2> QED
    BY <2>1, <2>2
<1> QED
  BY <1>3, <1>7 DEF Matched, new

\* Pruning keeps calls and results matched.
LEMMA MatchedPrune ==
  ASSUME NEW ms \in Seq(Message), Matched(ms, 0, 0)
  PROVE  Matched(Prune(ms), 0, 0)
<1> DEFINE new == Prune(ms)
<1>1. /\ Len(ms) \in Nat /\ DOMAIN ms = 1..Len(ms) /\ \A i \in 1..Len(ms) : ms[i] \in Message
  BY LenProperties, ElementOfSeq
<1>2. /\ new \in Seq(Message) /\ Len(new) = Len(ms)
      /\ \A i \in 1..Len(ms) :
            /\ ~IsTool(ms[i]) => new[i] = ms[i]
            /\ IsTool(ms[i]) => IsTool(new[i]) /\ new[i].turn = ms[i].turn /\ new[i].call = ms[i].call
  BY PruneFacts
<1> HIDE DEF new
<1>3. DOMAIN new = 1..Len(ms)
  BY <1>2, LenProperties
<1>4. ASSUME NEW i \in 1..Len(ms)
      PROVE  (new[i].role = "assistant" \/ ms[i].role = "assistant") => new[i] = ms[i]
  BY <1>2 DEF IsTool
<1>5. ASSUME NEW i \in 1..Len(ms), new[i].role = "assistant"
      PROVE  Answered(new, i, new[i].calls)
  <2>1. new[i] = ms[i] /\ Answered(ms, i, ms[i].calls) /\ ms[i].calls \in Nat
    BY <1>1, <1>4, <1>5, MessageFacts DEF Matched
  <2>2. ASSUME NEW c \in 1..ms[i].calls
        PROVE  i + c \in 1..Len(ms) /\ IsTool(ms[i + c])
    BY <1>1, <2>1 DEF Answered
  <2> QED
    BY <1>2, <2>1, <2>2 DEF Answered
<1>6. ASSUME NEW i \in 1..Len(ms), IsTool(new[i])
      PROVE  Asked(new, i)
  <2>1. IsTool(ms[i])
    BY <1>2, <1>6
  <2> PICK c \in Nat \ {0} : c = ms[i].call
    BY <1>1, <2>1, MessageFacts
  <2>2. Asked(ms, i)
    BY <1>1, <2>1 DEF Matched
  <2>3. i - c \in 1..Len(ms)
    BY <1>1, <2>2 DEF Asked
  <2>4. new[i - c] = ms[i - c]
    BY <1>4, <2>2, <2>3 DEF Asked
  <2> QED
    BY <1>2, <2>1, <2>2, <2>4 DEF Asked
<1> QED
  BY <1>1, <1>3, <1>5, <1>6 DEF Matched, new

\* No result is a placeholder of the abort path.
NoneAborted(ms) == \A i \in DOMAIN ms : IsTool(ms[i]) => ms[i].body # "aborted"

\* A transcript between two batches of calls.
Sound(ms) == ms \in Seq(Message) /\ Begun(ms) /\ Matched(ms, 0, 0) /\ NoneAborted(ms)

\* Messages that are no calls and no results keep it sound.
LEMMA SoundConcat ==
  ASSUME NEW ms, Sound(ms), NEW s \in Seq(Message),
         \A i \in 1..Len(s) : ~IsTool(s[i]) /\ (s[i].role = "assistant" => s[i].calls = 0)
  PROVE  Sound(ms \o s)
<1> DEFINE new == ms \o s
<1>1. /\ Len(ms) \in Nat /\ Len(s) \in Nat /\ DOMAIN ms = 1..Len(ms)
      /\ Len(new) = Len(ms) + Len(s) /\ new \in Seq(Message)
      /\ \A i \in 1..(Len(ms) + Len(s)) : new[i] = IF i <= Len(ms) THEN ms[i] ELSE s[i - Len(ms)]
  BY ConcatProperties, LenProperties DEF Sound
<1>2. Matched(new, 0, 0)
  BY MatchedNotes DEF Sound
<1> HIDE DEF new
<1>3. Begun(new)
  <2>1. Len(ms) >= 2 /\ ms[1] = System /\ ms[2] = User
    BY DEF Sound, Begun
  <2>2. Len(new) >= 2 /\ new[1] = ms[1] /\ new[2] = ms[2]
    BY <1>1, <2>1
  <2> QED
    BY <2>1, <2>2 DEF Begun
<1>4. DOMAIN new = 1..(Len(ms) + Len(s))
  BY <1>1, LenProperties
<1>5. ASSUME NEW i \in DOMAIN new, IsTool(new[i])
      PROVE  new[i].body # "aborted"
  <2>1. CASE i <= Len(ms)
    <3>1. i \in DOMAIN ms /\ new[i] = ms[i]
      BY <1>1, <1>4, <2>1
    <3> QED
      BY <1>5, <3>1 DEF Sound, NoneAborted
  <2>2. CASE ~(i <= Len(ms))
    <3>1. i - Len(ms) \in 1..Len(s) /\ new[i] = s[i - Len(ms)]
      BY <1>1, <1>4, <2>2
    <3> QED
      BY <1>5, <3>1
  <2> QED
    BY <2>1, <2>2
<1> QED
  BY <1>1, <1>2, <1>3, <1>5 DEF Sound, NoneAborted, new

\* So do notes of the program ...
LEMMA SoundNotes ==
  ASSUME NEW ms, Sound(ms), NEW n \in Nat
  PROVE  Sound(ms \o Notes(n))
<1>1. Notes(n) \in [1..n -> Message] /\ \A i \in 1..n : Notes(n)[i] = User
  BY PlainFacts DEF Notes
<1>2. Notes(n) \in Seq(Message)
  BY <1>1, IsASeq
<1>3. Len(Notes(n)) = n
  BY <1>1, <1>2, LenProperties
<1> QED
  BY <1>1, <1>2, <1>3, SoundConcat, PlainFacts

\* ... any other message ...
LEMMA SoundAppend ==
  ASSUME NEW ms, Sound(ms), NEW m \in Message, ~IsTool(m), m.role = "assistant" => m.calls = 0
  PROVE  Sound(Append(ms, m))
<1> DEFINE s == <<m>>
<1>1. s \in Seq(Message) /\ \A i \in 1..Len(s) : s[i] = m
  OBVIOUS
<1>2. Append(ms, m) = ms \o s
  BY AppendIsConcat DEF Sound
<1> HIDE DEF s
<1>3. Sound(ms \o s)
  BY <1>1, SoundConcat
<1> QED
  BY <1>2, <1>3

\* ... among them a reply without calls and what is said to it ...
LEMMA SoundReply ==
  ASSUME NEW ms, Sound(ms), NEW t \in Nat
  PROVE  /\ Sound(Append(ms, Assistant(t, 0)))
         /\ Sound(Append(Append(ms, Assistant(t, 0)), User))
         /\ Sound(ms \o <<User, Assistant(t, 0)>>)
<1>0. 0 \in 0..MaxCalls
  BY Numbers
<1> PICK m \in Message : m = Assistant(t, 0) /\ ~IsTool(m) /\ m.calls = 0
  BY <1>0, ReplyFacts
<1>2. Sound(Append(ms, m))
  BY SoundAppend
<1>3. Sound(Append(Append(ms, m), User))
  BY <1>2, SoundAppend, PlainFacts
<1>4. Sound(ms \o <<User, m>>)
  <2>1. <<User, m>> \in Seq(Message) /\ Len(<<User, m>>) = 2 /\ <<User, m>>[1] = User /\ <<User, m>>[2] = m
    BY PlainFacts
  <2> DEFINE s == <<User, m>>
  <2> HIDE DEF s
  <2>2. \A i \in 1..Len(s) : ~IsTool(s[i]) /\ (s[i].role = "assistant" => s[i].calls = 0)
    <3>1. \A i \in 1..Len(s) : i = 1 \/ i = 2
      BY <2>1 DEF s
    <3> QED
      BY <2>1, <3>1, PlainFacts DEF s
  <2>3. Sound(ms \o s)
    BY <2>1, <2>2, SoundConcat DEF s
  <2> QED
    BY <2>3 DEF s
<1> QED
  BY <1>2, <1>3, <1>4

\* ... pruning ...
LEMMA SoundPrune ==
  ASSUME NEW ms, Sound(ms)
  PROVE  Sound(Prune(ms))
<1> DEFINE new == Prune(ms)
<1>0. ms \in Seq(Message)
  BY DEF Sound
<1>1. /\ new \in Seq(Message) /\ Len(new) = Len(ms)
      /\ \A i \in 1..Len(ms) :
            /\ ~IsTool(ms[i]) => new[i] = ms[i]
            /\ IsTool(ms[i]) => new[i].body \in {ms[i].body, "pruned"}
  BY <1>0, PruneFacts
<1>2. Matched(new, 0, 0)
  BY MatchedPrune DEF Sound
<1> HIDE DEF new
<1>3. Len(ms) \in Nat /\ DOMAIN ms = 1..Len(ms) /\ DOMAIN new = 1..Len(ms)
  BY <1>0, <1>1, LenProperties
<1>4. Begun(new)
  BY <1>1, <1>3, PlainFacts DEF Sound, Begun
<1>5. NoneAborted(new)
  BY <1>1, <1>3 DEF Sound, NoneAborted
<1> QED
  BY <1>1, <1>2, <1>4, <1>5 DEF Sound, new

\* ... and a compaction.
LEMMA SoundCompact ==
  ASSUME NEW ms, Sound(ms), CanCompact(ms)
  PROVE  Sound(Compact(ms))
<1> DEFINE new == Compact(ms)
           b == Boundary(ms)
<1>0. /\ ms \in Seq(Message) /\ Len(ms) \in Nat /\ DOMAIN ms = 1..Len(ms)
      /\ b \in 2..(Len(ms) - 1)
  BY BoundaryFacts, LenProperties DEF Sound
<1>1. /\ new \in Seq(Message) /\ Len(new) = 2 + (Len(ms) - b)
      /\ new[1] = System /\ new[2] = User
      /\ \A i \in (b + 1)..Len(ms) : new[i - b + 2] = ms[i]
  BY <1>0, CompactFacts
<1>2. Matched(new, 0, 0)
  BY MatchedCompact DEF Sound
<1> HIDE DEF new, b
<1>3. DOMAIN new = 1..Len(new)
  BY <1>1, LenProperties
<1>4. Begun(new)
  BY <1>0, <1>1 DEF Begun
<1>5. ASSUME NEW i \in DOMAIN new, IsTool(new[i])
      PROVE  new[i].body # "aborted"
  <2>1. i # 1 /\ i # 2
    BY <1>1, <1>5, PlainFacts
  <2>2. i + b - 2 \in (b + 1)..Len(ms) /\ (i + b - 2) - b + 2 = i
    BY SMTT(60), <1>0, <1>1, <1>3, <2>1
  <2>3. new[i] = ms[i + b - 2] /\ i + b - 2 \in DOMAIN ms
    BY SMTT(60), <1>0, <1>1, <2>2
  <2> QED
    BY <1>5, <2>3 DEF Sound, NoneAborted
<1> QED
  BY <1>1, <1>2, <1>4, <1>5 DEF Sound, NoneAborted, new

\* After a pruning there is as much to compact as before.
LEMMA PruneBoundary ==
  ASSUME NEW ms \in Seq(Message)
  PROVE  Boundary(Prune(ms)) = Boundary(ms)
<1> DEFINE new == Prune(ms)
           naive == IF Len(ms) > PreserveLast THEN Len(ms) - PreserveLast ELSE 1
<1>1. /\ new \in Seq(Message) /\ Len(new) = Len(ms)
      /\ \A i \in 1..Len(ms) :
            /\ ~IsTool(ms[i]) => new[i] = ms[i]
            /\ IsTool(ms[i]) => IsTool(new[i])
  BY PruneFacts
<1> HIDE DEF new
<1>2. \A b \in 2..naive : b + 1 \in 1..Len(ms)
  BY Numbers, LenProperties
<1>3. \A b \in 2..naive : (new[b + 1].role = "assistant") = (ms[b + 1].role = "assistant")
  BY <1>1, <1>2 DEF IsTool
<1>4. {b \in 2..naive : new[b + 1].role = "assistant"} = {b \in 2..naive : ms[b + 1].role = "assistant"}
  BY <1>3
<1> DEFINE old == {b \in 2..naive : ms[b + 1].role = "assistant"}
<1>5. Boundary(ms) = IF old = {} THEN 1 ELSE CHOOSE b \in old : \A c \in old : c <= b
  BY DEF Boundary
<1>6. Boundary(new) = IF old = {} THEN 1 ELSE CHOOSE b \in old : \A c \in old : c <= b
  <2>1. naive = IF Len(new) > PreserveLast THEN Len(new) - PreserveLast ELSE 1
    BY <1>1
  <2> HIDE DEF naive
  <2>2. old = {b \in 2..naive : new[b + 1].role = "assistant"}
    BY <1>4
  <2> HIDE DEF old
  <2> QED
    BY <2>1, <2>2 DEF Boundary
<1> QED
  BY <1>5, <1>6 DEF new

-----------------------------------------------------------------------------
(* The inductive invariant.                                                *)

\* Types of the records: the guards of the run, a collected reply, a batch.
Guards == [reactive : BOOLEAN, escalated : BOOLEAN, empty : 0..MaxEmpty, nudges : 0..MaxNudges,
           checked : BOOLEAN, fails : [Kinds -> 0..StopAt], touched : Nat]
Replies == [error : Errors \cup {"none"}, text : {"none", "blank", "prose"}, calls : Calls, dropped : BOOLEAN]
Batches == [index : Nat \ {0}, ahead : Nat \ {0}, ran : Seq(SUBSET Nat), edited : BOOLEAN, hint : BOOLEAN]

\* TypeOK, and the types of the records.
Typed == TypeOK /\ guards \in Guards /\ collected \in Replies /\ batch \in Batches

\* The streaks are below the limits that end the run.
StreaksAreShort == pc # "done" => guards.empty < MaxEmpty /\ \A k \in Kinds : guards.fails[k] < StopAt

\* Prose counts as forwarded when the user saw it; another stream may show some
\* only if there was none.
ShownAsForwarded ==
    /\ shown = One(forwarded)
    /\ pc \in {"turn", "compact", "connect", "reconnect", "stream"} => ~forwarded

\* A batch is being run; no part of one is left.
InBatch == pc \in {"tools", "result"}
Between(p) == p \notin {"tools", "result", "after"}

\* What ran of the calls, and what is left.
BatchFits ==
    /\ Between(pc) /\ pc # "done" => batch = NoBatch
    /\ InBatch => /\ batch.index \in 1..NCalls /\ batch.ahead <= NCalls + 1
                  /\ \A p \in DOMAIN batch.ran : \A c \in batch.ran[p] : c < batch.ahead
                  /\ \A c \in (batch.index + 1)..(batch.ahead - 1) : collected.calls[c] = "read"

\* An execution begun after the cancellation is the last step but one.
LateIsLast == late = 0 \/ (late = 1 /\ cancelled /\ pc \in {"result", "done"})

\* The transcript is sound between batches; in a batch, the results so far are
\* those of the calls before the index.
Transcript ==
    /\ Begun(messages)
    /\ ~InBatch => Matched(messages, 0, 0)
    /\ InBatch => \E open \in Nat : /\ Matched(messages, open, batch.index - 1)
                                    /\ IsOpen(messages, open, batch.index - 1, turn, NCalls)
    /\ pc # "done" => NoneAborted(messages)

\* All of it, with what the runs check of the tools.
IInv ==
    /\ Typed /\ StreaksAreShort /\ ShownAsForwarded
    /\ BatchFits /\ LateIsLast /\ ToolsRunInOrder /\ AbortedEffectsNeverRan /\ Transcript

-----------------------------------------------------------------------------

\* The transcript is made of messages.
LEMMA TypedMessages ==
  ASSUME Typed
  PROVE  messages \in Seq(Message)
BY DEF Typed, TypeOK, Message, ToolMessage

\* Outside a batch the transcript is sound.
LEMMA SoundBetween ==
  ASSUME IInv, ~InBatch, pc # "done"
  PROVE  Sound(messages)
BY TypedMessages DEF IInv, Transcript, Sound

\* The calls of a reply.
LEMMA CallsFacts ==
  ASSUME NEW s \in Calls
  PROVE  /\ Len(s) \in 0..MaxCalls /\ DOMAIN s = 1..Len(s)
         /\ \A c \in 1..Len(s) : s[c] \in Kinds
<1> PICK n \in 0..MaxCalls : s \in [1..n -> Kinds]
  BY DEF Calls
<1>1. n \in Nat
  BY Numbers
<1>2. Len(s) = n
  BY <1>1, LenProperties, IsASeq
<1> QED
  BY <1>2

\* What the empty batch is.
LEMMA NoBatchFacts ==
  /\ NoBatch \in Batches /\ NoBatch.ran = <<>> /\ DOMAIN NoBatch.ran = {}
  /\ NoBatch.index = 1 /\ NoBatch.ahead = 1
BY DEF NoBatch, Batches

\* Where nothing ran, nothing ran in the wrong order or was aborted after it ran.
LEMMA NothingRan ==
  ASSUME batch' = NoBatch
  PROVE  ToolsRunInOrder' /\ AbortedEffectsNeverRan'
BY NoBatchFacts DEF ToolsRunInOrder, AbortedEffectsNeverRan, Ran

\* Without placeholders nobody was told that a call was aborted.
LEMMA NothingAborted ==
  ASSUME NoneAborted(messages')
  PROVE  AbortedEffectsNeverRan'
BY DEF NoneAborted, AbortedEffectsNeverRan, ToldAborted, ToolResult, IsTool

\* A step to where no batch is.
LEMMA StepOut ==
  ASSUME batch' = NoBatch, Between(pc'), Sound(messages')
  PROVE  /\ BatchFits' /\ ToolsRunInOrder' /\ AbortedEffectsNeverRan' /\ Transcript' /\ batch' \in Batches
<1>1. BatchFits'
  BY DEF BatchFits, Between, InBatch
<1>2. Transcript'
  BY DEF Transcript, Sound, Between, InBatch
<1> QED
  BY <1>1, <1>2, NothingRan, NoBatchFacts

\* Outside a batch there is nothing of one.
LEMMA StepBetween ==
  ASSUME IInv, Between(pc), pc # "done", batch' \in {batch, NoBatch}, Between(pc'), Sound(messages')
  PROVE  /\ BatchFits' /\ ToolsRunInOrder' /\ AbortedEffectsNeverRan' /\ Transcript' /\ batch' \in Batches
<1>1. batch' = NoBatch
  BY DEF IInv, BatchFits
<1> QED
  BY <1>1, StepOut

\* A sound transcript has the type of TypeOK.
LEMMA SoundTyped ==
  ASSUME Sound(messages')
  PROVE  messages' \in Seq([role : {"system", "user"}] \cup [role : {"assistant"}, turn : Nat, calls : 0..MaxCalls]
                        \cup [role : {"tool"}, turn : Nat, call : 1..MaxCalls,
                              body : {"small", "large", "pruned", "aborted"}])
BY DEF Sound, Message, ToolMessage

\* A condition counts 0 or 1.
LEMMA OneFacts == \A b \in BOOLEAN : One(b) \in Nat /\ One(b) \in {0, 1} /\ (~b => One(b) = 0)
BY DEF One

-----------------------------------------------------------------------------
(* Every action keeps it.                                                  *)

\* The run begins with the prompt and the task, and nothing else.
LEMMA InitHolds == ASSUME Init PROVE IInv
<1>1. messages = <<System, User>> /\ messages \in Seq(Message) /\ Len(messages) = 2
      /\ messages[1] = System /\ messages[2] = User
  BY PlainFacts DEF Init
<1>2. DOMAIN messages = {1, 2}
  BY <1>1
<1>3. Sound(messages)
  BY <1>1, <1>2, PlainFacts DEF Sound, Begun, Matched, NoneAborted
<1>4. collected \in Replies
  <2>1. <<>> \in [1..0 -> Kinds] /\ 0 \in 0..MaxCalls
    BY Numbers
  <2>2. <<>> \in Calls
    BY <2>1 DEF Calls
  <2> QED
    BY <2>2 DEF Init, NoStream, Replies
<1>5. Typed
  <2>1. guards \in Guards
    BY Numbers DEF Init, Guards
  <2>2. TypeOK
    <3>1. turn \in 0..ceiling /\ ceiling \in {MaxTurns, RaisedTurns} /\ attempt \in 0..MaxStalls
      BY Numbers DEF Init
    <3>2. /\ guards.empty \in 0..MaxEmpty /\ guards.nudges \in 0..MaxNudges
          /\ guards.fails \in [Kinds -> 0..StopAt]
      BY <2>1 DEF Guards
    <3>3. gate \in BOOLEAN /\ diag \in BOOLEAN /\ cancelled \in BOOLEAN /\ forwarded \in BOOLEAN
      BY Numbers DEF Init
    <3> QED
      BY <1>1, <3>1, <3>2, <3>3 DEF Init, TypeOK, Message, ToolMessage
  <2> QED
    BY <1>4, <2>1, <2>2, NoBatchFacts DEF Init, Typed
<1>6. StreaksAreShort
  BY Numbers DEF Init, StreaksAreShort
<1>7. ShownAsForwarded /\ LateIsLast
  BY DEF Init, ShownAsForwarded, LateIsLast, One
<1>8. BatchFits /\ ToolsRunInOrder
  BY NoBatchFacts DEF Init, BatchFits, InBatch, ToolsRunInOrder
<1>9. AbortedEffectsNeverRan
  BY NoBatchFacts DEF Init, AbortedEffectsNeverRan, Ran
<1>10. Transcript
  BY <1>3 DEF Init, Transcript, Sound, InBatch
<1> QED
  BY <1>5, <1>6, <1>7, <1>8, <1>9, <1>10 DEF IInv

\* The end of the context changes nothing that the loop has.
LEMMA CancelKeeps == ASSUME IInv, Cancel PROVE IInv'
<1>1. Typed'
  BY DEF IInv, Cancel, Typed, TypeOK, streamVars
<1>2. StreaksAreShort' /\ ShownAsForwarded' /\ LateIsLast'
  BY DEF IInv, Cancel, StreaksAreShort, ShownAsForwarded, LateIsLast, streamVars
<1>3. BatchFits' /\ ToolsRunInOrder' /\ AbortedEffectsNeverRan' /\ Transcript'
  BY DEF IInv, Cancel, BatchFits, InBatch, NCalls, ToolsRunInOrder, AbortedEffectsNeverRan, Ran, ToldAborted,
     Transcript, streamVars
<1> QED
  BY <1>1, <1>2, <1>3 DEF IInv

\* A turn begins below the ceiling, perhaps with a note on diagnostics.
LEMMA BeginTurnKeeps == ASSUME IInv, BeginTurn PROVE IInv'
<1>1. Sound(messages')
  BY SoundBetween, SoundNotes, OneFacts DEF IInv, Typed, TypeOK, BeginTurn, InBatch
<1>2. Typed'
  <2>1. turn' \in 0..ceiling'
    BY Numbers DEF IInv, BeginTurn, Typed, TypeOK
  <2>2. diag' \in BOOLEAN
    BY DEF IInv, BeginTurn, Typed, TypeOK
  <2> QED
    BY <1>1, <2>1, <2>2, SoundTyped DEF IInv, BeginTurn, Go, Typed, TypeOK, streamVars
<1>3. StreaksAreShort' /\ ShownAsForwarded' /\ LateIsLast'
  BY DEF IInv, BeginTurn, Go, StreaksAreShort, ShownAsForwarded, LateIsLast, streamVars
<1>4. BatchFits' /\ ToolsRunInOrder' /\ AbortedEffectsNeverRan' /\ Transcript'
  BY <1>1, StepBetween DEF BeginTurn, Go, Between
<1> QED
  BY <1>2, <1>3, <1>4 DEF IInv

\* Compaction between turns, where every call has its result.
LEMMA MaybeCompactKeeps == ASSUME IInv, MaybeCompact PROVE IInv'
<1>1. Sound(messages')
  <2>1. Sound(messages)
    BY SoundBetween DEF MaybeCompact, InBatch
  <2>2. Sound(Prune(messages)) /\ (CanCompact(messages) => CanCompact(Prune(messages)))
    BY <2>1, SoundPrune, PruneBoundary DEF Sound, CanCompact
  <2> QED
    BY <2>1, <2>2, SoundCompact DEF MaybeCompact
<1>2. Typed'
  BY <1>1, SoundTyped DEF IInv, MaybeCompact, Go, idle, runVars, Typed, TypeOK, streamVars
<1>3. StreaksAreShort' /\ ShownAsForwarded' /\ LateIsLast'
  BY DEF IInv, MaybeCompact, Go, idle, runVars, StreaksAreShort, ShownAsForwarded, LateIsLast, streamVars
<1>4. BatchFits' /\ ToolsRunInOrder' /\ AbortedEffectsNeverRan' /\ Transcript'
  BY <1>1, StepBetween DEF MaybeCompact, Go, idle, Between
<1> QED
  BY <1>2, <1>3, <1>4 DEF IInv

\* What the recovery by compaction leaves, whether or not the summary fails.
LEMMA RecoverFacts ==
  ASSUME Sound(messages), guards \in Guards, NEW next, Recover(next) \/ RecoverFails
  PROVE  /\ Sound(messages') /\ guards' \in Guards
         /\ guards'.empty = guards.empty /\ guards'.fails = guards.fails /\ guards'.nudges = guards.nudges
         /\ pc' \in {next, "done"}
BY SoundCompact DEF Recover, RecoverFails, Return, Go, Guards

\* The first request of a turn, and the compaction that it may need.
LEMMA ConnectKeeps == ASSUME IInv, Connect PROVE IInv'
<1>0. Sound(messages) /\ guards \in Guards
  BY SoundBetween DEF Connect, InBatch, IInv, Typed
<1>1. /\ Sound(messages') /\ guards' \in Guards
      /\ guards'.empty = guards.empty /\ guards'.fails = guards.fails /\ guards'.nudges = guards.nudges
      /\ pc' \in {"stream", "reconnect", "done"}
  BY <1>0, RecoverFacts DEF Connect, Go, ConnectFails, Return
<1>2. Typed'
  BY <1>1, SoundTyped DEF IInv, Connect, idle, runVars, Typed, TypeOK, streamVars
<1>3. StreaksAreShort' /\ ShownAsForwarded' /\ LateIsLast'
  BY <1>1 DEF IInv, Connect, idle, runVars, StreaksAreShort, ShownAsForwarded, LateIsLast, streamVars
<1>4. BatchFits' /\ ToolsRunInOrder' /\ AbortedEffectsNeverRan' /\ Transcript'
  BY <1>1, StepBetween DEF Connect, idle, Between
<1> QED
  BY <1>2, <1>3, <1>4 DEF IInv

\* The request after that compaction.
LEMMA ReconnectKeeps == ASSUME IInv, Reconnect PROVE IInv'
<1>1. Sound(messages') /\ pc' \in {"stream", "done"}
  BY SoundBetween DEF Reconnect, InBatch, Go, ConnectFails, Return
<1>2. Typed'
  BY <1>1 DEF IInv, Reconnect, idle, runVars, Typed, TypeOK, streamVars
<1>3. StreaksAreShort' /\ ShownAsForwarded' /\ LateIsLast'
  BY <1>1 DEF IInv, Reconnect, idle, runVars, StreaksAreShort, ShownAsForwarded, LateIsLast, streamVars
<1>4. BatchFits' /\ ToolsRunInOrder' /\ AbortedEffectsNeverRan' /\ Transcript'
  BY <1>1, StepBetween DEF Reconnect, idle, Between
<1> QED
  BY <1>2, <1>3, <1>4 DEF IInv

\* What a stream can collect is a reply.
LEMMA StreamsFacts == Streams \subseteq Replies
<1>1. <<>> \in Calls /\ <<"solo">> \in Calls
  <2>1. <<>> \in [1..0 -> Kinds] /\ <<"solo">> \in [1..1 -> Kinds] /\ 0 \in 0..MaxCalls /\ 1 \in 0..MaxCalls
    BY Numbers DEF Kinds
  <2> QED
    BY <2>1 DEF Calls
<1> QED
  BY <1>1 DEF Streams, Replies

\* A stream is opened only when the user saw none of this turn.
LEMMA StreamKeeps == ASSUME IInv, Stream PROVE IInv'
<1>1. Sound(messages') /\ pc' \in {"stall", "checked", "first"}
  BY SoundBetween DEF Stream, InBatch, Go
<1>2. Typed'
  BY <1>1, StreamsFacts DEF IInv, Stream, Go, runVars, Typed, TypeOK
<1>3. StreaksAreShort' /\ LateIsLast'
  BY <1>1 DEF IInv, Stream, runVars, StreaksAreShort, LateIsLast
<1>4. ShownAsForwarded'
  <2>1. ~forwarded /\ shown = 0 /\ forwarded' = (collected'.text # "none")
    BY DEF IInv, Typed, TypeOK, Stream, ShownAsForwarded, One
  <2>2. shown' = One(forwarded')
    <3>1. CASE collected'.text = "none"
      <4>1. One(forwarded') = 0 /\ One(collected'.text # "none") = 0
        BY <2>1, <3>1 DEF One
      <4> QED
        BY <2>1, <4>1 DEF Stream
    <3>2. CASE collected'.text # "none"
      <4>1. One(forwarded') = 1 /\ One(collected'.text # "none") = 1
        BY <2>1, <3>2 DEF One
      <4> QED
        BY <2>1, <4>1 DEF Stream
    <3> QED
      BY <3>1, <3>2
  <2> QED
    BY <1>1, <2>2 DEF ShownAsForwarded
<1>5. BatchFits' /\ ToolsRunInOrder' /\ AbortedEffectsNeverRan' /\ Transcript'
  BY <1>1, StepBetween DEF Stream, Between
<1> QED
  BY <1>2, <1>3, <1>4, <1>5 DEF IInv

\* The recovery of a first stream that failed ...
LEMMA FirstErrorKeeps == ASSUME IInv, FirstError PROVE IInv'
<1>0. Sound(messages) /\ guards \in Guards
  BY SoundBetween DEF FirstError, InBatch, IInv, Typed
<1>1. /\ Sound(messages') /\ guards' \in Guards
      /\ guards'.empty = guards.empty /\ guards'.fails = guards.fails /\ guards'.nudges = guards.nudges
      /\ pc' \in {"reissue", "checked", "done"}
  BY <1>0, RecoverFacts DEF FirstError, Go, Return
<1>2. Typed'
  BY <1>1, SoundTyped DEF IInv, FirstError, idle, runVars, Typed, TypeOK, streamVars
<1>3. StreaksAreShort' /\ ShownAsForwarded' /\ LateIsLast'
  BY <1>1 DEF IInv, FirstError, idle, runVars, StreaksAreShort, ShownAsForwarded, LateIsLast, streamVars
<1>4. BatchFits' /\ ToolsRunInOrder' /\ AbortedEffectsNeverRan' /\ Transcript'
  BY <1>1, StepBetween DEF FirstError, idle, Between
<1> QED
  BY <1>2, <1>3, <1>4 DEF IInv

\* ... and of the last one.
LEMMA LastErrorKeeps == ASSUME IInv, LastError PROVE IInv'
<1>0. Sound(messages) /\ guards \in Guards
  BY SoundBetween DEF LastError, InBatch, IInv, Typed
<1>1. /\ Sound(messages') /\ guards' \in Guards
      /\ guards'.empty = guards.empty /\ guards'.fails = guards.fails /\ guards'.nudges = guards.nudges
      /\ pc' \in {"reissueLast", "done"}
  BY <1>0, RecoverFacts DEF LastError, Go, Return
<1>2. Typed'
  BY <1>1, SoundTyped DEF IInv, LastError, idle, runVars, Typed, TypeOK, streamVars
<1>3. StreaksAreShort' /\ ShownAsForwarded' /\ LateIsLast'
  BY <1>1 DEF IInv, LastError, idle, runVars, StreaksAreShort, ShownAsForwarded, LateIsLast, streamVars
<1>4. BatchFits' /\ ToolsRunInOrder' /\ AbortedEffectsNeverRan' /\ Transcript'
  BY <1>1, StepBetween DEF LastError, idle, Between
<1> QED
  BY <1>2, <1>3, <1>4 DEF IInv

\* A request sent again is not shown.
LEMMA ReissueKeeps == ASSUME IInv, Reissue PROVE IInv'
<1>1. Sound(messages') /\ pc' \in {"checked", "reply", "done"}
  BY SoundBetween DEF Reissue, InBatch, Go, Return, ConnectFails
<1>2. Typed'
  BY ZenonT(60), <1>1, StreamsFacts DEF IInv, Reissue, runVars, Typed, TypeOK
<1>3. StreaksAreShort' /\ ShownAsForwarded' /\ LateIsLast'
  BY <1>1 DEF IInv, Reissue, runVars, StreaksAreShort, ShownAsForwarded, LateIsLast
<1>4. BatchFits' /\ ToolsRunInOrder' /\ AbortedEffectsNeverRan' /\ Transcript'
  BY <1>1, StepBetween DEF Reissue, Between
<1> QED
  BY <1>2, <1>3, <1>4 DEF IInv

\* The context is checked before a retry.
LEMMA CheckContextKeeps == ASSUME IInv, CheckContext PROVE IInv'
<1>1. Sound(messages') /\ pc' \in {"stall", "done"}
  BY SoundBetween DEF CheckContext, InBatch, Go, Return
<1>2. Typed'
  BY <1>1 DEF IInv, CheckContext, idle, runVars, Typed, TypeOK, streamVars
<1>3. StreaksAreShort' /\ ShownAsForwarded' /\ LateIsLast'
  BY <1>1 DEF IInv, CheckContext, idle, runVars, StreaksAreShort, ShownAsForwarded, LateIsLast, streamVars
<1>4. BatchFits' /\ ToolsRunInOrder' /\ AbortedEffectsNeverRan' /\ Transcript'
  BY <1>1, StepBetween DEF CheckContext, idle, Between
<1> QED
  BY <1>2, <1>3, <1>4 DEF IInv

\* A stream is retried only if the user saw nothing of this turn.
LEMMA StallRetryKeeps == ASSUME IInv, StallRetry PROVE IInv'
<1>1. Sound(messages') /\ pc' \in {"stream", "done"} /\ ~forwarded
  BY SoundBetween DEF StallRetry, RetriesStall, InBatch, Go, Return, ConnectFails
<1>2. Typed'
  <2>1. attempt' \in 0..MaxStalls
    BY Numbers DEF IInv, Typed, TypeOK, StallRetry, RetriesStall
  <2> QED
    BY <1>1, <2>1 DEF IInv, StallRetry, runVars, Typed, TypeOK
<1>3. StreaksAreShort' /\ ShownAsForwarded' /\ LateIsLast'
  BY <1>1 DEF IInv, StallRetry, runVars, StreaksAreShort, ShownAsForwarded, LateIsLast
<1>4. BatchFits' /\ ToolsRunInOrder' /\ AbortedEffectsNeverRan' /\ Transcript'
  BY <1>1, StepBetween DEF StallRetry, Between
<1> QED
  BY <1>2, <1>3, <1>4 DEF IInv

\* No more retries of a stall.
LEMMA StallEndsKeeps == ASSUME IInv, StallEnds PROVE IInv'
<1>1. Sound(messages') /\ pc' \in {"reply", "last"}
  BY SoundBetween DEF StallEnds, InBatch, Go
<1>2. Typed'
  BY <1>1 DEF IInv, StallEnds, idle, runVars, Typed, TypeOK, streamVars
<1>3. StreaksAreShort' /\ ShownAsForwarded' /\ LateIsLast'
  BY <1>1 DEF IInv, StallEnds, idle, runVars, StreaksAreShort, ShownAsForwarded, LateIsLast, streamVars
<1>4. BatchFits' /\ ToolsRunInOrder' /\ AbortedEffectsNeverRan' /\ Transcript'
  BY <1>1, StepBetween DEF StallEnds, idle, Between
<1> QED
  BY <1>2, <1>3, <1>4 DEF IInv

\* A reply without calls, and what is said to it.
LEMMA TextOnlyFacts ==
  ASSUME IInv, TextOnly
  PROVE  Sound(Replied) /\ Sound(Append(Replied, User))
<1>1. turn \in Nat /\ Sound(messages)
  BY SoundBetween, Numbers DEF IInv, Typed, TypeOK, TextOnly, InBatch
<1>2. Len(collected.calls) = 0
  BY DEF TextOnly
<1> QED
  BY <1>1, <1>2, SoundReply DEF Replied

\* The variables of a new turn.
LEMMA TurnOverFacts ==
  ASSUME TurnOver
  PROVE  /\ collected' \in Replies /\ attempt' \in 0..MaxStalls /\ forwarded' = FALSE
         /\ ShownAsForwarded' /\ batch' = NoBatch /\ pc' = "turn"
<1>1. collected' \in Replies
  <2>1. <<>> \in [1..0 -> Kinds] /\ 0 \in 0..MaxCalls
    BY Numbers
  <2>2. <<>> \in Calls
    BY <2>1 DEF Calls
  <2> QED
    BY <2>2 DEF TurnOver, NoStream, Replies
<1> QED
  BY <1>1, Numbers DEF TurnOver, Go, ShownAsForwarded, One

\* Calls that the stream dropped are asked for again.
LEMMA DroppedKeeps == ASSUME IInv, Dropped PROVE IInv'
<1>1. Sound(messages')
  BY TextOnlyFacts DEF Dropped, Nudged
<1>2. Typed'
  BY <1>1, SoundTyped, TurnOverFacts, NoBatchFacts DEF IInv, Dropped, Nudged, runVars, Typed, TypeOK
<1>3. StreaksAreShort' /\ ShownAsForwarded' /\ LateIsLast'
  BY TurnOverFacts DEF IInv, Dropped, Nudged, TextOnly, runVars, StreaksAreShort, LateIsLast
<1>4. BatchFits' /\ ToolsRunInOrder' /\ AbortedEffectsNeverRan' /\ Transcript'
  BY <1>1, StepBetween, TurnOverFacts DEF Dropped, Nudged, TextOnly, Between
<1> QED
  BY <1>2, <1>3, <1>4 DEF IInv

\* A reply without calls ends the turn or the run; what it does to the guards is
\* left to the actions.
LEMMA ReplyKeeps ==
  ASSUME IInv, TextOnly, Nudged \/ (\E stop, incomplete : Ends(stop, incomplete)),
         guards' \in Guards, pc' # "done" => guards'.empty < MaxEmpty, guards'.fails = guards.fails,
         turn' = turn, turn \in 0..ceiling', ceiling' \in {MaxTurns, RaisedTurns}, gate' \in BOOLEAN,
         diag' \in BOOLEAN, cancelled' = cancelled, late' = late
  PROVE  IInv'
<1>1. Sound(messages') /\ pc' \in {"turn", "done"} /\ batch' \in {batch, NoBatch}
  BY TextOnlyFacts, TurnOverFacts DEF Nudged, Ends, Return
<1>2. batch' \in Batches /\ BatchFits' /\ ToolsRunInOrder' /\ AbortedEffectsNeverRan' /\ Transcript'
  BY <1>1, StepBetween DEF TextOnly, Between
<1>3. collected' \in Replies /\ attempt' \in 0..MaxStalls /\ forwarded' \in BOOLEAN
  BY TurnOverFacts DEF IInv, Typed, TypeOK, Nudged, Ends, streamVars
<1>4. Typed'
  <2>2. cancelled' \in BOOLEAN
    BY DEF IInv, Typed, TypeOK
  <2>3. /\ guards'.empty \in 0..MaxEmpty /\ guards'.nudges \in 0..MaxNudges
        /\ guards'.fails \in [Kinds -> 0..StopAt]
    BY DEF Guards
  <2> QED
    BY <1>1, <1>2, <1>3, <2>2, <2>3, SoundTyped DEF Typed, TypeOK
<1>5. StreaksAreShort' /\ LateIsLast'
  BY <1>1 DEF IInv, TextOnly, StreaksAreShort, LateIsLast
<1>6. ShownAsForwarded'
  BY <1>1, TurnOverFacts DEF IInv, Nudged, Ends, Return, ShownAsForwarded, streamVars
<1> QED
  BY <1>2, <1>4, <1>5, <1>6 DEF IInv

\* The count of empty turns goes up or back to 0.
LEMMA EmptyTurnCounts ==
  ASSUME EmptyTurn
  PROVE  \E n \in {0, guards.empty + 1} :
            /\ guards' = [guards EXCEPT !.empty = n]
            /\ (n >= MaxEmpty /\ Ends("no output", FALSE)) \/ (~(n >= MaxEmpty) /\ Nudged)
<1> PICK reasoned \in BOOLEAN :
      LET n == IF reasoned THEN 0 ELSE guards.empty + 1
      IN  /\ guards' = [guards EXCEPT !.empty = n]
          /\ IF n >= MaxEmpty THEN Ends("no output", FALSE) ELSE Nudged
  BY DEF EmptyTurn
<1>1. CASE reasoned
  BY <1>1
<1>2. CASE ~reasoned
  BY <1>2
<1> QED
  BY <1>1, <1>2

\* A turn without prose, or the last one that is allowed.
LEMMA EmptyTurnKeeps == ASSUME IInv, EmptyTurn PROVE IInv'
<1>a. MaxEmpty \in Nat \ {0}
  BY Numbers
<1>b. guards \in Guards /\ pc = "reply"
  BY DEF IInv, Typed, EmptyTurn, TextOnly
<1>c. guards.empty \in 0..MaxEmpty
  BY <1>b DEF Guards
<1>d. guards.empty < MaxEmpty
  BY <1>b DEF IInv, StreaksAreShort
<1>e. {0, guards.empty + 1} \subseteq 0..MaxEmpty /\ \A k \in 0..MaxEmpty : k >= MaxEmpty \/ k < MaxEmpty
  BY <1>a, <1>c, <1>d
<1> PICK n \in {0, guards.empty + 1} :
      /\ guards' = [guards EXCEPT !.empty = n]
      /\ (n >= MaxEmpty /\ Ends("no output", FALSE)) \/ (~(n >= MaxEmpty) /\ Nudged)
  BY EmptyTurnCounts
<1>1. n \in 0..MaxEmpty
  BY <1>e
<1>2. guards' \in Guards /\ guards'.empty = n /\ guards'.fails = guards.fails
  BY <1>b, <1>1 DEF Guards
<1>3. Nudged \/ (\E stop, incomplete : Ends(stop, incomplete))
  OBVIOUS
<1>4. pc' # "done" => n < MaxEmpty
  <2>1. pc' # "done" => ~(n >= MaxEmpty)
    BY DEF Ends, Return
  <2> QED
    BY <1>e, <1>1, <2>1
<1>5. gate' \in BOOLEAN /\ diag' \in BOOLEAN /\ turn \in 0..ceiling' /\ ceiling' \in {MaxTurns, RaisedTurns}
  BY DEF IInv, Typed, TypeOK, EmptyTurn, runVars
<1> QED
  BY <1>2, <1>3, <1>4, <1>5, ReplyKeeps DEF EmptyTurn, runVars

\* Prose that admits failure ends the run.
LEMMA IncompleteKeeps == ASSUME IInv, Incomplete PROVE IInv'
<1>1. guards' \in Guards /\ guards'.empty = 0 /\ guards'.fails = guards.fails
  BY Numbers DEF IInv, Typed, Guards, Incomplete
<1>2. gate' \in BOOLEAN /\ diag' \in BOOLEAN /\ turn \in 0..ceiling' /\ ceiling' \in {MaxTurns, RaisedTurns}
  BY DEF IInv, Typed, TypeOK, Incomplete, runVars
<1>3. 0 < MaxEmpty
  BY Numbers
<1>4. \E stop, incomplete : Ends(stop, incomplete)
  BY DEF Incomplete
<1> QED
  BY <1>1, <1>2, <1>3, <1>4, ReplyKeeps DEF Incomplete, Prose, runVars

\* The escalation touches no streak and lowers no ceiling.
LEMMA EscalatesFacts ==
  ASSUME Typed, NEW g \in Guards, Escalates(g)
  PROVE  /\ guards' \in Guards /\ guards'.empty = g.empty /\ guards'.fails = g.fails
         /\ turn \in 0..ceiling' /\ ceiling' \in {MaxTurns, RaisedTurns} /\ gate' \in BOOLEAN
<1>1. ceiling \in Nat /\ RaisedTurns \in Nat /\ turn \in 0..ceiling /\ ceiling \in {MaxTurns, RaisedTurns}
  BY Numbers DEF Typed, TypeOK
<1>2. CASE /\ guards' = [g EXCEPT !.escalated = TRUE]
           /\ ceiling' = IF RaisedTurns > ceiling THEN RaisedTurns ELSE ceiling
           /\ gate' \in {gate, TRUE}
  <2>1. guards' \in Guards /\ guards'.empty = g.empty /\ guards'.fails = g.fails
    BY <1>2 DEF Guards
  <2>2. turn \in 0..ceiling' /\ ceiling' \in {MaxTurns, RaisedTurns}
    BY <1>1, <1>2
  <2> QED
    BY <1>2, <2>1, <2>2 DEF Typed, TypeOK
<1>3. CASE guards' = g /\ UNCHANGED <<ceiling, gate>>
  BY <1>1, <1>3 DEF Typed, TypeOK
<1> QED
  BY <1>2, <1>3 DEF Escalates

\* Prose that is no end is nudged on; each nudge has a limit.
LEMMA UncertainKeeps == ASSUME IInv, Uncertain PROVE IInv'
<1>0. Typed /\ guards \in Guards /\ 0 \in 0..MaxEmpty
  BY Numbers DEF IInv, Typed
<1> PICK g \in Guards : g.empty = 0 /\ g.fails = guards.fails /\ Escalates(g)
  <2>1. CASE guards.nudges < MaxNudges /\ Escalates([guards EXCEPT !.empty = 0, !.nudges = @ + 1])
    <3>1. guards.nudges + 1 \in 0..MaxNudges
      BY <1>0, <2>1, Numbers DEF Guards
    <3>2. [guards EXCEPT !.empty = 0, !.nudges = @ + 1] \in Guards
      BY <1>0, <3>1 DEF Guards
    <3>3. /\ [guards EXCEPT !.empty = 0, !.nudges = @ + 1].empty = 0
          /\ [guards EXCEPT !.empty = 0, !.nudges = @ + 1].fails = guards.fails
      BY <1>0 DEF Guards
    <3> QED
      BY <2>1, <3>2, <3>3
  <2>2. CASE Escalates([guards EXCEPT !.empty = 0, !.checked = TRUE])
    <3>2. [guards EXCEPT !.empty = 0, !.checked = TRUE] \in Guards
      BY <1>0 DEF Guards
    <3>3. /\ [guards EXCEPT !.empty = 0, !.checked = TRUE].empty = 0
          /\ [guards EXCEPT !.empty = 0, !.checked = TRUE].fails = guards.fails
      BY <1>0 DEF Guards
    <3> QED
      BY <2>2, <3>2, <3>3
  <2> QED
    BY <2>1, <2>2 DEF Uncertain
<1>1. /\ guards' \in Guards /\ guards'.empty = 0 /\ guards'.fails = guards.fails
      /\ turn \in 0..ceiling' /\ ceiling' \in {MaxTurns, RaisedTurns} /\ gate' \in BOOLEAN
  BY <1>0, EscalatesFacts
<1>2. diag' \in BOOLEAN
  BY <1>0 DEF Typed, TypeOK, Uncertain
<1> QED
  BY <1>1, <1>2, Numbers, ReplyKeeps DEF Uncertain, Prose

\* The final answer.
LEMMA SettleKeeps == ASSUME IInv, Settle PROVE IInv'
<1>1. guards' \in Guards /\ guards'.empty = 0 /\ guards'.fails = guards.fails
  BY Numbers DEF IInv, Typed, Guards, Settle
<1>2. gate' \in BOOLEAN /\ diag' \in BOOLEAN /\ turn \in 0..ceiling' /\ ceiling' \in {MaxTurns, RaisedTurns}
  BY DEF IInv, Typed, TypeOK, Settle
<1>3. 0 < MaxEmpty
  BY Numbers
<1>4. Nudged \/ \E stop, incomplete : Ends(stop, incomplete)
  BY DEF Settle
<1> QED
  BY <1>1, <1>2, <1>3, <1>4, ReplyKeeps DEF Settle, Prose

\* At the ceiling: one more answer, or none.
LEMMA CeilingKeeps == ASSUME IInv, Ceiling PROVE IInv'
<1>0. Sound(messages) /\ turn \in Nat /\ turn + 1 \in Nat
  BY SoundBetween, Numbers DEF Ceiling, InBatch, IInv, Typed, TypeOK
<1>1. Sound(messages') /\ pc' = "done"
  <2>1. CASE messages' = messages
    BY <1>0, <2>1 DEF Ceiling, Return
  <2>2. ASSUME NEW nudge \in {FALSE, diag},
               \/ messages' = messages \o Notes(One(nudge)) \o <<User, Assistant(turn + 1, 0)>>
               \/ messages' = messages \o Notes(One(nudge))
        PROVE  Sound(messages')
    <3>1. Sound(messages \o Notes(One(nudge)))
      BY <1>0, SoundNotes, OneFacts DEF IInv, Typed, TypeOK
    <3> QED
      BY <1>0, <2>2, <3>1, SoundReply
  <2> QED
    BY <2>1, <2>2 DEF Ceiling, Return
<1>2. Typed'
  BY <1>1, SoundTyped DEF IInv, Ceiling, Typed, TypeOK, streamVars
<1>3. StreaksAreShort' /\ ShownAsForwarded' /\ LateIsLast'
  BY <1>1 DEF IInv, Ceiling, StreaksAreShort, ShownAsForwarded, LateIsLast, streamVars
<1>4. BatchFits' /\ ToolsRunInOrder' /\ AbortedEffectsNeverRan' /\ Transcript'
  BY <1>1, StepBetween DEF Ceiling, Between
<1> QED
  BY <1>2, <1>3, <1>4 DEF IInv

\* What a batch leaves behind, whether or not the run goes on.
LEMMA AfterBatchEnds ==
  ASSUME Typed, AfterBatch
  PROVE  \E n \in Nat, g \in Guards :
            /\ g.empty = guards.empty /\ g.fails = guards.fails
            /\ messages' = messages \o Notes(n)
            /\ \/ /\ Return("none", "stalled", FALSE)
                  /\ guards' = g /\ UNCHANGED <<ceiling, gate, streamVars, batch>>
               \/ TurnOver /\ Escalates(g)
<1> DEFINE touched == guards.touched + One(batch.edited)
           g == [guards EXCEPT !.touched = touched]
<1>0. guards \in Guards /\ batch.edited \in BOOLEAN /\ batch.hint \in BOOLEAN /\ collected.dropped \in BOOLEAN
  BY DEF Typed, Batches, Replies
<1>1. touched \in Nat
  BY <1>0, OneFacts DEF Guards
<1> HIDE DEF touched
<1>2. g \in Guards /\ g.empty = guards.empty /\ g.fails = guards.fails
  BY <1>0, <1>1 DEF Guards
<1> HIDE DEF g
<1>3. ASSUME NEW a \in BOOLEAN, NEW b \in BOOLEAN, NEW c \in BOOLEAN, NEW d \in BOOLEAN
      PROVE  One(a) \in Nat /\ One(a) + One(b) + One(c) + One(d) \in Nat
  BY OneFacts
<1>4. PICK feedback \in {FALSE, batch.edited}, switchFailed \in BOOLEAN, reminder \in {batch.hint, TRUE} :
        IF batch.edited /\ touched > MaxRework
        THEN /\ messages' = messages \o Notes(One(feedback))
             /\ Return("none", "stalled", FALSE)
             /\ guards' = g /\ UNCHANGED <<ceiling, gate, streamVars, batch>>
        ELSE /\ messages' = messages \o Notes(One(feedback) + One(switchFailed) + One(collected.dropped) + One(reminder))
             /\ TurnOver /\ Escalates(g)
  BY DEF AfterBatch, g, touched
<1>5. feedback \in BOOLEAN /\ reminder \in BOOLEAN
  BY <1>0
<1> QED
  BY <1>0, <1>2, <1>3, <1>4, <1>5

\* After a batch every call has its result, whatever is added.
LEMMA AfterBatchKeeps == ASSUME IInv, AfterBatch PROVE IInv'
<1>0. Typed /\ Sound(messages) /\ pc = "after"
  BY SoundBetween DEF AfterBatch, InBatch, IInv
<1> PICK n \in Nat, g \in Guards :
      /\ g.empty = guards.empty /\ g.fails = guards.fails
      /\ messages' = messages \o Notes(n)
      /\ \/ /\ Return("none", "stalled", FALSE)
            /\ guards' = g /\ UNCHANGED <<ceiling, gate, streamVars, batch>>
         \/ TurnOver /\ Escalates(g)
  BY <1>0, AfterBatchEnds
<1>1. Sound(messages')
  BY <1>0, SoundNotes
<1>2. CASE TurnOver /\ Escalates(g)
  <2>1. /\ guards' \in Guards /\ guards'.empty = g.empty /\ guards'.fails = g.fails
        /\ turn \in 0..ceiling' /\ ceiling' \in {MaxTurns, RaisedTurns} /\ gate' \in BOOLEAN
    BY <1>0, <1>2, EscalatesFacts
  <2>2. Typed'
    <3>1. /\ collected' \in Replies /\ attempt' \in 0..MaxStalls /\ forwarded' = FALSE
          /\ batch' \in Batches /\ pc' = "turn"
      BY <1>2, TurnOverFacts, NoBatchFacts
    <3>2. /\ guards'.empty \in 0..MaxEmpty /\ guards'.nudges \in 0..MaxNudges
          /\ guards'.fails \in [Kinds -> 0..StopAt]
      BY <2>1 DEF Guards
    <3> QED
      BY <1>0, <1>1, <2>1, <3>1, <3>2, SoundTyped DEF AfterBatch, Typed, TypeOK
  <2>3. StreaksAreShort' /\ ShownAsForwarded' /\ LateIsLast'
    BY <1>0, <1>2, <2>1, TurnOverFacts DEF IInv, AfterBatch, StreaksAreShort, LateIsLast
  <2>4. BatchFits' /\ ToolsRunInOrder' /\ AbortedEffectsNeverRan' /\ Transcript'
    BY <1>1, <1>2, StepOut, TurnOverFacts DEF Between
  <2> QED
    BY <2>2, <2>3, <2>4 DEF IInv
<1>3. CASE Return("none", "stalled", FALSE) /\ guards' = g /\ UNCHANGED <<ceiling, gate, streamVars, batch>>
  <2>1. pc' = "done"
    BY <1>3 DEF Return
  <2>2. Typed'
    <3>1. /\ guards'.empty \in 0..MaxEmpty /\ guards'.nudges \in 0..MaxNudges
          /\ guards'.fails \in [Kinds -> 0..StopAt]
      BY <1>3 DEF Guards
    <3> QED
      BY <1>0, <1>1, <1>3, <2>1, <3>1, SoundTyped DEF AfterBatch, Typed, TypeOK, streamVars
  <2>3. StreaksAreShort' /\ ShownAsForwarded' /\ LateIsLast'
    BY <1>0, <1>3, <2>1 DEF IInv, AfterBatch, StreaksAreShort, ShownAsForwarded, LateIsLast, streamVars
  <2>4. BatchFits' /\ Transcript'
    BY <1>1, <2>1 DEF BatchFits, Transcript, Sound, InBatch
  <2>5. ToolsRunInOrder'
    BY <1>3 DEF IInv, ToolsRunInOrder, streamVars
  <2>6. AbortedEffectsNeverRan'
    BY <1>1, NothingAborted DEF Sound
  <2> QED
    BY <2>2, <2>3, <2>4, <2>5, <2>6 DEF IInv
<1> QED
  BY <1>2, <1>3

-----------------------------------------------------------------------------
(* The batch.                                                              *)

\* A reply with calls opens a batch.
LEMMA BeginBatchKeeps == ASSUME IInv, BeginBatch PROVE IInv'
<1>0. Sound(messages) /\ turn \in Nat /\ NCalls \in 0..MaxCalls /\ NCalls > 0
  BY SMTT(60), SoundBetween, CallsFacts, Numbers DEF BeginBatch, InBatch, IInv, Typed, TypeOK, Replies, NCalls
<1>1. /\ messages' \in Seq(Message) /\ Matched(messages', Len(messages) + 1, 0)
      /\ IsOpen(messages', Len(messages) + 1, 0, turn, NCalls)
  BY <1>0, MatchedReply DEF BeginBatch, Replied, NCalls, Sound
<1>2. Len(messages) + 1 \in Nat
  BY <1>0, LenProperties DEF Sound
<1>3. Begun(messages') /\ NoneAborted(messages')
  <2> PICK m \in Message : m = Assistant(turn, NCalls) /\ ~IsTool(m)
    BY <1>0, ReplyFacts
  <2>1. /\ messages' = Append(messages, m) /\ Len(messages) \in Nat /\ messages' \in Seq(Message)
        /\ Len(messages') = Len(messages) + 1
        /\ \A i \in 1..(Len(messages) + 1) :
              messages'[i] = IF i <= Len(messages) THEN messages[i] ELSE m
    BY <1>0, <1>1, AppendProperties, LenProperties DEF BeginBatch, Replied, NCalls, Sound
  <2>2. DOMAIN messages = 1..Len(messages) /\ DOMAIN messages' = 1..(Len(messages) + 1)
    BY <1>0, <2>1, LenProperties DEF Sound
  <2>3. Len(messages) >= 2 /\ messages[1] = System /\ messages[2] = User
    BY <1>0 DEF Sound, Begun
  <2>4. Begun(messages')
    BY <2>1, <2>3 DEF Begun
  <2>5. NoneAborted(messages')
    BY <1>0, <2>1, <2>2 DEF NoneAborted, Sound
  <2> QED
    BY <2>4, <2>5
<1>4. Typed'
  <2>1. guards' \in Guards
    BY Numbers DEF IInv, Typed, Guards, BeginBatch
  <2>2. /\ guards'.empty \in 0..MaxEmpty /\ guards'.nudges \in 0..MaxNudges
        /\ guards'.fails \in [Kinds -> 0..StopAt]
    BY <2>1 DEF Guards
  <2> QED
    BY <1>1, <2>1, <2>2, NoBatchFacts DEF Message, ToolMessage, IInv, BeginBatch, Go, runVars, Typed, TypeOK, streamVars
<1>5. StreaksAreShort'
  <2>1. guards'.empty = 0 /\ guards'.fails = guards.fails
    BY DEF IInv, Typed, Guards, BeginBatch
  <2>2. 0 < MaxEmpty
    BY Numbers
  <2> QED
    BY <2>1, <2>2 DEF IInv, BeginBatch, StreaksAreShort
<1>6. ShownAsForwarded' /\ LateIsLast'
  BY DEF IInv, BeginBatch, Go, runVars, ShownAsForwarded, LateIsLast, streamVars
<1>7. pc' = "tools" /\ batch' = NoBatch /\ NCalls' = NCalls /\ turn' = turn
  BY DEF BeginBatch, Go, runVars, streamVars, NCalls
<1>8. BatchFits'
  <2>1. (1 + 1)..(1 - 1) = {} /\ 1 \in 1..NCalls /\ 1 <= NCalls + 1
    BY <1>0
  <2> QED
    BY <1>7, <2>1, NoBatchFacts DEF BatchFits, Between, InBatch
<1>9. Transcript'
  <2>1. batch'.index - 1 = 0
    BY <1>7, NoBatchFacts
  <2> QED
    BY <1>1, <1>2, <1>3, <1>7, <2>1 DEF Transcript, InBatch
<1>10. ToolsRunInOrder' /\ AbortedEffectsNeverRan'
  BY <1>7, NothingRan
<1> QED
  BY <1>4, <1>5, <1>6, <1>8, <1>9, <1>10 DEF IInv

\* The result of a call that ran ahead is taken without running it.
LEMMA PrecomputedKeeps == ASSUME IInv, Precomputed PROVE IInv'
<1>1. Typed'
  BY DEF IInv, Precomputed, Go, idle, runVars, Typed, TypeOK, streamVars
<1>2. StreaksAreShort' /\ ShownAsForwarded' /\ LateIsLast'
  BY DEF IInv, Precomputed, Go, idle, runVars, StreaksAreShort, ShownAsForwarded, LateIsLast, streamVars
<1>3. BatchFits' /\ ToolsRunInOrder' /\ AbortedEffectsNeverRan' /\ Transcript'
  BY DEF IInv, Precomputed, Go, idle, runVars, BatchFits, Between, InBatch, NCalls, ToolsRunInOrder,
     AbortedEffectsNeverRan, Ran, ToldAborted, Transcript, streamVars
<1> QED
  BY <1>1, <1>2, <1>3 DEF IInv

\* What an execution appends to what ran: a call, or a run of reads, none of which
\* ran before.
LEMMA ExecuteFacts ==
  ASSUME IInv, Execute
  PROVE  \E end \in Nat :
            /\ batch.index < end /\ end <= NCalls + 1 /\ batch.index \in Nat \ {0} /\ batch.ahead <= batch.index
            /\ batch' \in Batches /\ batch'.index = batch.index /\ batch'.ahead = end
            /\ batch'.ran = Append(batch.ran, batch.index..(end - 1))
            /\ end = batch.index + 1 \/ \A c \in batch.index..(end - 1) : collected.calls[c] = "read"
<1>1. /\ batch \in Batches /\ batch.index \in 1..NCalls /\ NCalls \in Nat /\ batch.ahead \in Nat
      /\ batch.index >= batch.ahead
  BY CallsFacts, Numbers DEF IInv, Typed, Replies, NCalls, Batches, BatchFits, InBatch, Execute
<1> PICK end \in ParallelEnds(batch.index) \cup {batch.index + 1} :
      batch' = [batch EXCEPT !.ahead = end, !.ran = Append(@, batch.index..(end - 1))]
  BY DEF Execute
<1>2. end \in Nat /\ batch.index < end /\ end <= NCalls + 1
  BY <1>1 DEF ParallelEnds
<1>3. end = batch.index + 1 \/ \A c \in batch.index..(end - 1) : collected.calls[c] = "read"
  BY DEF ParallelEnds
<1>4. batch.ran \in Seq(SUBSET Nat) /\ batch.index..(end - 1) \in SUBSET Nat
  BY <1>1, <1>2 DEF Batches
<1>5. Append(batch.ran, batch.index..(end - 1)) \in Seq(SUBSET Nat)
  BY <1>4, AppendProperties
<1>6. /\ batch' \in Batches /\ batch'.index = batch.index /\ batch'.ahead = end
      /\ batch'.ran = Append(batch.ran, batch.index..(end - 1))
  <2> DEFINE r == Append(batch.ran, batch.index..(end - 1))
  <2>1. r \in Seq(SUBSET Nat) /\ batch' = [batch EXCEPT !.ahead = end, !.ran = r]
    BY <1>1, <1>5 DEF Batches
  <2>2. end \in Nat \ {0} /\ batch \in Batches
    BY <1>1, <1>2
  <2> HIDE DEF r
  <2>3. /\ batch' \in Batches /\ batch'.index = batch.index /\ batch'.ahead = end /\ batch'.ran = r
    BY <2>1, <2>2 DEF Batches
  <2> QED
    BY <2>3 DEF r
<1> QED
  BY <1>1, <1>2, <1>3, <1>6

\* What is executed comes after all that ran.
LEMMA ExecuteKeeps == ASSUME IInv, Execute PROVE IInv'
<1> PICK end \in Nat :
      /\ batch.index < end /\ end <= NCalls + 1 /\ batch.index \in Nat \ {0} /\ batch.ahead <= batch.index
      /\ batch' \in Batches /\ batch'.index = batch.index /\ batch'.ahead = end
      /\ batch'.ran = Append(batch.ran, batch.index..(end - 1))
      /\ end = batch.index + 1 \/ \A c \in batch.index..(end - 1) : collected.calls[c] = "read"
  BY ExecuteFacts
<1> DEFINE i == batch.index
           old == batch.ran
           new == batch'.ran
<1>1. /\ NCalls \in Nat /\ i \in 1..NCalls /\ old \in Seq(SUBSET Nat) /\ batch.ahead \in Nat
      /\ \A p \in DOMAIN old : \A c \in old[p] : c < batch.ahead
      /\ pc = "tools" /\ pc' = "result" /\ turn' = turn /\ messages' = messages /\ collected' = collected
  BY CallsFacts DEF IInv, Typed, Replies, Batches, BatchFits, InBatch, Execute, NCalls, Go, streamVars
<1>2. /\ Len(old) \in Nat /\ DOMAIN old = 1..Len(old) /\ DOMAIN new = 1..(Len(old) + 1)
      /\ new[Len(old) + 1] = i..(end - 1)
      /\ \A p \in 1..Len(old) : new[p] = old[p] /\ old[p] \in SUBSET Nat
  <2>1. i..(end - 1) \in SUBSET Nat
    BY <1>1
  <2>2. /\ new \in Seq(SUBSET Nat) /\ Len(new) = Len(old) + 1 /\ Len(old) \in Nat
        /\ \A p \in 1..(Len(old) + 1) : new[p] = IF p <= Len(old) THEN old[p] ELSE i..(end - 1)
    BY <1>1, <2>1, AppendProperties, LenProperties
  <2> HIDE DEF new, old
  <2>3. DOMAIN old = 1..Len(old) /\ DOMAIN new = 1..(Len(old) + 1) /\ \A p \in 1..Len(old) : old[p] \in SUBSET Nat
    BY <1>1, <2>2, LenProperties, ElementOfSeq
  <2> QED
    BY <2>2, <2>3
<1>3. i \in Nat /\ i < end /\ end <= NCalls + 1 /\ batch.ahead <= i
  BY <1>1
<1> HIDE DEF i, old, new
<1>4. Typed'
  BY <1>1 DEF IInv, Execute, Go, Typed, TypeOK, streamVars
<1>5. StreaksAreShort' /\ ShownAsForwarded'
  BY DEF IInv, Execute, Go, StreaksAreShort, ShownAsForwarded, streamVars
<1>6. LateIsLast'
  <2>1. late = 0 /\ late' = late + One(cancelled) /\ cancelled' = cancelled /\ cancelled \in BOOLEAN
    BY DEF IInv, Typed, TypeOK, LateIsLast, Execute
  <2>2. (cancelled /\ late' = 1) \/ (~cancelled /\ late' = 0)
    BY <2>1 DEF One
  <2> QED
    BY <1>1, <2>1, <2>2 DEF LateIsLast
<1>7. BatchFits'
  <2>1. ASSUME NEW p \in DOMAIN new, NEW c \in new[p]
        PROVE  c < end
    <3>1. CASE p \in 1..Len(old)
      <4>1. c \in Nat /\ c < batch.ahead
        BY <1>1, <1>2, <3>1 DEF old
      <4> QED
        BY <1>1, <1>3, <4>1
    <3>2. CASE p = Len(old) + 1
      BY <1>2, <1>3, <3>2
    <3> QED
      BY <1>2, <3>1, <3>2
  <2>2. ASSUME NEW c \in (i + 1)..(end - 1)
        PROVE  collected.calls[c] = "read"
    <3>1. c \in i..(end - 1) /\ end # i + 1
      BY <1>3
    <3> QED
      BY <3>1 DEF i
  <2>3. NCalls' = NCalls /\ Between("result") = FALSE /\ batch'.index = i /\ batch'.ahead = end /\ batch'.ran = new
    BY <1>1 DEF NCalls, Between, i, new
  <2> QED
    BY <1>1, <1>3, <2>1, <2>2, <2>3 DEF BatchFits, InBatch, Between
<1>8. ToolsRunInOrder'
  <2>1. ASSUME NEW p \in DOMAIN new, Cardinality(new[p]) > 1
        PROVE  \A c \in new[p] : collected.calls[c] = "read"
    <3>1. CASE p \in 1..Len(old)
      BY <1>2, <2>1, <3>1 DEF IInv, ToolsRunInOrder, old
    <3>2. CASE p = Len(old) + 1
      <4>1. new[p] = i..(end - 1)
        BY <1>2, <3>2
      <4>2. end # i + 1
        <5> SUFFICES ASSUME end = i + 1 PROVE FALSE
          OBVIOUS
        <5>1. i..(end - 1) = {i}
          BY <1>3
        <5>2. Cardinality(new[p]) = 1
          BY <4>1, <5>1, FS_Singleton
        <5> QED
          BY <2>1, <5>2
      <4> QED
        BY <4>1, <4>2 DEF i
    <3> QED
      BY <1>2, <3>1, <3>2
  <2>2. ASSUME NEW p \in DOMAIN new, NEW q \in 1..(p - 1), NEW c \in new[p], NEW d \in new[q]
        PROVE  d < c
    <3>0. q \in 1..Len(old) /\ new[q] = old[q]
      BY <1>2
    <3>1. CASE p \in 1..Len(old)
      BY <1>2, <3>0, <3>1 DEF IInv, ToolsRunInOrder, old
    <3>2. CASE p = Len(old) + 1
      <4>1. c \in i..(end - 1)
        BY <1>2, <3>2
      <4>2. d \in Nat /\ d < batch.ahead
        BY <1>1, <1>2, <3>0 DEF old
      <4> QED
        BY <1>1, <1>3, <4>1, <4>2
    <3> QED
      BY <1>2, <3>1, <3>2
  <2>3. batch'.ran = new
    BY DEF new
  <2> QED
    BY <1>1, <2>1, <2>2, <2>3 DEF ToolsRunInOrder
<1>9. AbortedEffectsNeverRan'
  BY <1>1, NothingAborted DEF IInv, Transcript
<1>10. Transcript'
  <2>1. batch'.index = batch.index /\ NCalls' = NCalls
    BY <1>1 DEF NCalls
  <2> QED
    BY <1>1, <2>1 DEF IInv, Transcript, InBatch
<1> QED
  BY <1>4, <1>5, <1>6, <1>7, <1>8, <1>9, <1>10 DEF IInv

\* The transcript with the result of the call at the index.
LEMMA RecordFacts ==
  ASSUME IInv, InBatch, NEW b \in {"small", "large"}
  PROVE  \E open \in Nat :
            /\ Record(b) \in Seq(Message) /\ Matched(Record(b), open, batch.index)
            /\ IsOpen(Record(b), open, batch.index, turn, NCalls)
            /\ Begun(Record(b)) /\ NoneAborted(Record(b))
<1> DEFINE new == Record(b)
<1>1. /\ messages \in Seq(Message) /\ turn \in Nat /\ NCalls \in 0..MaxCalls /\ batch.index \in 1..NCalls
      /\ Begun(messages) /\ NoneAborted(messages)
  BY TypedMessages, CallsFacts, Numbers
     DEF IInv, Typed, TypeOK, Replies, NCalls, BatchFits, Transcript, InBatch
<1> PICK open \in Nat : /\ Matched(messages, open, batch.index - 1)
                        /\ IsOpen(messages, open, batch.index - 1, turn, NCalls)
  BY DEF IInv, Transcript
<1>2. batch.index - 1 \in Nat /\ batch.index - 1 < NCalls /\ (batch.index - 1) + 1 = batch.index
  BY <1>1, Numbers
<1>3. b \in {"small", "large", "pruned", "aborted"} /\ batch.index \in 1..MaxCalls
  BY <1>1, Numbers
<1>4. new \in Seq(Message) /\ Matched(new, open, batch.index) /\ IsOpen(new, open, batch.index, turn, NCalls)
  BY <1>1, <1>2, <1>3, MatchedResult DEF Record
<1> PICK m \in Message : m = ToolResult(turn, batch.index, b) /\ m.body = b
  BY <1>1, <1>3, ResultFacts
<1>5. /\ Len(messages) \in Nat /\ Len(new) = Len(messages) + 1
      /\ \A i \in 1..(Len(messages) + 1) : new[i] = IF i <= Len(messages) THEN messages[i] ELSE m
  BY <1>1, AppendProperties, LenProperties DEF Record
<1>6. DOMAIN messages = 1..Len(messages) /\ DOMAIN new = 1..(Len(messages) + 1)
  BY <1>1, <1>4, <1>5, LenProperties
<1> HIDE DEF new
<1>7. Begun(new)
  <2>1. Len(messages) >= 2 /\ messages[1] = System /\ messages[2] = User
    BY <1>1 DEF Begun
  <2> QED
    BY <1>5, <2>1 DEF Begun
<1>8. NoneAborted(new)
  BY <1>1, <1>5, <1>6 DEF NoneAborted
<1> QED
  BY <1>4, <1>7, <1>8 DEF new

\* The last result of a run and the placeholders after it.
LEMMA CloseOutFacts ==
  ASSUME IInv, pc = "result", NEW b \in {"small", "large"}, CloseOut(b), pc' = "done",
         batch' = batch, collected' = collected, turn' = turn
  PROVE  /\ BatchFits' /\ ToolsRunInOrder' /\ AbortedEffectsNeverRan' /\ Transcript'
         /\ messages' \in Seq(Message)
<1> DEFINE ms == Record(b)
           i == batch.index
           s == Aborted(turn, i + 1, NCalls)
<1> PICK open \in Nat : /\ ms \in Seq(Message) /\ Matched(ms, open, i) /\ IsOpen(ms, open, i, turn, NCalls)
                        /\ Begun(ms) /\ NoneAborted(ms)
  BY RecordFacts DEF InBatch
<1>1. /\ turn \in Nat /\ NCalls \in 0..MaxCalls /\ i \in 1..NCalls /\ i \in Nat /\ i <= NCalls
      /\ messages' = ms \o s
      /\ \A p \in DOMAIN batch.ran : \A c \in batch.ran[p] : c < batch.ahead
      /\ \A c \in (i + 1)..(batch.ahead - 1) : collected.calls[c] = "read"
  BY CallsFacts, Numbers DEF IInv, Typed, TypeOK, Replies, NCalls, BatchFits, InBatch, CloseOut
<1>2. batch.ahead \in Nat /\ \A p \in DOMAIN batch.ran : batch.ran[p] \in SUBSET Nat
  BY ElementOfSeq, LenProperties DEF IInv, Typed, Batches
<1> HIDE DEF ms, i
<1>3. messages' \in Seq(Message) /\ Matched(messages', 0, 0)
  BY <1>1, MatchedCloseOut
<1>4. /\ s \in Seq(Message) /\ Len(s) = NCalls - i
      /\ \A j \in 1..(NCalls - i) : s[j] = ToolResult(turn, i + j, "aborted")
  BY <1>1, AbortedFacts
<1>5. /\ Len(ms) \in Nat /\ Len(messages') = Len(ms) + (NCalls - i)
      /\ \A k \in 1..(Len(ms) + (NCalls - i)) :
            messages'[k] = IF k <= Len(ms) THEN ms[k] ELSE s[k - Len(ms)]
  <2>1. Len(ms) \in Nat /\ Len(s) = NCalls - i /\ NCalls - i \in Nat
    BY <1>1, <1>4, LenProperties
  <2>2. /\ Len(ms \o s) = Len(ms) + Len(s)
        /\ \A k \in 1..(Len(ms) + Len(s)) : (ms \o s)[k] = IF k <= Len(ms) THEN ms[k] ELSE s[k - Len(ms)]
    BY <1>4, ConcatProperties
  <2> HIDE DEF s
  <2> QED
    BY <1>1, <2>1, <2>2
<1> HIDE DEF s
<1>6. DOMAIN ms = 1..Len(ms) /\ DOMAIN messages' = 1..(Len(ms) + (NCalls - i))
  BY <1>3, <1>5, LenProperties
<1>7. Begun(messages')
  <2>1. Len(ms) >= 2 /\ ms[1] = System /\ ms[2] = User
    BY DEF Begun
  <2> QED
    BY <1>1, <1>5, <2>1 DEF Begun
<1>8. ASSUME NEW c \in DOMAIN collected.calls, NEW k \in DOMAIN messages',
             messages'[k] = ToolResult(turn, c, "aborted")
      PROVE  c \in (i + 1)..NCalls
  <2>1. CASE k <= Len(ms)
    <3>1. ms[k] = ToolResult(turn, c, "aborted") /\ k \in DOMAIN ms
      BY <1>5, <1>6, <1>8, <2>1
    <3> QED
      BY <3>1 DEF NoneAborted, ToolResult, IsTool
  <2>2. CASE ~(k <= Len(ms))
    <3>1. k - Len(ms) \in 1..(NCalls - i)
      BY <1>1, <1>5, <1>6, <2>2
    <3>2. messages'[k] = ToolResult(turn, i + (k - Len(ms)), "aborted")
      BY <1>4, <1>5, <1>6, <2>2, <3>1
    <3>3. c = i + (k - Len(ms))
      BY <1>8, <3>2 DEF ToolResult
    <3> QED
      BY SMTT(60), <1>1, <1>5, <3>1, <3>3
  <2> QED
    BY <2>1, <2>2
<1>9. AbortedEffectsNeverRan'
  <2> SUFFICES ASSUME NEW c \in DOMAIN collected.calls, NEW k \in DOMAIN messages',
                      messages'[k] = ToolResult(turn, c, "aborted"),
                      collected.calls[c] = "solo",
                      NEW p \in DOMAIN batch.ran, c \in batch.ran[p]
               PROVE  FALSE
    BY DEF AbortedEffectsNeverRan, ToldAborted, Ran
  <2>1. c \in (i + 1)..NCalls
    BY <1>8
  <2>2. c < batch.ahead
    BY <1>1
  <2>3. c \in (i + 1)..(batch.ahead - 1)
    BY <1>1, <1>2, <2>1, <2>2
  <2> QED
    BY <1>1, <2>3
<1>10. ToolsRunInOrder'
  BY DEF IInv, ToolsRunInOrder
<1>11. BatchFits' /\ Transcript'
  BY <1>3, <1>7 DEF BatchFits, Transcript, InBatch
<1> QED
  BY <1>3, <1>9, <1>10, <1>11

\* A run that ends in a batch.
LEMMA CloseOutKeeps ==
  ASSUME IInv, pc = "result", NEW b \in {"small", "large"}, CloseOut(b), pc' = "done",
         guards' \in Guards, UNCHANGED <<runVars, streamVars, batch>>
  PROVE  IInv'
<1>1. /\ BatchFits' /\ ToolsRunInOrder' /\ AbortedEffectsNeverRan' /\ Transcript'
      /\ messages' \in Seq(Message)
  BY CloseOutFacts DEF runVars, streamVars
<1>2. Typed'
  <2>1. /\ guards'.empty \in 0..MaxEmpty /\ guards'.nudges \in 0..MaxNudges
        /\ guards'.fails \in [Kinds -> 0..StopAt]
    BY DEF Guards
  <2> QED
    BY <1>1, <2>1 DEF IInv, Typed, TypeOK, runVars, streamVars, Message, ToolMessage
<1>3. StreaksAreShort' /\ ShownAsForwarded' /\ LateIsLast'
  BY DEF IInv, StreaksAreShort, ShownAsForwarded, LateIsLast, runVars, streamVars
<1> QED
  BY <1>1, <1>2, <1>3 DEF IInv

\* A canceled prompt or an ended context closes the batch out ...
LEMMA AbortKeeps == ASSUME IInv, Abort PROVE IInv'
<1> PICK b \in Bodies : CloseOut(b)
  BY DEF Abort
<1>1. b \in {"small", "large"}
  BY Numbers
<1> QED
  BY <1>1, CloseOutKeeps DEF Abort, Return, idle, IInv, Typed

\* ... and so does a specification to review.
LEMMA SpecReviewKeeps == ASSUME IInv, SpecReview PROVE IInv'
BY CloseOutKeeps DEF SpecReview, Return, idle, IInv, Typed

\* What a result does to the streak of its tool and to the batch.
LEMMA ResultCases ==
  ASSUME IInv, NEW outcome \in Outcomes, NEW body \in Bodies, Result(outcome, body)
  PROVE  /\ guards' \in Guards /\ guards'.empty = guards.empty
         /\ \/ CloseOut(body) /\ pc' = "done" /\ UNCHANGED <<batch, diag>>
            \/ /\ messages' = Record(body) /\ \A k \in Kinds : guards'.fails[k] < StopAt
               /\ batch' \in Batches /\ batch'.index = batch.index + 1
               /\ batch'.ahead = batch.ahead /\ batch'.ran = batch.ran
               /\ diag' \in BOOLEAN
               /\ pc' = IF batch.index = NCalls THEN "after" ELSE "tools"
<1> DEFINE kind == collected.calls[batch.index]
           n == Failures(kind, outcome)
<1>0. guards \in Guards /\ batch \in Batches /\ diag \in BOOLEAN /\ StopAt \in Nat \ {0}
  BY Numbers DEF IInv, Typed, TypeOK
<1>a. kind \in Kinds
  BY CallsFacts DEF IInv, Typed, Replies, BatchFits, InBatch, NCalls, Result
<1>b. \A k \in Kinds : guards.fails[k] \in 0..StopAt
  BY <1>0 DEF Guards
<1>c. \A k \in Kinds : guards.fails[k] < StopAt
  BY DEF IInv, StreaksAreShort, Result
<1>2. n \in 0..StopAt
  <2> HIDE DEF kind
  <2>1. guards.fails[kind] + 1 \in 0..StopAt /\ 1 \in 0..StopAt /\ 0 \in 0..StopAt
    BY <1>0, <1>a, <1>b, <1>c
  <2>2. n \in {guards.fails[kind] + 1, 1, 0}
    BY DEF Failures
  <2> QED
    BY <2>1, <2>2
<1>3. /\ guards' = [guards EXCEPT !.fails[kind] = n]
      /\ IF Stops(n)
         THEN CloseOut(body) /\ Return("none", "tool failure", FALSE) /\ UNCHANGED <<batch, diag>>
         ELSE /\ messages' = Record(body)
              /\ batch' = [batch EXCEPT !.index = @ + 1, !.edited = @ \/ outcome = "edits",
                                        !.hint = @ \/ n = HintAt]
              /\ diag' = (diag \/ outcome = "edits")
              /\ Go(IF batch.index = NCalls THEN "after" ELSE "tools")
  BY DEF Result
<1> HIDE DEF n, kind
<1>4. guards' \in Guards /\ guards'.empty = guards.empty /\ guards'.fails = [guards.fails EXCEPT ![kind] = n]
  BY <1>0, <1>a, <1>2, <1>3 DEF Guards
<1>5. CASE Stops(n)
  BY <1>3, <1>4, <1>5 DEF Return
<1>6. CASE ~Stops(n)
  <2>1. n < StopAt
    BY <1>0, <1>2, <1>6 DEF Stops
  <2>2. \A k \in Kinds : guards'.fails[k] < StopAt
    BY <1>0, <1>c, <1>4, <2>1 DEF Guards
  <2>3. /\ batch' \in Batches /\ batch'.index = batch.index + 1
        /\ batch'.ahead = batch.ahead /\ batch'.ran = batch.ran
    <3> DEFINE e == batch.edited \/ outcome = "edits"
               h == batch.hint \/ n = HintAt
               i == batch.index + 1
    <3>1. batch' = [batch EXCEPT !.index = i, !.edited = e, !.hint = h]
      BY <1>0, <1>3, <1>6 DEF Batches
    <3>2. e \in BOOLEAN /\ h \in BOOLEAN
      BY <1>0 DEF Batches
    <3>3. i \in Nat \ {0}
      BY <1>0 DEF Batches
    <3> HIDE DEF e, h, i
    <3>4. /\ batch' \in Batches /\ batch'.index = i
          /\ batch'.ahead = batch.ahead /\ batch'.ran = batch.ran
      BY <1>0, <3>1, <3>2, <3>3 DEF Batches
    <3> QED
      BY <3>4 DEF i
  <2>4. diag' \in BOOLEAN
    BY <1>0, <1>3, <1>6
  <2> QED
    BY <1>3, <1>4, <1>6, <2>2, <2>3, <2>4 DEF Go
<1> QED
  BY <1>5, <1>6

\* A result goes to its call, and the last one closes the batch.
LEMMA ResultKeeps == ASSUME IInv, NEW outcome \in Outcomes, NEW body \in Bodies, Result(outcome, body) PROVE IInv'
<1>0. /\ body \in {"small", "large"} /\ pc = "result" /\ turn' = turn /\ collected' = collected
      /\ cancelled' = cancelled /\ late' = late
  BY Numbers DEF Result, streamVars
<1>1. guards' \in Guards /\ guards'.empty = guards.empty
  BY ResultCases
<1>2. CASE CloseOut(body) /\ pc' = "done" /\ UNCHANGED <<batch, diag>>
  BY <1>0, <1>1, <1>2, CloseOutKeeps DEF Result, runVars, streamVars
<1>3. CASE /\ messages' = Record(body) /\ \A k \in Kinds : guards'.fails[k] < StopAt
           /\ batch' \in Batches /\ batch'.index = batch.index + 1
           /\ batch'.ahead = batch.ahead /\ batch'.ran = batch.ran
           /\ diag' \in BOOLEAN
           /\ pc' = IF batch.index = NCalls THEN "after" ELSE "tools"
  <2> PICK open \in Nat :
        /\ messages' \in Seq(Message) /\ Matched(messages', open, batch.index)
        /\ IsOpen(messages', open, batch.index, turn, NCalls)
        /\ Begun(messages') /\ NoneAborted(messages')
    BY <1>0, <1>3, RecordFacts DEF InBatch
  <2>1. /\ NCalls \in 0..MaxCalls /\ NCalls \in Nat /\ batch.index \in 1..NCalls /\ turn \in Nat
        /\ batch.index + 1 - 1 = batch.index
    BY <1>0, CallsFacts, Numbers DEF IInv, Typed, TypeOK, Replies, NCalls, BatchFits, InBatch
  <2>2. NCalls' = NCalls
    BY <1>0 DEF NCalls
  <2>3. Typed'
    <3>1. /\ guards'.empty \in 0..MaxEmpty /\ guards'.nudges \in 0..MaxNudges
          /\ guards'.fails \in [Kinds -> 0..StopAt]
      BY <1>1 DEF Guards
    <3> QED
      BY <1>0, <1>1, <1>3, <3>1 DEF Message, ToolMessage, IInv, Result, Typed, TypeOK, streamVars
  <2>4. StreaksAreShort' /\ LateIsLast'
    BY <1>0, <1>1, <1>3 DEF IInv, StreaksAreShort, Result, LateIsLast
  <2>5. ShownAsForwarded'
    BY <1>3 DEF IInv, ShownAsForwarded, Result, streamVars
  <2>6. ToolsRunInOrder'
    BY <1>0, <1>3 DEF IInv, ToolsRunInOrder
  <2>7. AbortedEffectsNeverRan'
    BY NothingAborted
  <2>8. CASE batch.index = NCalls
    <3>1. pc' = "after"
      BY <1>3, <2>8
    <3>2. Matched(messages', 0, 0)
      BY <2>1, <2>8, MatchedEnd
    <3>3. BatchFits' /\ Transcript'
      BY <3>1, <3>2 DEF BatchFits, Between, Transcript, InBatch
    <3> QED
      BY <2>3, <2>4, <2>5, <2>6, <2>7, <3>3 DEF IInv
  <2>9. CASE batch.index # NCalls
    <3>1. pc' = "tools" /\ batch.index + 1 \in 1..NCalls
      BY <1>3, <2>1, <2>9
    <3>2. BatchFits'
      <4>1. /\ batch.ahead <= NCalls + 1
            /\ \A p \in DOMAIN batch.ran : \A c \in batch.ran[p] : c < batch.ahead
            /\ \A c \in (batch.index + 1)..(batch.ahead - 1) : collected.calls[c] = "read"
        BY <1>0 DEF IInv, BatchFits, InBatch
      <4>2. batch.ahead \in Nat
        BY DEF IInv, Typed, Batches
      <4>3. \A c \in (batch.index + 1 + 1)..(batch.ahead - 1) : c \in (batch.index + 1)..(batch.ahead - 1)
        BY <2>1, <4>2
      <4> QED
        BY <1>0, <1>3, <2>2, <3>1, <4>1, <4>3 DEF BatchFits, Between, InBatch
    <3>3. Transcript'
      BY <1>0, <1>3, <2>1, <2>2, <3>1 DEF Transcript, InBatch
    <3> QED
      BY <2>3, <2>4, <2>5, <2>6, <2>7, <3>2, <3>3 DEF IInv
  <2> QED
    BY <2>8, <2>9
<1> QED
  BY <1>2, <1>3, ResultCases

\* So does a step in which nothing happens.
LEMMA StutterKeeps == ASSUME IInv, UNCHANGED vars PROVE IInv'
BY DEF vars, IInv, Typed, TypeOK, StreaksAreShort, ShownAsForwarded, BatchFits, InBatch, NCalls, LateIsLast,
   ToolsRunInOrder, AbortedEffectsNeverRan, Ran, ToldAborted, Transcript

\* So every step keeps the invariant ...
LEMMA NextKeeps == ASSUME IInv, [Next]_vars PROVE IInv'
<1>1. CASE Loop
  BY <1>1, BeginTurnKeeps, MaybeCompactKeeps, ConnectKeeps, ReconnectKeeps, StreamKeeps, FirstErrorKeeps,
     LastErrorKeeps, ReissueKeeps, CheckContextKeeps, StallRetryKeeps, StallEndsKeeps, DroppedKeeps,
     EmptyTurnKeeps, IncompleteKeeps, UncertainKeeps, SettleKeeps, BeginBatchKeeps, ExecuteKeeps,
     PrecomputedKeeps, AbortKeeps, SpecReviewKeeps, ResultKeeps, AfterBatchKeeps, CeilingKeeps DEF Loop
<1> QED
  BY <1>1, CancelKeeps, StutterKeeps DEF Next

\* ... and every state of a run has it.
LEMMA Inductive == Spec => []IInv
BY InitHolds, NextKeeps, PTL DEF Spec

-----------------------------------------------------------------------------
(* The theorems.                                                           *)

\* The user never sees the prose of one turn twice, however often its stream is
\* retried or sent again.
THEOREM TextIsShownOnce == Spec => []TextShownOnce
<1>1. IInv => TextShownOnce
  BY OneFacts DEF IInv, Typed, TypeOK, ShownAsForwarded, TextShownOnce
<1> QED
  BY <1>1, Inductive, PTL

\* The calls of a reply run once and in order, only reads run side by side, a call
\* with effects that was reported as aborted did not run, and a cancelled run begins
\* one more execution at most.
THEOREM BatchesRunAsTold == Spec => []BatchRunsAsTold
<1>1. IInv => BatchRunsAsTold
  BY DEF IInv, LateIsLast, BatchRunsAsTold, CancelStopsTheTools
<1> QED
  BY <1>1, Inductive, PTL

\* Every transcript that is sent, and the one that Run returns, gives each call its
\* result right after the reply and each result its call.
THEOREM RequestsStayReplayable == Spec => []RequestsReplay
<1>1. ASSUME IInv
      PROVE  RequestsReplay
  <2>1. TypeOK /\ messages \in Seq(Message) /\ DOMAIN messages = 1..Len(messages)
    BY <1>1, TypedMessages, LenProperties DEF IInv, Typed
  <2>2. ASSUME ~InBatch
        PROVE  Replayable(messages)
    <3>1. Begun(messages) /\ Matched(messages, 0, 0) /\ \A i \in DOMAIN messages : i # 0
      BY <1>1, <2>1, <2>2 DEF IInv, Transcript
    <3>2. ASSUME NEW i \in DOMAIN messages
          PROVE  /\ messages[i].role = "assistant" => Answered(messages, i, messages[i].calls)
                 /\ IsTool(messages[i]) => Asked(messages, i)
      BY <3>1 DEF Matched
    <3> QED
      BY <3>1, <3>2 DEF Replayable, Begun, Answered, Asked
  <2> QED
    BY <2>1, <2>2 DEF RequestsReplay, InBatch
<1> QED
  BY <1>1, Inductive, PTL

-----------------------------------------------------------------------------
(* Results that no request has carried.                                    *)

\* The transcript keeps what it has.
Longer(ms, new) == \A i \in DOMAIN ms : i \in DOMAIN new /\ new[i] = ms[i]

\* Messages added at the end ...
LEMMA LongerConcat ==
  ASSUME NEW ms \in Seq(Message), NEW s \in Seq(Message)
  PROVE  Longer(ms, ms \o s) /\ ms \o s \in Seq(Message)
<1> DEFINE new == ms \o s
<1>1. /\ Len(ms) \in Nat /\ Len(s) \in Nat /\ Len(new) = Len(ms) + Len(s) /\ new \in Seq(Message)
      /\ \A i \in 1..(Len(ms) + Len(s)) : new[i] = IF i <= Len(ms) THEN ms[i] ELSE s[i - Len(ms)]
  BY ConcatProperties, LenProperties
<1> HIDE DEF new
<1>2. DOMAIN ms = 1..Len(ms) /\ DOMAIN new = 1..(Len(ms) + Len(s))
  BY <1>1, LenProperties
<1>3. Longer(ms, new)
  BY <1>1, <1>2 DEF Longer
<1> QED
  BY <1>1, <1>3 DEF new

\* ... one of them ...
LEMMA LongerAppend ==
  ASSUME NEW ms \in Seq(Message), NEW m \in Message
  PROVE  Longer(ms, Append(ms, m)) /\ Append(ms, m) \in Seq(Message)
<1>1. <<m>> \in Seq(Message) /\ Append(ms, m) = ms \o <<m>>
  BY AppendIsConcat
<1> QED
  BY <1>1, LongerConcat

\* ... and more after them.
LEMMA LongerTwice ==
  ASSUME NEW a, NEW b, NEW c, Longer(a, b), Longer(b, c)
  PROVE  Longer(a, c)
BY DEF Longer

\* What the loop appends.
LEMMA LongerNotes ==
  ASSUME NEW ms \in Seq(Message), NEW n \in Nat
  PROVE  Longer(ms, ms \o Notes(n)) /\ ms \o Notes(n) \in Seq(Message)
<1>1. Notes(n) \in [1..n -> Message]
  BY PlainFacts DEF Notes
<1>2. Notes(n) \in Seq(Message)
  BY <1>1, IsASeq
<1> QED
  BY <1>2, LongerConcat

\* A reply, and a note after it.
LEMMA LongerReplied ==
  ASSUME IInv
  PROVE  /\ messages \in Seq(Message) /\ Replied \in Seq(Message) /\ Longer(messages, Replied)
         /\ Longer(messages, Append(Replied, User))
<1>1. messages \in Seq(Message) /\ turn \in Nat /\ Len(collected.calls) \in 0..MaxCalls
  BY TypedMessages, CallsFacts, Numbers DEF IInv, Typed, TypeOK, Replies
<1> PICK m \in Message : m = Assistant(turn, Len(collected.calls))
  BY <1>1, ReplyFacts
<1>2. Replied \in Seq(Message) /\ Longer(messages, Replied)
  BY <1>1, LongerAppend DEF Replied
<1>3. Longer(Replied, Append(Replied, User))
  BY <1>2, LongerAppend, PlainFacts
<1> QED
  BY <1>1, <1>2, <1>3, LongerTwice

\* A result, and placeholders after it.
LEMMA LongerRecord ==
  ASSUME IInv, pc = "result", NEW b \in {"small", "large"}
  PROVE  Longer(messages, Record(b)) /\ Longer(messages, Record(b) \o Aborted(turn, batch.index + 1, NCalls))
<1>1. /\ messages \in Seq(Message) /\ turn \in Nat /\ NCalls \in 0..MaxCalls
      /\ batch.index \in 1..MaxCalls /\ batch.index \in Nat /\ batch.index <= NCalls
  BY TypedMessages, CallsFacts, Numbers DEF IInv, Typed, TypeOK, Replies, NCalls, BatchFits, InBatch
<1> PICK m \in Message : m = ToolResult(turn, batch.index, b)
  BY <1>1, ResultFacts
<1>2. Record(b) \in Seq(Message) /\ Longer(messages, Record(b))
  BY <1>1, LongerAppend DEF Record
<1>3. Aborted(turn, batch.index + 1, NCalls) \in Seq(Message)
  BY <1>1, AbortedFacts
<1>4. Longer(Record(b), Record(b) \o Aborted(turn, batch.index + 1, NCalls))
  BY <1>2, <1>3, LongerConcat
<1> QED
  BY <1>2, <1>4, LongerTwice

\* The result at i is among these messages.
Carried(i, ms) ==
    \E j \in DOMAIN ms : IsTool(ms[j]) /\ ms[j].turn = messages[i].turn /\ ms[j].call = messages[i].call

\* What keeps all messages keeps the results.
LEMMA LongerCarries ==
  ASSUME NEW new, Longer(messages, new), NEW i \in Unsent
  PROVE  Carried(i, new)
BY DEF Longer, Unsent, Carried

\* Pruning moves nothing.
LEMMA PruneCarries ==
  ASSUME messages \in Seq(Message), NEW i \in Unsent
  PROVE  Carried(i, Prune(messages))
<1> DEFINE new == Prune(messages)
<1>1. /\ new \in Seq(Message) /\ Len(new) = Len(messages)
      /\ \A k \in 1..Len(messages) :
           IsTool(messages[k]) => IsTool(new[k]) /\ new[k].turn = messages[k].turn /\ new[k].call = messages[k].call
  BY PruneFacts
<1> HIDE DEF new
<1>2. DOMAIN messages = 1..Len(messages) /\ DOMAIN new = 1..Len(messages)
  BY <1>1, LenProperties
<1>3. i \in DOMAIN messages /\ IsTool(messages[i])
  BY DEF Unsent
<1>4. Carried(i, new)
  BY <1>1, <1>2, <1>3 DEF Carried
<1> QED
  BY <1>4 DEF new

\* A compaction cuts before a reply, so a result that no reply follows is behind the
\* cut ...
LEMMA CutCarries ==
  ASSUME messages \in Seq(Message), CanCompact(messages), NEW i \in Unsent
  PROVE  i \in (Boundary(messages) + 1)..Len(messages)
<1>1. /\ Len(messages) \in Nat /\ DOMAIN messages = 1..Len(messages)
      /\ Boundary(messages) \in 2..(Len(messages) - 1)
      /\ messages[Boundary(messages) + 1].role = "assistant"
  BY BoundaryFacts, LenProperties
<1>2. i \in 1..Len(messages) /\ \A j \in (i + 1)..Len(messages) : messages[j].role # "assistant"
  BY <1>1 DEF Unsent
<1>3. ~(i < Boundary(messages) + 1)
  BY <1>1, <1>2
<1> QED
  BY <1>1, <1>2, <1>3

\* ... and stays, at another place.
LEMMA CompactCarries ==
  ASSUME messages \in Seq(Message), CanCompact(messages), NEW i \in Unsent,
         NEW ms \in {messages, Prune(messages)}
  PROVE  Carried(i, Compact(ms))
<1> DEFINE b == Boundary(messages)
           new == Compact(ms)
<1>1. /\ ms \in Seq(Message) /\ Len(ms) = Len(messages) /\ Boundary(ms) = b /\ CanCompact(ms)
  BY PruneFacts, PruneBoundary DEF CanCompact
<1>2. /\ Len(messages) \in Nat /\ b \in 2..(Len(messages) - 1) /\ i \in (b + 1)..Len(messages)
      /\ i \in 1..Len(messages) /\ IsTool(messages[i])
  BY BoundaryFacts, CutCarries, LenProperties DEF Unsent
<1>3. IsTool(ms[i]) /\ ms[i].turn = messages[i].turn /\ ms[i].call = messages[i].call
  BY <1>2, PruneFacts
<1>4. /\ new \in Seq(Message) /\ Len(new) = 2 + (Len(ms) - b)
      /\ \A k \in (b + 1)..Len(ms) : new[k - b + 2] = ms[k]
  BY <1>1, CompactFacts
<1> HIDE DEF new, b
<1>5. i - b + 2 \in DOMAIN new /\ new[i - b + 2] = ms[i]
  BY <1>1, <1>2, <1>4, LenProperties
<1>6. Carried(i, new)
  BY <1>3, <1>5 DEF Carried
<1> QED
  BY <1>6 DEF new

\* What a step does to the transcript.
LEMMA TranscriptSteps ==
  ASSUME IInv, Next
  PROVE  \/ Longer(messages, messages')
         \/ messages' = Prune(messages)
         \/ CanCompact(messages) /\ \E ms \in {messages, Prune(messages)} : messages' = Compact(ms)
<1>0. messages \in Seq(Message) /\ (messages' = messages => Longer(messages, messages'))
  BY TypedMessages DEF IInv, Longer
<1>1. CASE Cancel \/ Reconnect \/ Stream \/ Reissue \/ CheckContext \/ StallRetry \/ StallEnds \/ Execute \/ Precomputed
  BY <1>0, <1>1 DEF Cancel, Reconnect, Stream, Reissue, CheckContext, StallRetry, StallEnds, Execute, Precomputed
<1>2. CASE BeginTurn
  <2>1. \A nudge \in {FALSE, diag} : One(nudge) \in Nat
    BY OneFacts DEF IInv, Typed, TypeOK
  <2> QED
    BY <1>0, <1>2, <2>1, LongerNotes DEF BeginTurn
<1>3. CASE MaybeCompact
  <2>1. CanCompact(messages) => CanCompact(Prune(messages))
    BY <1>0, PruneBoundary DEF CanCompact
  <2> QED
    BY <1>0, <1>3, <2>1 DEF MaybeCompact
<1>4. CASE Connect \/ FirstError \/ LastError
  BY <1>0, <1>4 DEF Connect, FirstError, LastError, Recover, RecoverFails
<1>5. CASE Dropped \/ EmptyTurn \/ Incomplete \/ Uncertain \/ Settle \/ BeginBatch
  <2>1. CASE EmptyTurn
    BY <2>1, EmptyTurnCounts, LongerReplied DEF Nudged, Ends
  <2> QED
    BY <1>5, <2>1, LongerReplied DEF Dropped, Incomplete, Uncertain, Settle, BeginBatch, Nudged, Ends
<1>6. CASE Abort
  <2> PICK b \in Bodies : CloseOut(b)
    BY <1>6 DEF Abort
  <2> QED
    BY <1>6, LongerRecord, Numbers DEF Abort, CloseOut
<1>7. CASE SpecReview
  BY <1>7, LongerRecord DEF SpecReview, CloseOut
<1>8. ASSUME NEW outcome \in Outcomes, NEW body \in Bodies, Result(outcome, body)
      PROVE  Longer(messages, messages')
  <2>1. body \in {"small", "large"} /\ pc = "result"
    BY <1>8, Numbers DEF Result
  <2>2. CloseOut(body) \/ messages' = Record(body)
    BY <1>8, ResultCases
  <2> QED
    BY <2>1, <2>2, LongerRecord DEF CloseOut
<1>9. CASE AfterBatch
  BY <1>0, <1>9, AfterBatchEnds, LongerNotes DEF IInv
<1>10. CASE Ceiling
  <2>0. turn + 1 \in Nat
    BY Numbers DEF IInv, Typed, TypeOK
  <2>1. \A nudge \in {FALSE, diag} : One(nudge) \in Nat
    BY OneFacts DEF IInv, Typed, TypeOK
  <2>2. <<User, Assistant(turn + 1, 0)>> \in Seq(Message)
    <3>1. 0 \in 0..MaxCalls
      BY Numbers
    <3> PICK m \in Message : m = Assistant(turn + 1, 0)
      BY <2>0, <3>1, ReplyFacts
    <3> QED
      BY PlainFacts
  <2>3. ASSUME NEW n \in Nat
        PROVE  /\ Longer(messages, messages \o Notes(n))
               /\ Longer(messages, messages \o Notes(n) \o <<User, Assistant(turn + 1, 0)>>)
    BY <1>0, <2>2, LongerNotes, LongerConcat, LongerTwice
  <2> QED
    BY <1>0, <1>10, <2>1, <2>3 DEF Ceiling
<1> QED
  BY <1>1, <1>2, <1>3, <1>4, <1>5, <1>6, <1>7, <1>8, <1>9, <1>10 DEF Next, Loop

\* No step takes away a tool result that no request has carried yet.
THEOREM FreshResultsStay == Spec => FreshResultsAreKept
<1>1. ASSUME IInv, [Next]_vars
      PROVE  [\A i \in Unsent : Carried(i, messages')]_vars
  <2>1. messages \in Seq(Message)
    BY <1>1, TypedMessages DEF IInv
  <2>2. ASSUME Next, NEW i \in Unsent
        PROVE  Carried(i, messages')
    BY <1>1, <2>1, <2>2, TranscriptSteps, LongerCarries, PruneCarries, CompactCarries
  <2> QED
    BY <1>1, <2>2
<1>2. ASSUME IInv, [Next]_vars
      PROVE  [\A i \in Unsent : \E j \in DOMAIN messages' :
                IsTool(messages'[j]) /\ messages'[j].turn = messages[i].turn /\ messages'[j].call = messages[i].call]_vars
  BY <1>1, <1>2 DEF Carried
<1> QED
  BY <1>2, Inductive, PTL DEF Spec, FreshResultsAreKept

=============================================================================
