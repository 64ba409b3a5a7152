---------------------------- MODULE DaemonSession ----------------------------
(***************************************************************************)
(* The output of one daemon session (internal/daemon/session.go): the pool *)
(* pumps a worker's lines into Line, which keeps the last MaxBuffer of     *)
(* them and fans each out to the subscribers over bounded channels; a      *)
(* client of the server replays the history and then reads its channel     *)
(* (server.go, streamToClient) until the session finishes, the server      *)
(* stops, or its connection breaks.                                        *)
(*                                                                         *)
(* One action is one critical section of s.mu, one channel operation, or   *)
(* one close.  Line holds s.mu over all its sends; a receive in the middle *)
(* of it gives what a receive before it gives, for ChanCap >= 2.           *)
(***************************************************************************)
EXTENDS Naturals, Sequences

CONSTANTS Clients,    \* the run and attach connections of the session
          MaxBuffer,  \* lines of history (Session.maxBuffer)
          ChanCap,    \* capacity of a subscriber's channel
          MaxLines    \* bound on the lines a worker prints in one behaviour

ASSUME DaemonSessionAssumption ==
    /\ MaxBuffer \in Nat \ {0}
    /\ ChanCap \in Nat /\ ChanCap >= 2
    /\ MaxLines \in Nat

VARIABLES
    state,        \* s.state
    lines,        \* s.lines
    buffer,       \* s.buffer
    subscribers,  \* s.subscribers
    chan,         \* what each subscriber's channel holds
    closed,       \* the clients whose channel is closed
    dropped,      \* the drop count of each subscriber
    closing,      \* the channels that finish has still to close
    pc,           \* where each client's handler is
    replay,       \* the history it has still to write
    got,          \* what it has written to its connection, oldest first
    outcome,      \* how its stream ended
    base,         \* auxiliary: lines older than its history when it subscribed
    stopping,     \* Server.done is closed
    panicked      \* a closed channel was sent to or closed again

session == <<state, lines, buffer>>
subs    == <<subscribers, chan, closed, dropped>>
client  == <<pc, replay, got, outcome, base>>
vars    == <<session, subs, closing, client, stopping, panicked>>

Finished == state \in {"done", "failed"}

\* An entry of a stream: a line, or the notice that count lines are missing.
\* upto is the number of the last line the entry speaks for; for a notice it is
\* auxiliary, the client sees the count alone.
Entries == [kind : {"line", "gap"}, count : 1..MaxLines, upto : 1..MaxLines]
LineAt(n) == [kind |-> "line", count |-> 1, upto |-> n]
GapNotice(k, n) == [kind |-> "gap", count |-> k, upto |-> n]

\* Type invariant of Session: a history and channels within their capacities,
\* holding lines that were produced.
TypeOK ==
    /\ state \in {"queued", "running", "done", "failed"}
    /\ lines \in 0..MaxLines
    /\ buffer \in Seq(Entries) /\ Len(buffer) <= MaxBuffer
    /\ subscribers \subseteq Clients /\ closed \subseteq Clients /\ closing \subseteq Clients
    /\ chan \in [Clients -> Seq(Entries)]
    /\ \A c \in Clients : Len(chan[c]) <= ChanCap
    /\ dropped \in [Clients -> 0..MaxLines]
    /\ pc \in [Clients -> {"idle", "stream", "leaving", "left"}]
    /\ replay \in [Clients -> Seq(Entries)]
    /\ got \in [Clients -> Seq(Entries)]
    /\ outcome \in [Clients -> {"none", "end", "error", "shutdown", "gone"}]
    /\ base \in [Clients -> 0..MaxLines]
    /\ stopping \in BOOLEAN /\ panicked \in BOOLEAN

Init ==
    /\ state = "queued" /\ lines = 0 /\ buffer = <<>>
    /\ subscribers = {} /\ closed = {} /\ closing = {}
    /\ chan = [c \in Clients |-> <<>>]
    /\ dropped = [c \in Clients |-> 0]
    /\ pc = [c \in Clients |-> "idle"]
    /\ replay = [c \in Clients |-> <<>>]
    /\ got = [c \in Clients |-> <<>>]
    /\ outcome = [c \in Clients |-> "none"]
    /\ base = [c \in Clients |-> 0]
    /\ stopping = FALSE /\ panicked = FALSE

-----------------------------------------------------------------------------
(* The run: Started, Line, finish.                                         *)

Started ==
    /\ state = "queued"
    /\ state' = "running"
    /\ UNCHANGED <<lines, buffer, subs, closing, client, stopping, panicked>>

\* The ring keeps the most recent lines only.
Remember(e) ==
    buffer' = IF Len(buffer) < MaxBuffer
              THEN Append(buffer, e)
              ELSE Append(Tail(buffer), e)

Full(q) == Len(q) = ChanCap

\* The channel and the drop count of a subscriber after the next line.  A
\* lagging subscriber is owed a notice first; without room for it the line is
\* one more that is lost.
Owed(c) == dropped[c] > 0 /\ ~Full(chan[c])

OfferWithoutNotice(c) ==
    IF Full(chan[c])
    THEN [chan |-> chan[c], dropped |-> dropped[c] + 1]
    ELSE [chan |-> Append(chan[c], LineAt(lines + 1)), dropped |-> 0]

Offer(c) ==
    LET q      == IF Owed(c) THEN Append(chan[c], GapNotice(dropped[c], lines)) ELSE chan[c]
        missed == IF Owed(c) THEN 0 ELSE dropped[c]
    IN  IF missed > 0 \/ Full(q)
        THEN [chan |-> q, dropped |-> missed + 1]
        ELSE [chan |-> Append(q, LineAt(lines + 1)), dropped |-> 0]

Line ==
    /\ state = "running" /\ lines < MaxLines
    /\ lines' = lines + 1
    /\ Remember(LineAt(lines + 1))
    /\ chan' = [c \in Clients |-> IF c \in subscribers THEN Offer(c).chan ELSE chan[c]]
    /\ dropped' = [c \in Clients |-> IF c \in subscribers THEN Offer(c).dropped ELSE dropped[c]]
    /\ panicked' = (panicked \/ subscribers \cap closed # {})
    /\ UNCHANGED <<state, subscribers, closed, closing, client, stopping>>

\* finish: the outcome is decided and the subscribers are taken out of the map
\* under the lock; their channels are closed after it, one at a time.  A run
\* that never got a slot fails from queued.
Finish ==
    /\ ~Finished
    /\ \/ state = "running" /\ state' \in {"done", "failed"}
       \/ state = "queued" /\ state' = "failed"
    /\ closing' = subscribers
    /\ subscribers' = {}
    /\ UNCHANGED <<lines, buffer, chan, closed, dropped, client, stopping, panicked>>

Close(c) ==
    /\ closed' = closed \cup {c}
    /\ panicked' = (panicked \/ c \in closed)

CloseChannel ==
    \E c \in closing :
       /\ closing' = closing \ {c}
       /\ Close(c)
       /\ UNCHANGED <<session, subscribers, chan, dropped, client, stopping>>

-----------------------------------------------------------------------------
(* A client: Subscribe, streamToClient, the deferred cancel.               *)

SubscribeLate(c) ==
    /\ pc[c] = "idle"
    /\ pc' = [pc EXCEPT ![c] = "stream"]
    /\ replay' = [replay EXCEPT ![c] = buffer]
    /\ base' = [base EXCEPT ![c] = lines - Len(buffer)]
    /\ subscribers' = subscribers \cup {c}
    /\ UNCHANGED <<session, chan, closed, dropped, closing, got, outcome, stopping, panicked>>

\* The history and the registration are one critical section.  A session that
\* has finished gives a channel that is already closed, and no registration.
Subscribe(c) ==
    /\ pc[c] = "idle"
    /\ pc' = [pc EXCEPT ![c] = "stream"]
    /\ replay' = [replay EXCEPT ![c] = buffer]
    /\ base' = [base EXCEPT ![c] = lines - Len(buffer)]
    /\ \/ /\ Finished
          /\ closed' = closed \cup {c}
          /\ UNCHANGED subscribers
       \/ /\ ~Finished
          /\ subscribers' = subscribers \cup {c}
          /\ UNCHANGED closed
    /\ UNCHANGED <<session, chan, dropped, closing, got, outcome, stopping, panicked>>

Write(c, e) == got' = [got EXCEPT ![c] = Append(@, e)]

Leave(c, why) ==
    /\ pc' = [pc EXCEPT ![c] = "leaving"]
    /\ outcome' = [outcome EXCEPT ![c] = why]

\* One line of history; s.done is looked at before each.
Replay(c) ==
    /\ pc[c] = "stream" /\ replay[c] # <<>> /\ ~stopping
    /\ Write(c, Head(replay[c]))
    /\ replay' = [replay EXCEPT ![c] = Tail(@)]
    /\ UNCHANGED <<session, subs, closing, pc, outcome, base, stopping, panicked>>

Deliver(c) ==
    /\ pc[c] = "stream" /\ replay[c] = <<>> /\ chan[c] # <<>>
    /\ Write(c, Head(chan[c]))
    /\ chan' = [chan EXCEPT ![c] = Tail(@)]
    /\ UNCHANGED <<session, subscribers, closed, dropped, closing, pc, replay, outcome, base, stopping, panicked>>

\* The channel is closed and empty: finishStream.
End(c) ==
    /\ pc[c] = "stream" /\ replay[c] = <<>> /\ chan[c] = <<>> /\ c \in closed
    /\ Leave(c, IF state = "failed" THEN "error" ELSE "end")
    /\ UNCHANGED <<session, subs, closing, replay, got, base, stopping, panicked>>

SeeShutdown(c) ==
    /\ pc[c] = "stream" /\ stopping
    /\ Leave(c, "shutdown")
    /\ UNCHANGED <<session, subs, closing, replay, got, base, stopping, panicked>>

\* A write to the connection fails.
Disconnect(c) ==
    /\ pc[c] = "stream"
    /\ Leave(c, "gone")
    /\ UNCHANGED <<session, subs, closing, replay, got, base, stopping, panicked>>

\* The deferred cancel closes the channel only if the map still has it.
Cancel(c) ==
    /\ pc[c] = "leaving"
    /\ pc' = [pc EXCEPT ![c] = "left"]
    /\ \/ /\ c \in subscribers
          /\ subscribers' = subscribers \ {c}
          /\ Close(c)
       \/ /\ c \notin subscribers
          /\ UNCHANGED <<subscribers, closed, panicked>>
    /\ UNCHANGED <<session, chan, dropped, closing, replay, got, outcome, base, stopping>>

Stop ==
    /\ ~stopping
    /\ stopping' = TRUE
    /\ UNCHANGED <<session, subs, closing, client, panicked>>

-----------------------------------------------------------------------------

Reading(c) == Replay(c) \/ Deliver(c) \/ End(c) \/ SeeShutdown(c) \/ Cancel(c)

Next ==
    \/ Started \/ Line \/ Finish \/ CloseChannel
    \/ \E c \in Clients : Subscribe(c) \/ Disconnect(c) \/ Reading(c)
    \/ Stop

Spec == Init /\ [][Next]_vars

\* finish runs on, and every client reads on.
ReadersGoOn == WF_vars(CloseChannel) /\ \A c \in Clients : WF_vars(Reading(c))

-----------------------------------------------------------------------------
(* Safety.                                                                 *)

Stream(c) == got[c] \o replay[c] \o chan[c]
Reach(c) == IF Stream(c) = <<>> THEN base[c] ELSE Stream(c)[Len(Stream(c))].upto

\* What a client is given has no hole and no repetition that it cannot see: each
\* entry takes up where the one before it stopped, from the oldest line of its
\* history on, across the seam of history and live lines, and a notice counts
\* exactly the lines that are missing at its place.
StreamHasNoHiddenGap ==
    \A c \in Clients : \A i \in DOMAIN Stream(c) :
       Stream(c)[i].upto = (IF i = 1 THEN base[c] ELSE Stream(c)[i - 1].upto) + Stream(c)[i].count

\* While a client is registered, and for good once it has been served to the
\* end, the lines of its stream and its drop count add up to the lines printed.
EveryLineIsAccounted ==
    \A c \in Clients :
       c \in subscribers \/ c \in closing \/ outcome[c] \in {"end", "error"}
          => Reach(c) + dropped[c] = lines

\* "stops cancel()/finish() from closing a subscriber channel mid-send" (Line):
\* nobody sends on a closed channel and nobody closes one twice.
NoChannelPanic == ~panicked

\* What a client is served is the stream or says what is missing from it, and
\* no send or close of its channel panics.
ClientsSeeTheStream == TypeOK /\ StreamHasNoHiddenGap /\ EveryLineIsAccounted /\ NoChannelPanic

-----------------------------------------------------------------------------
(* Claims of the comments that the code does not keep.                     *)

\* "so a lagging client learns its stream is incomplete instead of silently
\* losing output (D8)" (subscriber): a client that was served to the end got,
\* or was told to miss, every line.
LossIsAnnounced ==
    \A c \in Clients : outcome[c] \in {"end", "error"} => Reach(c) = lines

-----------------------------------------------------------------------------
(* Liveness.                                                               *)

\* While clients read: nobody waits for ever on a session that has finished,
\* neither those registered at the time nor those that come after.
ReadersReachTheEnd ==
    ReadersGoOn => \A c \in Clients : Finished /\ pc[c] = "stream" ~> pc[c] = "left"

=============================================================================
