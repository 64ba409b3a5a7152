--------------------------- MODULE DaemonRegistry ---------------------------
(***************************************************************************)
(* The session registry of the daemon (internal/daemon/session.go,         *)
(* SessionManager) and the attach handler that reads it (server.go).       *)
(* Start registers a session under its id and evicts the oldest finished   *)
(* sessions beyond MaxSessions; an id may then be used again, by another   *)
(* Session object.  A session is named by the number of its Start.         *)
(*                                                                         *)
(* m.mu is held from the registration to the end of the pruning loop, but  *)
(* sessions finish without it: each isFinished of the loop is a step.      *)
(***************************************************************************)
EXTENDS Naturals, Sequences, FiniteSets

CONSTANTS Ids,          \* the session ids in use
          MaxSessions,  \* SessionManager.maxSessions
          Clients,      \* attach connections
          MaxStarts     \* bound on the sessions created in one behaviour

ASSUME DaemonRegistryAssumption ==
    /\ MaxSessions \in Nat \ {0}
    /\ MaxStarts \in Nat

VARIABLES
    sessions,  \* m.sessions: the session registered under each id, 0 if none
    order,     \* m.order
    cursor,    \* the next place of order the pruning loop looks at, 0 when m.mu is free
    started,   \* the number of sessions created
    idOf,      \* the id of each session
    state,     \* its state
    attach,    \* what each attach handler is doing and with which sessions
    atLock,    \* auxiliary: the sessions that had finished when m.mu was taken
    evicted    \* auxiliary: the sessions evicted since m.mu was taken

vars == <<sessions, order, cursor, started, idOf, state, attach, atLock, evicted>>

Created == 1..started
Finished(g) == state[g] \in {"done", "failed"}
Registered == {i \in Ids : sessions[i] # 0}
Free == cursor = 0

\* Type invariant of SessionRegistry: its map, its order and the cursor of an
\* eviction that is under way.
TypeOK ==
    /\ sessions \in [Ids -> 0..MaxStarts]
    /\ order \in Seq(Ids)
    /\ cursor \in 0..Len(order)
    /\ started \in 0..MaxStarts
    /\ idOf \in [Created -> Ids]
    /\ state \in [Created -> {"queued", "running", "done", "failed"}]
    /\ attach \in [Clients -> [pc    : {"idle", "found", "subscribed", "streaming", "ended"},
                               id    : Ids \cup {"none"},
                               live  : 0..MaxStarts,
                               sess  : 0..MaxStarts,
                               reply : {"none", "notfound", "end", "error"}]]
    /\ atLock \subseteq Created /\ evicted \subseteq Created

Init ==
    /\ sessions = [i \in Ids |-> 0]
    /\ order = <<>>
    /\ cursor = 0 /\ started = 0
    /\ idOf = <<>> /\ state = <<>>
    /\ attach = [c \in Clients |-> [pc |-> "idle", id |-> "none", live |-> 0, sess |-> 0, reply |-> "none"]]
    /\ atLock = {} /\ evicted = {}

-----------------------------------------------------------------------------
(* SessionManager.Start and pruneLocked.                                   *)

Over == Cardinality(Registered) > MaxSessions

StartPrepends(i) ==
    /\ Free /\ started < MaxStarts
    /\ i \notin Registered
    /\ started' = started + 1
    /\ sessions' = [sessions EXCEPT ![i] = started + 1]
    /\ idOf' = Append(idOf, i)
    /\ state' = Append(state, "queued")
    /\ order' = <<i>> \o order
    /\ cursor' = IF Cardinality(Registered \cup {i}) > MaxSessions THEN 1 ELSE 0
    /\ atLock' = {g \in Created : Finished(g)} /\ evicted' = {}
    /\ UNCHANGED attach

\* An id that is registered is rejected.  Below the cap there is no loop.
Start(i) ==
    /\ Free /\ started < MaxStarts
    /\ i \notin Registered
    /\ started' = started + 1
    /\ sessions' = [sessions EXCEPT ![i] = started + 1]
    /\ idOf' = Append(idOf, i)
    /\ state' = Append(state, "queued")
    /\ order' = Append(order, i)
    /\ cursor' = IF Cardinality(Registered \cup {i}) > MaxSessions THEN 1 ELSE 0
    /\ atLock' = {g \in Created : Finished(g)} /\ evicted' = {}
    /\ UNCHANGED attach

At(k) == sessions[order[k]]
Without(k) == SubSeq(order, 1, k - 1) \o SubSeq(order, k + 1, Len(order))

\* One pass of the pruning loop.  kept is order without the entries dropped so
\* far; dropping the entry at the cursor moves the next one into its place.
Prune ==
    /\ ~Free
    /\ \/ /\ Over /\ Finished(At(cursor))
          /\ sessions' = [sessions EXCEPT ![order[cursor]] = 0]
          /\ evicted' = evicted \cup {At(cursor)}
          /\ order' = Without(cursor)
          /\ cursor' = IF cursor < Len(order) THEN cursor ELSE 0
       \/ /\ ~(Over /\ Finished(At(cursor)))
          /\ cursor' = IF cursor < Len(order) THEN cursor + 1 ELSE 0
          /\ UNCHANGED <<sessions, order, evicted>>
    /\ UNCHANGED <<started, idOf, state, attach, atLock>>

-----------------------------------------------------------------------------
(* The run of a session, outside m.mu: the lease, then finish.             *)

Lease(g) ==
    /\ state[g] = "queued"
    /\ state' = [state EXCEPT ![g] = "running"]
    /\ UNCHANGED <<sessions, order, cursor, started, idOf, attach, atLock, evicted>>

Finish(g) ==
    /\ \/ state[g] = "running" /\ state' \in {[state EXCEPT ![g] = "done"], [state EXCEPT ![g] = "failed"]}
       \/ state[g] = "queued" /\ state' = [state EXCEPT ![g] = "failed"]
    /\ UNCHANGED <<sessions, order, cursor, started, idOf, attach, atLock, evicted>>

-----------------------------------------------------------------------------
(* handleAttach: Manager.Attach (Get, then Subscribe), Manager.Get, then   *)
(* streamToClient until the live channel is closed, then finishStream.     *)

Step(c, rec) ==
    /\ attach' = [attach EXCEPT ![c] = rec]
    /\ UNCHANGED <<sessions, order, cursor, started, idOf, state, atLock, evicted>>

AttachGet(c) ==
    /\ attach[c].pc = "idle" /\ Free
    /\ \E i \in Ids :
          \/ /\ i \in Registered
             /\ Step(c, [attach[c] EXCEPT !.pc = "found", !.id = i, !.live = sessions[i]])
          \/ /\ i \notin Registered
             /\ Step(c, [attach[c] EXCEPT !.pc = "ended", !.id = i, !.reply = "notfound"])

\* Subscribe takes the session's own lock, see DaemonSession.
AttachSubscribe(c) ==
    /\ attach[c].pc = "found"
    /\ Step(c, [attach[c] EXCEPT !.pc = "subscribed"])

\* The handler looks its session up once more; 0 is the nil it ignores.
AttachGetAgain(c) ==
    /\ attach[c].pc = "subscribed" /\ Free
    /\ Step(c, [attach[c] EXCEPT !.pc = "streaming", !.sess = sessions[attach[c].id]])

\* The live channel is closed once its session has finished.
AttachEnd(c) ==
    /\ attach[c].pc = "streaming" /\ Finished(attach[c].live)
    /\ LET s == attach[c].sess IN
       Step(c, [attach[c] EXCEPT !.pc = "ended",
                                 !.reply = IF s # 0 /\ state[s] = "failed" THEN "error" ELSE "end"])

-----------------------------------------------------------------------------

Next ==
    \/ \E i \in Ids : Start(i)
    \/ Prune
    \/ \E g \in Created : Lease(g) \/ Finish(g)
    \/ \E c \in Clients : AttachGet(c) \/ AttachSubscribe(c) \/ AttachGetAgain(c) \/ AttachEnd(c)

Spec == Init /\ [][Next]_vars

-----------------------------------------------------------------------------
(* Safety.                                                                 *)

\* The two indexes agree whenever m.mu is free: order has each registered id
\* once, in the order of creation.
IndexesAgree ==
    Free =>
       /\ {order[k] : k \in DOMAIN order} = Registered
       /\ \A j, k \in DOMAIN order : j < k => At(j) < At(k)

\* "Running/queued sessions are never evicted" (pruneLocked), hence one id never
\* has two sessions at work.
LiveSessionsAreRegistered ==
    \A g \in Created : ~Finished(g) => sessions[idOf[g]] = g

\* Nothing is evicted below the cap, and the registry stays above it only by
\* sessions that were still at work when the loop began.
RetentionIsExact ==
    /\ evicted # {} => Cardinality(Registered) >= MaxSessions
    /\ Free /\ Over => \A i \in Registered : sessions[i] \notin atLock

\* "the oldest FINISHED ones are evicted": no session goes while an older one
\* stays that had finished when the loop began.
EvictionIsFifo ==
    \A g \in evicted : \A h \in atLock : h < g => sessions[idOf[h]] # h

\* The second lookup of an attach handler gives the session it streams, unless
\* that one had finished and was evicted in between: a session at work is never
\* taken for another.
OnlyTheFinishedAreMistaken ==
    \A c \in Clients :
       /\ attach[c].pc = "streaming" /\ attach[c].sess # attach[c].live => Finished(attach[c].live)
       /\ attach[c].sess # 0 => idOf[attach[c].sess] = attach[c].id

\* Pruning, while sessions finish without the lock and handlers look twice,
\* takes the oldest finished sessions, no others and no more than it has to.
RetentionIsSound ==
    /\ TypeOK
    /\ IndexesAgree
    /\ LiveSessionsAreRegistered
    /\ RetentionIsExact
    /\ EvictionIsFifo
    /\ OnlyTheFinishedAreMistaken

-----------------------------------------------------------------------------
(* Claims of the comments that the interleavings refute.                   *)

\* "finishing with CtrlEnd (or CtrlError if the session failed)"
\* (streamToClient): the reply tells the outcome of the session that was
\* streamed.
EndTellsTheOutcome ==
    \A c \in Clients :
       attach[c].reply \in {"end", "error"} =>
          (attach[c].reply = "error" <=> state[attach[c].live] = "failed")
=============================================================================
