-------------------------- MODULE DaemonPoolProofs --------------------------
(***************************************************************************)
(* Theorems about DaemonPool, for every set of requests, every size of the *)
(* pool and every number of attempts; about DaemonSession, for every set   *)
(* of clients, every size of the history and of a subscriber's channel,    *)
(* and every number of lines; and about DaemonRegistry, for every set of   *)
(* ids and of clients, every number of sessions retained and of sessions   *)
(* started.                                                                *)
(***************************************************************************)
EXTENDS DaemonPool, FiniteSetTheorems, SequenceTheorems, TLAPS

USE DaemonPoolAssumption

-----------------------------------------------------------------------------
(* The inductive invariant.                                                *)

\* Where a Run has a worker, and where it has its result.
PhasesFit ==
    \A r \in Requests :
       /\ pc[r] \in {"idle", "select", "blocked", "leased", "launch"} => worker[r] = "none"
       /\ pc[r] \in {"backoff", "cooloff"} => worker[r] \in {"tempfail", "crash", "error"}
       /\ worker[r] = "alive" => pc[r] \in {"launched", "pump"}
       /\ pc[r] \notin {"release", "returned"} => result[r] = "none"

\* Who has launched since Drain began is past its last check of p.draining.
LateIsLast == \A r \in Requests : late[r] > 0 => draining /\ pc[r] # "launch"

\* p.slots has a token for each request between acquire and release.
SlotsAreHeld == IsFiniteSet(Holders) /\ Cardinality(Holders) = slots

\* The senders on p.slots are blocked, each once, and only while it is full.
SendersWait ==
    /\ \A i \in 1..Len(senders) : pc[senders[i]] = "blocked"
    /\ \A i, j \in 1..Len(senders) : senders[i] = senders[j] => i = j
    /\ senders # <<>> => slots = Size

\* All of it, with the three parts of RunsAreHonest that are not about the slots.
IInv ==
    /\ TypeOK /\ DrainStopsLaunches /\ ResultFitsWorker
    /\ PhasesFit /\ LateIsLast
    /\ SlotsAreHeld /\ SendersWait

-----------------------------------------------------------------------------
(* Every action keeps it.                                                  *)

\* The oldest sender is a blocked request, and so are those after it.
LEMMA FirstWaits ==
  ASSUME TypeOK, SendersWait, senders # <<>>
  PROVE  /\ Head(senders) \in Requests /\ pc[Head(senders)] = "blocked"
         /\ Tail(senders) \in Seq(Requests) /\ Len(Tail(senders)) = Len(senders) - 1
         /\ \A i \in 1..Len(Tail(senders)) : Tail(senders)[i] = senders[i + 1] /\ senders[i + 1] # Head(senders)
BY DEF TypeOK, SendersWait

\* acquire turns a request away with a result and no worker, or lets it to the select.
LEMMA EnterKeeps ==
  ASSUME IInv, NEW r \in Requests, Enter(r)
  PROVE  IInv'
<1>1. TypeOK'
  BY DEF IInv, Enter, TypeOK, Go, Refuse, Settle, DismissSenders, Blocked, run, lease,
     drain, Exit, Leased
<1>2. DrainStopsLaunches'
  BY DEF IInv, Enter, DrainStopsLaunches
<1>3. ResultFitsWorker'
  BY DEF IInv, Enter, TypeOK, ResultFitsWorker, PhasesFit, Go, Refuse
<1>4. PhasesFit'
  BY ZenonT(60) DEF IInv, Enter, TypeOK, PhasesFit, Go, Refuse, Settle, DismissSenders, Blocked, run,
     lease, drain, Exit, Leased
<1>5. LateIsLast'
  BY DEF IInv, Enter, TypeOK, LateIsLast, Go, Refuse, drain
<1>6. SlotsAreHeld'
  <2>1. Holders' = Holders /\ slots' = slots
    BY DEF IInv, Enter, Holders, TypeOK, Go, Refuse, lease, Leased
  <2> QED
    BY <2>1 DEF IInv, SlotsAreHeld
<1>7. SendersWait'
  BY DEF IInv, Enter, TypeOK, SendersWait, Go, Refuse, lease
<1> QED
  BY <1>1, <1>2, <1>3, <1>4, <1>5, <1>6, <1>7 DEF IInv

\* A token is put into p.slots for one more holder; the sender that blocks does so
\* when the pool is full, and is in the queue once.
LEMMA SelectKeeps ==
  ASSUME IInv, NEW r \in Requests, Select(r)
  PROVE  IInv'
<1>1. TypeOK'
  <2>1. senders' \in Seq(Requests)
    <3>1. senders' = senders \/ senders' = Append(senders, r)
      BY DEF Select, lease
    <3>2. senders \in Seq(Requests)
      BY DEF IInv, TypeOK
    <3> QED
      BY <3>1, <3>2
  <2>2. slots' \in 0..Size
    BY DEF IInv, Select, TypeOK, lease
  <2> QED
    BY <2>1, <2>2 DEF IInv, Select, TypeOK, Go, Refuse, Settle, DismissSenders, Blocked,
       run, lease, drain, Exit, Leased
<1>2. DrainStopsLaunches'
  BY DEF IInv, Select, DrainStopsLaunches
<1>3. ResultFitsWorker'
  BY ZenonT(60) DEF IInv, Select, TypeOK, ResultFitsWorker, PhasesFit, Go, Refuse, Settle,
     DismissSenders, Blocked, run, lease, drain, Exit, Leased
<1>4. PhasesFit'
  BY SMTT(60) DEF IInv, Select, TypeOK, PhasesFit, Go, Refuse, drain
<1>5. LateIsLast'
  BY DEF IInv, Select, TypeOK, LateIsLast, Go, Refuse, drain
<1>6. SlotsAreHeld'
  <2>1. CASE slots' = slots
    <3>1. Holders' = Holders
      BY <2>1 DEF IInv, Select, Holders, TypeOK, Go, Refuse, Leased
    <3> QED
      BY <2>1, <3>1 DEF IInv, SlotsAreHeld
  <2>2. CASE slots' = slots + 1
    <3>1. Holders' = Holders \cup {r} /\ r \notin Holders
      BY <2>2 DEF IInv, Select, Holders, TypeOK, Go, lease, Leased
    <3> QED
      BY <2>2, <3>1, FS_AddElement DEF IInv, SlotsAreHeld
  <2> QED
    BY <2>1, <2>2 DEF Select, lease
<1>7. SendersWait'
  <2>1. CASE senders' = senders /\ pc'[r] # "blocked"
    <3>1. senders # <<>> => slots' = slots
      BY DEF IInv, Select, SendersWait, lease
    <3> QED
      BY SMTT(60), <2>1, <3>1 DEF IInv, Select, TypeOK, SendersWait, Go, Refuse
  <2>2. CASE senders' = Append(senders, r) /\ slots = Size /\ slots' = slots /\ Go(r, "blocked")
    BY SMTT(60), <2>2 DEF IInv, Select, TypeOK, SendersWait, Go
  <2> QED
    BY <2>1, <2>2 DEF IInv, Select, TypeOK, Go, Refuse, lease
<1> QED
  BY <1>1, <1>2, <1>3, <1>4, <1>5, <1>6, <1>7 DEF IInv

\* The attempt goes on to the launch only before Drain has begun.
LEMMA CheckDrainKeeps ==
  ASSUME IInv, NEW r \in Requests, CheckDrain(r)
  PROVE  IInv'
<1>1. TypeOK'
  BY DEF IInv, CheckDrain, TypeOK, Go, Refuse, Settle, DismissSenders, Blocked, run,
     lease, drain, Exit, Leased
<1>2. DrainStopsLaunches'
  BY DEF IInv, CheckDrain, DrainStopsLaunches
<1>3. ResultFitsWorker'
  BY DEF IInv, CheckDrain, TypeOK, ResultFitsWorker, PhasesFit, Go, Settle
<1>4. PhasesFit'
  BY ZenonT(60) DEF IInv, CheckDrain, TypeOK, PhasesFit, Go, Refuse, Settle, DismissSenders, Blocked,
     run, lease, drain, Exit, Leased
<1>5. LateIsLast'
  BY DEF IInv, CheckDrain, TypeOK, LateIsLast, Go, Settle, drain
<1>6. SlotsAreHeld'
  <2>1. Holders' = Holders /\ slots' = slots
    BY DEF IInv, CheckDrain, Holders, TypeOK, Go, Settle, lease, Leased
  <2> QED
    BY <2>1 DEF IInv, SlotsAreHeld
<1>7. SendersWait'
  BY SMTT(60) DEF IInv, CheckDrain, TypeOK, SendersWait, Go, Settle, lease
<1> QED
  BY <1>1, <1>2, <1>3, <1>4, <1>5, <1>6, <1>7 DEF IInv

\* A launch after Drain has begun is the one that was checked before: late goes to one
\* and the request is past its check.
LEMMA LaunchKeeps ==
  ASSUME IInv, NEW r \in Requests, Launch(r)
  PROVE  IInv'
<1>1. TypeOK'
  <2>1. late' \in [Requests -> 0..MaxAttempts]
    BY SMTT(60) DEF IInv, Launch, TypeOK, DrainStopsLaunches, LateIsLast
  <2> QED
    BY <2>1 DEF IInv, Launch, TypeOK, Go, Refuse, Settle, DismissSenders, Blocked, run,
       lease, drain, Exit, Leased
<1>2. DrainStopsLaunches'
  <2>1. late[r] = 0
    BY DEF IInv, Launch, TypeOK, LateIsLast
  <2>2. late'[r] \in {0, 1}
    BY <2>1 DEF IInv, Launch, TypeOK
  <2>3. \A q \in Requests : q # r => late'[q] = late[q]
    BY DEF IInv, Launch, TypeOK
  <2> QED
    BY <2>2, <2>3 DEF IInv, DrainStopsLaunches
<1>3. ResultFitsWorker'
  BY DEF IInv, Launch, TypeOK, ResultFitsWorker, PhasesFit, Go
<1>4. PhasesFit'
  BY ZenonT(60) DEF IInv, Launch, TypeOK, PhasesFit, Go, Refuse, Settle, DismissSenders, Blocked,
     run, lease, drain, Exit, Leased
<1>5. LateIsLast'
  BY DEF IInv, Launch, TypeOK, LateIsLast, Go, drain
<1>6. SlotsAreHeld'
  <2>1. Holders' = Holders /\ slots' = slots
    BY DEF IInv, Launch, Holders, TypeOK, Go, lease, Leased
  <2> QED
    BY <2>1 DEF IInv, SlotsAreHeld
<1>7. SendersWait'
  BY DEF IInv, Launch, TypeOK, SendersWait, Go, lease
<1> QED
  BY <1>1, <1>2, <1>3, <1>4, <1>5, <1>6, <1>7 DEF IInv

\* A handle is tracked while its request holds a slot.
LEMMA TrackKeeps ==
  ASSUME IInv, NEW r \in Requests, Track(r)
  PROVE  IInv'
<1>1. TypeOK'
  BY DEF IInv, Track, TypeOK, Go, lease, drain, Leased
<1>2. DrainStopsLaunches'
  BY DEF IInv, Track, DrainStopsLaunches
<1>3. ResultFitsWorker'
  BY DEF IInv, Track, ResultFitsWorker, Go
<1>4. PhasesFit'
  BY DEF IInv, Track, PhasesFit, Go
<1>5. LateIsLast'
  BY DEF IInv, Track, LateIsLast, Go, drain
<1>6. SlotsAreHeld'
  <2>1. Holders' = Holders /\ slots' = slots
    BY DEF Track, Holders, Go, lease, Leased
  <2> QED
    BY <2>1 DEF IInv, SlotsAreHeld
<1>7. SendersWait'
  BY DEF IInv, Track, SendersWait, Go, lease
<1> QED
  BY <1>1, <1>2, <1>3, <1>4, <1>5, <1>6, <1>7 DEF IInv

\* The result that Run settles on is that of its worker.
LEMMA DecideKeeps ==
  ASSUME IInv, NEW r \in Requests, Decide(r)
  PROVE  IInv'
<1>1. TypeOK'
  BY ZenonT(60) DEF IInv, Decide, TypeOK, Go, Refuse, Settle, DismissSenders, Blocked, run, lease,
     drain, Exit, Leased
<1>2. DrainStopsLaunches'
  BY DEF IInv, Decide, DrainStopsLaunches
<1>3. ResultFitsWorker'
  BY SMTT(60) DEF IInv, Decide, TypeOK, ResultFitsWorker, PhasesFit, Go, Refuse, Settle,
     DismissSenders, Blocked, run, lease, drain, Exit, Leased
<1>4. PhasesFit'
  <2>1. DOMAIN pc = Requests /\ DOMAIN result = Requests
    BY DEF IInv, TypeOK
  <2>2. \A q \in Requests \ {r} : pc'[q] = pc[q] /\ worker'[q] = worker[q] /\ result'[q] = result[q]
    BY <2>1 DEF Decide, Go, Settle
  <2>3. /\ worker'[r] = worker[r] /\ pc'[r] \in {"release", "cooloff", "backoff"} /\ worker[r] # "alive"
        /\ pc'[r] # "release" => result'[r] = result[r] /\ worker[r] \in {"tempfail", "crash", "error"}
    BY <2>1 DEF Decide, Go, Settle
  <2>4. result[r] = "none"
    BY DEF IInv, PhasesFit, Decide
  <2> QED
    BY <2>2, <2>3, <2>4 DEF IInv, PhasesFit
<1>5. LateIsLast'
  BY DEF IInv, Decide, TypeOK, LateIsLast, Go, Settle, drain
<1>6. SlotsAreHeld'
  <2>1. Holders' = Holders /\ slots' = slots
    BY DEF IInv, Decide, Holders, TypeOK, Go, Settle, lease, Leased
  <2> QED
    BY <2>1 DEF IInv, SlotsAreHeld
<1>7. SendersWait'
  BY DEF IInv, Decide, TypeOK, SendersWait, Go, Settle, lease
<1> QED
  BY <1>1, <1>2, <1>3, <1>4, <1>5, <1>6, <1>7 DEF IInv

\* A further attempt starts without a worker, and its request still holds the slot.
LEMMA WakeKeeps ==
  ASSUME IInv, NEW r \in Requests, Wake(r)
  PROVE  IInv'
<1>1. TypeOK'
  <2>1. attempt' \in [Requests -> 1..MaxAttempts]
    BY DEF IInv, Wake, TypeOK, Settle
  <2> QED
    BY <2>1 DEF IInv, Wake, TypeOK, Go, Refuse, Settle, DismissSenders, Blocked, run,
       lease, drain, Exit, Leased
<1>2. DrainStopsLaunches'
  BY DEF IInv, Wake, DrainStopsLaunches
<1>3. ResultFitsWorker'
  <2>1. pc[r] \in {"backoff", "cooloff"} /\ worker[r] \in {"tempfail", "crash", "error"}
    BY DEF IInv, Wake, PhasesFit
  <2>2. CASE Settle(r, "cancelled")
    BY <2>1, <2>2 DEF IInv, ResultFitsWorker, Settle, Go
  <2>3. CASE attempt[r] = MaxAttempts /\ Settle(r, "permanent")
    BY <2>1, <2>3 DEF IInv, ResultFitsWorker, Settle, Go
  <2>4. CASE /\ attempt' = [attempt EXCEPT ![r] = @ + 1]
             /\ worker' = [worker EXCEPT ![r] = "none"]
             /\ Go(r, "leased")
             /\ UNCHANGED result
    <3>1. result[r] = "none"
      BY <2>1 DEF IInv, PhasesFit
    <3> QED
      BY <2>4, <3>1 DEF IInv, TypeOK, ResultFitsWorker, Go
  <2> QED
    BY <2>2, <2>3, <2>4 DEF Wake
<1>4. PhasesFit'
  BY DEF IInv, Wake, TypeOK, PhasesFit, Go, Settle
<1>5. LateIsLast'
  BY DEF IInv, Wake, TypeOK, LateIsLast, Go, Settle, drain
<1>6. SlotsAreHeld'
  <2>1. Holders' = Holders /\ slots' = slots
    BY DEF IInv, Wake, Holders, TypeOK, Go, Settle, lease, Leased
  <2> QED
    BY <2>1 DEF IInv, SlotsAreHeld
<1>7. SendersWait'
  BY SMTT(60) DEF IInv, Wake, TypeOK, SendersWait, Go, Settle, lease
<1> QED
  BY <1>1, <1>2, <1>3, <1>4, <1>5, <1>6, <1>7 DEF IInv

\* The token that is taken out is put in again for the oldest sender, or the pool has
\* one holder less and nobody waits.
LEMMA ReleaseKeeps ==
  ASSUME IInv, NEW r \in Requests, Release(r)
  PROVE  IInv'
<1>0. /\ pc[r] = "release" /\ pc'[r] = "returned"
      /\ \A q \in Requests \ {r} : pc'[q] = pc[q] \/ (pc[q] = "blocked" /\ pc'[q] = "leased")
      /\ UNCHANGED <<attempt, worker, result, late, draining>>
  <2>0. DOMAIN pc = Requests /\ pc[r] = "release" /\ UNCHANGED <<attempt, worker, result, late, draining>>
    BY DEF IInv, TypeOK, Release, drain
  <2>1. CASE senders = <<>>
    BY <2>0, <2>1 DEF Release, Go
  <2>2. CASE senders # <<>>
    <3>1. Head(senders) \in Requests /\ pc[Head(senders)] = "blocked"
      BY <2>2, FirstWaits DEF IInv
    <3>2. pc' = [pc EXCEPT ![r] = "returned", ![Head(senders)] = "leased"]
      BY <2>2 DEF Release
    <3> QED
      BY <2>0, <3>1, <3>2
  <2> QED
    BY <2>1, <2>2
<1>1. TypeOK'
  <2>1. Cardinality(Holders) \in Nat \ {0}
    <3>1. r \in Holders
      BY DEF Release, Holders, Leased
    <3> QED
      BY <3>1, FS_CardinalityType, FS_EmptySet DEF IInv, SlotsAreHeld
  <2>2. slots' \in 0..Size
    BY SMTT(60), <2>1 DEF IInv, Release, SlotsAreHeld, TypeOK
  <2>3. senders' \in Seq(Requests)
    BY FirstWaits DEF IInv, Release, TypeOK
  <2>4. pc' \in [Requests -> {"idle", "select", "blocked", "returned"} \cup Leased]
    BY FirstWaits DEF IInv, Release, TypeOK, Leased, Go
  <2> QED
    BY <2>2, <2>3, <2>4 DEF IInv, Release, TypeOK, drain
<1>2. DrainStopsLaunches'
  BY DEF IInv, Release, DrainStopsLaunches
<1>3. ResultFitsWorker'
  BY <1>0 DEF IInv, ResultFitsWorker
<1>4. PhasesFit'
  BY <1>0 DEF IInv, PhasesFit
<1>5. LateIsLast'
  BY <1>0 DEF IInv, LateIsLast
<1>6. SlotsAreHeld'
  <2>0. r \in Holders /\ IsFiniteSet(Holders \ {r}) /\ Cardinality(Holders \ {r}) = slots - 1
    BY FS_RemoveElement DEF IInv, SlotsAreHeld, Release, Holders, Leased
  <2>1. CASE senders = <<>>
    <3>1. Holders' = Holders \ {r}
      BY <2>1 DEF IInv, Release, Holders, TypeOK, Go, Leased
    <3> QED
      BY <2>0, <2>1, <3>1 DEF Release, SlotsAreHeld
  <2>2. CASE senders # <<>>
    <3>1. Holders' = (Holders \ {r}) \cup {Head(senders)} /\ Head(senders) \notin Holders
      BY SMTT(60), <2>2, FirstWaits DEF IInv, Release, Holders, TypeOK, Leased
    <3>2. slots' = slots /\ slots \in Nat
      BY <2>2 DEF IInv, TypeOK, Release
    <3>3. Head(senders) \notin Holders \ {r}
      BY <3>1
    <3>4. IsFiniteSet(Holders') /\ Cardinality(Holders') = Cardinality(Holders \ {r}) + 1
      BY <2>0, <3>1, <3>3, FS_AddElement
    <3> QED
      BY <2>0, <3>2, <3>4 DEF SlotsAreHeld
  <2> QED
    BY <2>1, <2>2
<1>7. SendersWait'
  <2>1. CASE senders = <<>>
    BY <2>1 DEF Release, SendersWait
  <2>2. CASE senders # <<>>
    <3>1. senders' = Tail(senders) /\ slots' = slots /\ pc' = [pc EXCEPT ![r] = "returned", ![Head(senders)] = "leased"]
      BY <2>2 DEF Release
    <3>2. pc[r] = "release" /\ slots = Size
      BY <2>2 DEF Release, IInv, SendersWait
    <3>3. \A i \in 1..Len(senders') :
            /\ i + 1 \in 1..Len(senders) /\ senders'[i] = senders[i + 1]
            /\ senders[i + 1] # Head(senders) /\ senders[i + 1] \in Requests
      BY <3>1, FirstWaits DEF IInv
    <3>4. \A i \in 1..Len(senders') : pc'[senders'[i]] = "blocked"
      BY SMTT(60), <3>1, <3>2 DEF IInv, TypeOK, SendersWait
    <3>5. \A i, j \in 1..Len(senders') : senders'[i] = senders'[j] => i = j
      BY <3>3 DEF IInv, SendersWait
    <3> QED
      BY <3>1, <3>2, <3>4, <3>5 DEF SendersWait
  <2> QED
    BY <2>1, <2>2
<1> QED
  BY <1>1, <1>2, <1>3, <1>4, <1>5, <1>6, <1>7 DEF IInv

\* Before runOnce returns its worker has ended.
LEMMA UntrackKeeps ==
  ASSUME IInv, NEW r \in Requests, Untrack(r)
  PROVE  IInv'
<1>1. TypeOK'
  BY DEF IInv, Untrack, TypeOK, Go, lease, Exit, Leased
<1>2. DrainStopsLaunches'
  BY DEF IInv, Untrack, DrainStopsLaunches
<1>3. ResultFitsWorker'
  BY DEF IInv, Untrack, TypeOK, ResultFitsWorker, PhasesFit, Go
<1>4. PhasesFit'
  BY DEF IInv, Untrack, TypeOK, PhasesFit, Go
<1>5. LateIsLast'
  BY DEF IInv, Untrack, LateIsLast, Go
<1>6. SlotsAreHeld'
  <2>1. Holders' = Holders /\ slots' = slots
    BY DEF Untrack, Holders, Go, lease, Leased
  <2> QED
    BY <2>1 DEF IInv, SlotsAreHeld
<1>7. SendersWait'
  BY DEF IInv, Untrack, SendersWait, Go, lease
<1> QED
  BY <1>1, <1>2, <1>3, <1>4, <1>5, <1>6, <1>7 DEF IInv

\* The watcher of the context only kills.
LEMMA ContextKillsKeeps ==
  ASSUME IInv, NEW r \in Requests, ContextKills(r)
  PROVE  IInv'
<1>1. TypeOK'
  BY DEF IInv, ContextKills, TypeOK, run, lease
<1>2. DrainStopsLaunches'
  BY DEF IInv, ContextKills, DrainStopsLaunches
<1>3. ResultFitsWorker'
  BY DEF IInv, ContextKills, ResultFitsWorker, run
<1>4. PhasesFit'
  BY DEF IInv, ContextKills, PhasesFit, run
<1>5. LateIsLast'
  BY DEF IInv, ContextKills, LateIsLast, run
<1>6. SlotsAreHeld'
  <2>1. Holders' = Holders /\ slots' = slots
    BY DEF ContextKills, Holders, run, lease
  <2> QED
    BY <2>1 DEF IInv, SlotsAreHeld
<1>7. SendersWait'
  BY DEF IInv, ContextKills, SendersWait, run, lease
<1> QED
  BY <1>1, <1>2, <1>3, <1>4, <1>5, <1>6, <1>7 DEF IInv

\* A worker ends while its request is launched or pumps.
LEMMA WorkerExitsKeeps ==
  ASSUME IInv, NEW r \in Requests, WorkerExits(r)
  PROVE  IInv'
<1>1. TypeOK'
  BY DEF IInv, WorkerExits, TypeOK, lease
<1>2. DrainStopsLaunches'
  BY DEF IInv, WorkerExits, DrainStopsLaunches
<1>3. ResultFitsWorker'
  BY DEF IInv, WorkerExits, ResultFitsWorker, PhasesFit
<1>4. PhasesFit'
  BY DEF IInv, WorkerExits, PhasesFit
<1>5. LateIsLast'
  BY DEF IInv, WorkerExits, LateIsLast
<1>6. SlotsAreHeld'
  <2>1. Holders' = Holders /\ slots' = slots
    BY DEF WorkerExits, Holders, lease
  <2> QED
    BY <2>1 DEF IInv, SlotsAreHeld
<1>7. SendersWait'
  BY DEF IInv, WorkerExits, SendersWait, lease
<1> QED
  BY <1>1, <1>2, <1>3, <1>4, <1>5, <1>6, <1>7 DEF IInv

\* Who is woken by the context holds no slot and is in no queue.
LEMMA CancelKeeps ==
  ASSUME IInv, Cancel
  PROVE  IInv'
<1>1. TypeOK'
  BY DEF IInv, Cancel, TypeOK, DismissSenders, drain
<1>2. DrainStopsLaunches'
  BY DEF IInv, Cancel, DrainStopsLaunches
<1>3. ResultFitsWorker'
  BY DEF IInv, Cancel, ResultFitsWorker, PhasesFit, DismissSenders, Blocked
<1>4. PhasesFit'
  BY DEF IInv, Cancel, PhasesFit, DismissSenders, Blocked
<1>5. LateIsLast'
  BY DEF IInv, Cancel, LateIsLast, DismissSenders, drain
<1>6. SlotsAreHeld'
  <2>1. Holders' = Holders /\ slots' = slots
    BY DEF Cancel, Holders, DismissSenders, Blocked, Leased
  <2> QED
    BY <2>1 DEF IInv, SlotsAreHeld
<1>7. SendersWait'
  BY DEF Cancel, SendersWait, DismissSenders
<1> QED
  BY <1>1, <1>2, <1>3, <1>4, <1>5, <1>6, <1>7 DEF IInv

\* From here on a launch counts as late, and none was before.
LEMMA DrainStartKeeps ==
  ASSUME IInv, DrainStart
  PROVE  IInv'
<1>1. TypeOK'
  BY DEF IInv, DrainStart, TypeOK, run, lease
<1>2. DrainStopsLaunches'
  BY DEF IInv, DrainStart, DrainStopsLaunches
<1>3. ResultFitsWorker'
  BY DEF IInv, DrainStart, ResultFitsWorker, run
<1>4. PhasesFit'
  BY DEF IInv, DrainStart, PhasesFit, run
<1>5. LateIsLast'
  BY DEF IInv, DrainStart, LateIsLast, run
<1>6. SlotsAreHeld'
  <2>1. Holders' = Holders /\ slots' = slots
    BY DEF DrainStart, Holders, run, lease
  <2> QED
    BY <2>1 DEF IInv, SlotsAreHeld
<1>7. SendersWait'
  BY DEF IInv, DrainStart, SendersWait, run, lease
<1> QED
  BY <1>1, <1>2, <1>3, <1>4, <1>5, <1>6, <1>7 DEF IInv

\* Who is woken by the drain holds no slot and is in no queue.
LEMMA DrainCloseKeeps ==
  ASSUME IInv, DrainClose
  PROVE  IInv'
<1>1. TypeOK'
  BY DEF IInv, DrainClose, TypeOK, DismissSenders
<1>2. DrainStopsLaunches'
  BY DEF IInv, DrainClose, DrainStopsLaunches
<1>3. ResultFitsWorker'
  BY DEF IInv, DrainClose, ResultFitsWorker, PhasesFit, DismissSenders, Blocked
<1>4. PhasesFit'
  BY DEF IInv, DrainClose, PhasesFit, DismissSenders, Blocked
<1>5. LateIsLast'
  BY DEF IInv, DrainClose, LateIsLast, DismissSenders
<1>6. SlotsAreHeld'
  <2>1. Holders' = Holders /\ slots' = slots
    BY DEF DrainClose, Holders, DismissSenders, Blocked, Leased
  <2> QED
    BY <2>1 DEF IInv, SlotsAreHeld
<1>7. SendersWait'
  BY DEF DrainClose, SendersWait, DismissSenders
<1> QED
  BY <1>1, <1>2, <1>3, <1>4, <1>5, <1>6, <1>7 DEF IInv

\* The grace loop only looks.
LEMMA DrainIdleKeeps ==
  ASSUME IInv, DrainIdle
  PROVE  IInv'
<1>1. TypeOK'
  BY DEF IInv, DrainIdle, TypeOK, run, lease
<1>2. DrainStopsLaunches'
  BY DEF IInv, DrainIdle, DrainStopsLaunches
<1>3. ResultFitsWorker'
  BY DEF IInv, DrainIdle, ResultFitsWorker, run
<1>4. PhasesFit'
  BY DEF IInv, DrainIdle, PhasesFit, run
<1>5. LateIsLast'
  BY DEF IInv, DrainIdle, LateIsLast, run
<1>6. SlotsAreHeld'
  <2>1. Holders' = Holders /\ slots' = slots
    BY DEF DrainIdle, Holders, run, lease
  <2> QED
    BY <2>1 DEF IInv, SlotsAreHeld
<1>7. SendersWait'
  BY DEF IInv, DrainIdle, SendersWait, run, lease
<1> QED
  BY <1>1, <1>2, <1>3, <1>4, <1>5, <1>6, <1>7 DEF IInv

\* The handles are copied, attempts and all.
LEMMA DrainDeadlineKeeps ==
  ASSUME IInv, DrainDeadline
  PROVE  IInv'
<1>1. TypeOK'
  BY DEF IInv, DrainDeadline, TypeOK, run, lease
<1>2. DrainStopsLaunches'
  BY DEF IInv, DrainDeadline, DrainStopsLaunches
<1>3. ResultFitsWorker'
  BY DEF IInv, DrainDeadline, ResultFitsWorker, run
<1>4. PhasesFit'
  BY DEF IInv, DrainDeadline, PhasesFit, run
<1>5. LateIsLast'
  BY DEF IInv, DrainDeadline, LateIsLast, run
<1>6. SlotsAreHeld'
  <2>1. Holders' = Holders /\ slots' = slots
    BY DEF DrainDeadline, Holders, run, lease
  <2> QED
    BY <2>1 DEF IInv, SlotsAreHeld
<1>7. SendersWait'
  BY DEF IInv, DrainDeadline, SendersWait, run, lease
<1> QED
  BY <1>1, <1>2, <1>3, <1>4, <1>5, <1>6, <1>7 DEF IInv

\* Drain kills; it takes no slot and no result.
LEMMA DrainKillKeeps ==
  ASSUME IInv, DrainKill
  PROVE  IInv'
<1>1. TypeOK'
  BY DEF IInv, DrainKill, TypeOK, run, lease
<1>2. DrainStopsLaunches'
  BY DEF IInv, DrainKill, DrainStopsLaunches
<1>3. ResultFitsWorker'
  BY DEF IInv, DrainKill, ResultFitsWorker, run
<1>4. PhasesFit'
  BY DEF IInv, DrainKill, PhasesFit, run
<1>5. LateIsLast'
  BY DEF IInv, DrainKill, LateIsLast, run
<1>6. SlotsAreHeld'
  <2>1. Holders' = Holders /\ slots' = slots
    BY DEF DrainKill, Holders, run, lease
  <2> QED
    BY <2>1 DEF IInv, SlotsAreHeld
<1>7. SendersWait'
  BY DEF IInv, DrainKill, SendersWait, run, lease
<1> QED
  BY <1>1, <1>2, <1>3, <1>4, <1>5, <1>6, <1>7 DEF IInv

\* An empty pool satisfies the invariant.
LEMMA InitIInv == Init => IInv
<1> SUFFICES ASSUME Init PROVE IInv
  OBVIOUS
<1>1. TypeOK
  <2>1. 1 \in 1..MaxAttempts /\ 0 \in 0..MaxAttempts /\ 0 \in 0..Size /\ <<>> \in Seq(Requests)
    OBVIOUS
  <2> QED
    BY <2>1 DEF Init, TypeOK
<1>2. DrainStopsLaunches
  BY DEF Init, DrainStopsLaunches
<1>3. ResultFitsWorker
  BY DEF Init, ResultFitsWorker
<1>4. PhasesFit
  BY DEF Init, PhasesFit
<1>5. LateIsLast
  BY DEF Init, LateIsLast
<1>6. SlotsAreHeld
  <2>1. Holders = {}
    BY DEF Init, Holders, Leased
  <2> QED
    BY <2>1, FS_EmptySet DEF Init, SlotsAreHeld
<1>7. SendersWait
  BY DEF Init, SendersWait
<1> QED
  BY <1>1, <1>2, <1>3, <1>4, <1>5, <1>6, <1>7 DEF IInv

\* So does every state a step leads to.
LEMMA NextKeepsIInv ==
  ASSUME IInv, [Next]_vars
  PROVE  IInv'
<1>1. CASE Next
  BY <1>1, EnterKeeps, SelectKeeps, CheckDrainKeeps, LaunchKeeps, TrackKeeps, DecideKeeps,
     WakeKeeps, ReleaseKeeps, UntrackKeeps, ContextKillsKeeps, WorkerExitsKeeps,
     CancelKeeps, DrainStartKeeps, DrainCloseKeeps, DrainIdleKeeps, DrainDeadlineKeeps,
     DrainKillKeeps DEF Next, Progress, DrainStep
<1>2. CASE UNCHANGED vars
  BY <1>2 DEF vars, SlotsAreHeld, Holders, IInv, TypeOK, DrainStopsLaunches,
     ResultFitsWorker, PhasesFit, LateIsLast, SendersWait, run, lease, drain
<1> QED
  BY <1>1, <1>2

\* The invariant holds in every behaviour.
LEMMA Inductive == Spec => []IInv
<1>1. IInv /\ [Next]_vars => IInv'
  BY NextKeepsIInv
<1> QED
  BY <1>1, InitIInv, PTL DEF Spec

-----------------------------------------------------------------------------

\* The instance counts as this module does.
LEMMA SameCardinality == Lease!Cardinality(Holders) = Cardinality(Holders)
BY DEF Lease!Cardinality, Cardinality

\* A Run launches no more than one worker once Drain has begun, and reports what
\* came of its last one: the checks of p.draining and the switch on the outcome in
\* Run (pool.go).
THEOREM RunsStayHonest == Spec => []RunsAreHonest
<1>1. IInv => RunsAreHonest
  BY DEF IInv, RunsAreHonest
<1> QED
  BY <1>1, Inductive, PTL

\* acquire, release and the hand-over of the channel p.slots implement a bounded
\* lease that nobody overtakes.
THEOREM ThePoolIsALease == Spec => PoolIsALease
<1>1. Init => Lease!Init
  BY DEF Init, Lease!Init, Holders, Leased
<1>2. ASSUME IInv, [Next]_vars
      PROVE  [Lease!Next]_Lease!vars
  <2>0. Cardinality(Holders) = slots /\ slots \in 0..Size
    BY <1>2 DEF IInv, SlotsAreHeld, TypeOK
  <2>1. ASSUME NEW r \in Requests, Select(r)
        PROVE  [Lease!Next]_Lease!vars
    <3>1. CASE slots < Size /\ Go(r, "leased") /\ UNCHANGED senders
      <4>1. Holders' = Holders \cup {r} /\ r \notin Holders
        BY <1>2, <2>1, <3>1 DEF IInv, TypeOK, Go, Select, Holders, Leased
      <4>2. senders = <<>>
        BY <1>2, <3>1 DEF IInv, SendersWait
      <4>3. Lease!Take(r)
        BY <2>0, <3>1, <4>1, <4>2, SameCardinality DEF Lease!Take
      <4> QED
        BY <4>3 DEF Lease!Next
    <3>2. CASE slots = Size /\ Go(r, "blocked") /\ senders' = Append(senders, r)
      <4>1. Holders' = Holders /\ r \notin Holders
        BY <2>1, <3>2 DEF Go, Select, Holders, Leased
      <4>2. ~Lease!InLine(r)
        BY SMTT(60), <1>2, <2>1 DEF IInv, TypeOK, SendersWait, Select, Lease!InLine
      <4>3. Lease!Wait(r)
        BY <2>0, <3>2, <4>1, <4>2, SameCardinality DEF Lease!Wait
      <4> QED
        BY <4>3 DEF Lease!Next
    <3>3. CASE Go(r, "returned") /\ UNCHANGED senders
      BY <2>1, <3>3 DEF Go, Select, Holders, Leased, Lease!vars
    <3> QED
      BY <2>1, <3>1, <3>2, <3>3 DEF Select, Refuse, lease
  <2>2. ASSUME NEW r \in Requests, Release(r)
        PROVE  [Lease!Next]_Lease!vars
    <3>1. r \in Holders
      BY <2>2 DEF Release, Holders, Leased
    <3>2. CASE senders = <<>>
      <4>1. Holders' = Holders \ {r}
        BY <1>2, <2>2, <3>2 DEF IInv, TypeOK, Go, Release, Holders, Leased
      <4> QED
        BY <2>2, <3>1, <3>2, <4>1 DEF Release, Lease!Next, Lease!Return
    <3>3. CASE senders # <<>>
      <4>1. Holders' = (Holders \ {r}) \cup {Head(senders)}
        BY SMTT(60), <1>2, <2>2, <3>3 DEF IInv, TypeOK, Release, Holders, Leased
      <4> QED
        BY <2>2, <3>1, <3>3, <4>1 DEF Release, Lease!Next, Lease!Return
    <3> QED
      BY <3>2, <3>3
  <2>3. ASSUME Cancel \/ DrainClose
        PROVE  [Lease!Next]_Lease!vars
    <3>1. Holders' = Holders /\ senders' = <<>>
      BY <2>3 DEF Cancel, DrainClose, DismissSenders, Blocked, Holders, Leased
    <3> QED
      BY <3>1 DEF Lease!Next, Lease!Dismiss
  <2>4. ASSUME \/ \E r \in Requests : \/ Enter(r) \/ CheckDrain(r) \/ Launch(r) \/ Track(r) \/ Decide(r)
                                      \/ Wake(r) \/ Untrack(r) \/ ContextKills(r) \/ WorkerExits(r)
               \/ DrainStart \/ DrainIdle \/ DrainDeadline \/ DrainKill \/ UNCHANGED vars
        PROVE  UNCHANGED <<Holders, senders>>
    BY <1>2, <2>4 DEF IInv, TypeOK, Enter, CheckDrain, Launch, Track, Decide, Wake,
       Untrack, ContextKills, WorkerExits, DrainStart, DrainIdle, DrainDeadline,
       DrainKill, vars, run, lease, Go, Refuse, Settle, Holders, Leased
  <2> QED
    BY <1>2, <2>1, <2>2, <2>3, <2>4 DEF Next, Progress, DrainStep, Lease!vars
<1> QED
  BY <1>1, <1>2, Inductive, PTL DEF Spec, PoolIsALease, Lease!Spec

-----------------------------------------------------------------------------
(* The stream of one session.                                              *)

CONSTANTS Clients, MaxBuffer, ChanCap, MaxLines
VARIABLES state, lines, buffer, subscribers, chan, closed, dropped, closing, handler,
          replay, got, outcome, base, stopping, panicked

\* Session, its clients and its worker; handler is where the connection of each client is.
Session == INSTANCE DaemonSession WITH pc <- handler

HIDE DaemonPoolAssumption

-----------------------------------------------------------------------------
(* The inductive invariant.                                                *)

\* Each entry takes up where the one before it stopped, the first one at b.
Chain(s, b) ==
    \A i \in 1..Len(s) : s[i].upto = (IF i = 1 THEN b ELSE s[i - 1].upto) + s[i].count

\* The line a stream has got to.
Upto(s, b) == IF s = <<>> THEN b ELSE s[Len(s)].upto

\* The history is the last lines that were printed.
BufferIsRecent ==
    /\ Len(buffer) <= lines
    /\ \A i \in 1..Len(buffer) : buffer[i] = Session!LineAt(lines - Len(buffer) + i)

\* A client that has not attached has nothing.
IdleIsNew ==
    \A c \in Clients : handler[c] = "idle" =>
       /\ got[c] = <<>> /\ replay[c] = <<>> /\ chan[c] = <<>> /\ dropped[c] = 0
       /\ c \notin subscribers \cup closing \cup closed

\* An outcome ends the stream, and that of a whole stream comes after the finish.
OutcomesFit ==
    \A c \in Clients :
       /\ outcome[c] = "none" <=> handler[c] \in {"idle", "stream"}
       /\ outcome[c] \in {"end", "error"} => Session!Finished

\* A channel is registered, then due to be closed, then closed; while its client
\* still reads, only finish closes it.
ChannelsCloseOnce ==
    /\ subscribers \cap closed = {} /\ closing \cap closed = {}
    /\ Session!Finished => subscribers = {}
    /\ closing # {} => Session!Finished
    /\ \A c \in closed : handler[c] = "stream" => Session!Finished

\* What a client has, what it replays and what is in its channel make one stream.
StreamsChain == \A c \in Clients : Chain(Session!Stream(c), base[c])

\* The clients whose lines and losses add up: those EveryLineIsAccounted names, and
\* those that have still to read what finish has closed.
Counted(c) ==
    \/ c \in subscribers \/ c \in closing \/ outcome[c] \in {"end", "error"}
    \/ c \in closed /\ handler[c] = "stream"

\* Their lines and losses make up all that was printed.
LinesAddUp == \A c \in Clients : Counted(c) => Upto(Session!Stream(c), base[c]) + dropped[c] = lines

\* All of it.
SessionIInv ==
    /\ Session!DaemonSessionAssumption
    /\ Session!TypeOK /\ BufferIsRecent /\ IdleIsNew /\ OutcomesFit
    /\ ChannelsCloseOnce /\ StreamsChain /\ LinesAddUp /\ ~panicked

-----------------------------------------------------------------------------
(* Sequences of entries.                                                   *)

\* An entry.
LEMMA EntryFacts == \A e \in Session!Entries : e.count \in Nat /\ e.upto \in 1..MaxLines
BY DEF Session!Entries, Session!LineAt, Session!GapNotice

\* The two kinds of entries.
LEMMA KindsFacts ==
  ASSUME MaxLines \in Nat
  PROVE  /\ \A n \in 1..MaxLines :
              LET e == Session!LineAt(n) IN e \in Session!Entries /\ e.count = 1 /\ e.upto = n
         /\ \A k, n \in 1..MaxLines :
              LET e == Session!GapNotice(k, n) IN e \in Session!Entries /\ e.count = k /\ e.upto = n
BY DEF Session!Entries, Session!LineAt, Session!GapNotice

\* The sizes.
LEMMA SessionSizes ==
  ASSUME SessionIInv
  PROVE  MaxBuffer \in Nat \ {0} /\ ChanCap \in Nat /\ ChanCap >= 2 /\ MaxLines \in Nat
BY DEF SessionIInv, Session!DaemonSessionAssumption

\* Append, index by index.
LEMMA AppendFacts ==
  ASSUME NEW S, NEW s \in Seq(S), NEW e \in S
  PROVE  /\ Append(s, e) \in Seq(S) /\ Append(s, e) # <<>>
         /\ Len(s) \in Nat /\ Len(Append(s, e)) = Len(s) + 1
         /\ Append(s, e)[Len(s) + 1] = e
         /\ \A i \in 1..Len(s) : Append(s, e)[i] = s[i]
OBVIOUS

\* An entry that takes up where the stream stopped.
LEMMA ChainAppend ==
  ASSUME NEW s \in Seq(Session!Entries), NEW e \in Session!Entries, NEW b, Chain(s, b), e.upto = Upto(s, b) + e.count
  PROVE  Append(s, e) \in Seq(Session!Entries) /\ Chain(Append(s, e), b) /\ Upto(Append(s, e), b) = e.upto
<1> DEFINE t == Append(s, e)
<1>1. /\ t \in Seq(Session!Entries) /\ t # <<>> /\ Len(s) \in Nat /\ Len(t) = Len(s) + 1
      /\ t[Len(s) + 1] = e /\ \A i \in 1..Len(s) : t[i] = s[i]
  BY AppendFacts
<1>2. s = <<>> <=> Len(s) = 0
  BY EmptySeq
<1> HIDE DEF t
<1>3. ASSUME NEW i \in 1..Len(t)
      PROVE  t[i].upto = (IF i = 1 THEN b ELSE t[i - 1].upto) + t[i].count
  <2>1. CASE i \in 1..Len(s)
    <3>1. i # 1 => i - 1 \in 1..Len(s)
      BY <1>1, <2>1
    <3> QED
      BY <1>1, <2>1, <3>1 DEF Chain
  <2>2. CASE i = Len(s) + 1
    <3>1. i # 1 => i - 1 = Len(s) /\ Len(s) \in 1..Len(s)
      BY <1>1, <2>2
    <3>2. Upto(s, b) = IF i = 1 THEN b ELSE t[i - 1].upto
      BY <1>1, <1>2, <2>2, <3>1 DEF Upto
    <3> QED
      BY <1>1, <2>2, <3>2
  <2> QED
    BY <1>1, <2>1, <2>2
<1>4. Chain(t, b) /\ Upto(t, b) = e.upto
  BY <1>1, <1>3 DEF Chain, Upto
<1> QED
  BY <1>1, <1>4 DEF t

\* Append and concatenation commute.
LEMMA ConcatAppend ==
  ASSUME NEW S, NEW s \in Seq(S), NEW t \in Seq(S), NEW e \in S
  PROVE  s \o Append(t, e) = Append(s \o t, e)
<1>1. /\ s \o t \in Seq(S) /\ Append(t, e) \in Seq(S) /\ Len(s) \in Nat /\ Len(t) \in Nat
      /\ Len(s \o t) = Len(s) + Len(t) /\ Len(Append(t, e)) = Len(t) + 1
  BY ConcatProperties, AppendFacts
<1> DEFINE u == s \o Append(t, e)
           v == Append(s \o t, e)
<1>2. u \in Seq(S) /\ v \in Seq(S) /\ Len(u) = Len(s) + Len(t) + 1 /\ Len(v) = Len(s) + Len(t) + 1
  <2>1. u \in Seq(S) /\ Len(u) = Len(s) + Len(Append(t, e))
    BY <1>1, ConcatProperties
  <2>2. v \in Seq(S) /\ Len(v) = Len(s \o t) + 1
    BY <1>1, AppendFacts
  <2> QED
    BY <1>1, <2>1, <2>2
<1>3. ASSUME NEW i \in 1..Len(u)
      PROVE  u[i] = v[i]
  <2>1. u[i] = IF i <= Len(s) THEN s[i] ELSE Append(t, e)[i - Len(s)]
    BY <1>1, <1>2, <1>3, ConcatProperties
  <2>2. i <= Len(s) + Len(t) => v[i] = (s \o t)[i]
    BY <1>1, <1>2, <1>3, AppendFacts
  <2>3. i <= Len(s) + Len(t) => (s \o t)[i] = IF i <= Len(s) THEN s[i] ELSE t[i - Len(s)]
    BY <1>1, <1>2, <1>3, ConcatProperties
  <2>4. i > Len(s) /\ i <= Len(s) + Len(t) => Append(t, e)[i - Len(s)] = t[i - Len(s)]
    BY <1>1, <1>2, <1>3, AppendFacts
  <2>5. i = Len(s) + Len(t) + 1 => v[i] = e /\ Append(t, e)[i - Len(s)] = e
    BY <1>1, AppendFacts
  <2> QED
    BY <1>1, <1>2, <2>1, <2>2, <2>3, <2>4, <2>5
<1> QED
  BY <1>2, <1>3, SeqEqual

\* An entry that moves from the head of one part of a stream to the end of the part
\* before it leaves the stream as it is.
LEMMA HeadMoves ==
  ASSUME NEW S, NEW s \in Seq(S), NEW t \in Seq(S), t # <<>>
  PROVE  /\ Append(s, Head(t)) \in Seq(S) /\ Tail(t) \in Seq(S)
         /\ Append(s, Head(t)) \o Tail(t) = s \o t
<1>1. /\ Head(t) \in S /\ Tail(t) \in Seq(S) /\ Len(Tail(t)) = Len(t) - 1 /\ Len(t) \in Nat \ {0} /\ Head(t) = t[1]
      /\ \A i \in 1..Len(Tail(t)) : Tail(t)[i] = t[i + 1]
  BY HeadTailProperties, EmptySeq
<1> DEFINE a == Append(s, Head(t))
           u == a \o Tail(t)
           v == s \o t
<1>2. a \in Seq(S) /\ Len(a) = Len(s) + 1 /\ Len(s) \in Nat /\ a[Len(s) + 1] = t[1] /\ \A i \in 1..Len(s) : a[i] = s[i]
  BY <1>1, AppendFacts
<1> HIDE DEF a
<1>3. /\ u \in Seq(S) /\ Len(u) = Len(s) + Len(t)
      /\ \A i \in 1..(Len(s) + Len(t)) : u[i] = IF i <= Len(s) + 1 THEN a[i] ELSE Tail(t)[i - (Len(s) + 1)]
  <2>1. /\ u \in Seq(S) /\ Len(u) = Len(a) + Len(Tail(t))
        /\ \A i \in 1..(Len(a) + Len(Tail(t))) : u[i] = IF i <= Len(a) THEN a[i] ELSE Tail(t)[i - Len(a)]
    BY ZenonT(60), <1>1, <1>2, ConcatProperties
  <2>2. Len(a) + Len(Tail(t)) = Len(s) + Len(t)
    BY <1>1, <1>2
  <2> QED
    BY <1>2, <2>1, <2>2
<1>4. /\ v \in Seq(S) /\ Len(v) = Len(s) + Len(t)
      /\ \A i \in 1..(Len(s) + Len(t)) : v[i] = IF i <= Len(s) THEN s[i] ELSE t[i - Len(s)]
  BY <1>1, <1>2, ConcatProperties
<1> HIDE DEF u, v
<1>5. ASSUME NEW i \in 1..Len(u)
      PROVE  u[i] = v[i]
  <2>1. CASE i <= Len(s)
    BY SMTT(60), <1>1, <1>2, <1>3, <1>4, <1>5, <2>1
  <2>2. CASE i = Len(s) + 1
    BY <1>1, <1>2, <1>3, <1>4, <1>5, <2>2
  <2>3. CASE i > Len(s) + 1
    <3>1. i - (Len(s) + 1) \in 1..Len(Tail(t)) /\ i - (Len(s) + 1) + 1 = i - Len(s)
      BY <1>1, <1>2, <1>3, <1>5, <2>3
    <3> QED
      BY <1>1, <1>2, <1>3, <1>4, <1>5, <2>3, <3>1
  <2> QED
    BY <1>2, <1>3, <2>1, <2>2, <2>3
<1>6. u = v
  BY <1>3, <1>4, <1>5, SeqEqual
<1> QED
  BY <1>1, <1>2, <1>6 DEF a, u, v

\* The parts of a stream are sequences of entries.
LEMMA StreamFacts ==
  ASSUME Session!TypeOK, NEW c \in Clients
  PROVE  /\ got[c] \in Seq(Session!Entries) /\ replay[c] \in Seq(Session!Entries) /\ chan[c] \in Seq(Session!Entries)
         /\ got[c] \o replay[c] \in Seq(Session!Entries) /\ Session!Stream(c) \in Seq(Session!Entries)
<1>1. got[c] \in Seq(Session!Entries) /\ replay[c] \in Seq(Session!Entries) /\ chan[c] \in Seq(Session!Entries)
  BY DEF Session!TypeOK
<1>2. got[c] \o replay[c] \in Seq(Session!Entries)
  BY <1>1, ConcatProperties
<1> QED
  BY <1>1, <1>2, ConcatProperties DEF Session!Stream

\* A stream gets to some line.
LEMMA UptoFacts ==
  ASSUME NEW s \in Seq(Session!Entries), NEW b \in 0..MaxLines
  PROVE  Upto(s, b) \in 0..MaxLines
<1>1. CASE s = <<>>
  BY <1>1 DEF Upto
<1>2. CASE s # <<>>
  <2>1. s[Len(s)] \in Session!Entries
    BY <1>2, EmptySeq, ElementOfSeq
  <2> QED
    BY <1>2, <2>1, EntryFacts DEF Upto
<1> QED
  BY <1>1, <1>2
\* What reaches a subscriber's channel goes to the end of its stream.
LEMMA ChannelAppend ==
  ASSUME Session!TypeOK, NEW c \in Clients, NEW q \in Seq(Session!Entries), NEW e \in Session!Entries,
         Chain(got[c] \o replay[c] \o q, base[c]),
         e.upto = Upto(got[c] \o replay[c] \o q, base[c]) + e.count
  PROVE  /\ Append(q, e) \in Seq(Session!Entries)
         /\ Chain(got[c] \o replay[c] \o Append(q, e), base[c])
         /\ Upto(got[c] \o replay[c] \o Append(q, e), base[c]) = e.upto
<1> DEFINE g == got[c] \o replay[c]
<1>1. g \in Seq(Session!Entries) /\ Append(q, e) \in Seq(Session!Entries)
  BY StreamFacts, AppendFacts
<1> HIDE DEF g
<1>2. g \o q \in Seq(Session!Entries) /\ g \o Append(q, e) = Append(g \o q, e)
  BY <1>1, ConcatAppend, ConcatProperties
<1>3. Chain(g \o q, base[c]) /\ e.upto = Upto(g \o q, base[c]) + e.count
  BY DEF g
<1>4. Chain(Append(g \o q, e), base[c]) /\ Upto(Append(g \o q, e), base[c]) = e.upto
  BY <1>2, <1>3, ChainAppend
<1> QED
  BY <1>1, <1>2, <1>4 DEF g

\* offer puts the line into the channel, after a notice for what was dropped if there
\* is one, or drops it: the stream still chains and adds up.
LEMMA OfferFacts ==
  ASSUME SessionIInv, Session!Line, NEW c \in subscribers
  PROVE  /\ Session!Offer(c).chan \in Seq(Session!Entries) /\ Len(Session!Offer(c).chan) <= ChanCap
         /\ Session!Offer(c).dropped \in 0..MaxLines
         /\ Chain(got[c] \o replay[c] \o Session!Offer(c).chan, base[c])
         /\ Upto(got[c] \o replay[c] \o Session!Offer(c).chan, base[c]) + Session!Offer(c).dropped = lines + 1
<1> DEFINE G(q) == got[c] \o replay[c] \o q
           new == Session!LineAt(lines + 1)
<1>1. /\ c \in Clients /\ lines \in 0..MaxLines /\ lines + 1 \in 1..MaxLines
      /\ chan[c] \in Seq(Session!Entries) /\ Len(chan[c]) \in Nat /\ Len(chan[c]) <= ChanCap
      /\ dropped[c] \in 0..MaxLines /\ base[c] \in 0..MaxLines
      /\ MaxLines \in Nat /\ ChanCap \in Nat /\ ChanCap >= 2
  BY SessionSizes, LenProperties DEF SessionIInv, Session!TypeOK, Session!Line
<1>2. Chain(G(chan[c]), base[c]) /\ Upto(G(chan[c]), base[c]) + dropped[c] = lines
  BY <1>1 DEF SessionIInv, StreamsChain, LinesAddUp, Counted, Session!Stream
<1>3. G(chan[c]) \in Seq(Session!Entries) /\ Upto(G(chan[c]), base[c]) \in 0..MaxLines
  BY <1>1, StreamFacts, UptoFacts DEF SessionIInv, Session!Stream
<1>4. new \in Session!Entries /\ new.count = 1 /\ new.upto = lines + 1
  BY <1>1, KindsFacts
<1> HIDE DEF G, new
<1>5. dropped[c] <= lines
  BY <1>1, <1>2, <1>3
<1>6. CASE Session!Owed(c)
  <2> DEFINE e == Session!GapNotice(dropped[c], lines)
             q == Append(chan[c], e)
  <2>1. dropped[c] \in 1..MaxLines /\ lines \in 1..MaxLines
    BY <1>1, <1>5, <1>6 DEF Session!Owed
  <2>2. e \in Session!Entries /\ e.count = dropped[c] /\ e.upto = lines
    BY <1>1, <2>1, KindsFacts
  <2> HIDE DEF e
  <2>3. q \in Seq(Session!Entries) /\ Len(q) = Len(chan[c]) + 1 /\ Len(q) <= ChanCap
    BY <1>1, <1>6, <2>2, AppendFacts DEF Session!Owed, Session!Full
  <2>4. e.upto = Upto(G(chan[c]), base[c]) + e.count
    BY <1>1, <1>2, <1>3, <2>2
  <2>5. Chain(G(q), base[c]) /\ Upto(G(q), base[c]) = lines
    BY <1>1, <1>2, <2>2, <2>4, ChannelAppend DEF SessionIInv, G
  <2> HIDE DEF q
  <2>6. CASE Session!Full(q)
    <3>1. Session!Offer(c) = [chan |-> q, dropped |-> 1]
      BY <1>6, <2>6 DEF Session!Offer, q, e
    <3> QED
      BY <1>1, <2>3, <2>5, <3>1 DEF G
  <2>7. CASE ~Session!Full(q)
    <3>1. Session!Offer(c) = [chan |-> Append(q, new), dropped |-> 0]
      BY <1>6, <2>7 DEF Session!Offer, q, e, new
    <3>2. Len(Append(q, new)) <= ChanCap
      BY <1>1, <1>4, <2>3, <2>7, AppendFacts DEF Session!Full
    <3>3. /\ Append(q, new) \in Seq(Session!Entries) /\ Chain(G(Append(q, new)), base[c])
          /\ Upto(G(Append(q, new)), base[c]) = lines + 1
      BY <1>1, <1>4, <2>3, <2>5, ChannelAppend DEF SessionIInv, G
    <3> QED
      BY <1>1, <3>1, <3>2, <3>3 DEF G
  <2> QED
    BY <2>6, <2>7
<1>7. CASE ~Session!Owed(c)
  <2>1. CASE dropped[c] > 0 \/ Session!Full(chan[c])
    <3>1. Session!Offer(c) = [chan |-> chan[c], dropped |-> dropped[c] + 1]
      BY <1>7, <2>1 DEF Session!Offer
    <3>2. dropped[c] + 1 \in 0..MaxLines /\ Upto(G(chan[c]), base[c]) + (dropped[c] + 1) = lines + 1
      BY SMTT(60), <1>1, <1>2, <1>3, <1>5
    <3> QED
      BY <1>1, <1>2, <3>1, <3>2 DEF G
  <2>2. CASE ~(dropped[c] > 0 \/ Session!Full(chan[c]))
    <3>1. Session!Offer(c) = [chan |-> Append(chan[c], new), dropped |-> 0]
      BY <1>7, <2>2 DEF Session!Offer, new
    <3>2. Len(Append(chan[c], new)) <= ChanCap
      BY <1>1, <1>4, <2>2, AppendFacts DEF Session!Full
    <3>3. Upto(G(chan[c]), base[c]) = lines
      BY <1>1, <1>2, <1>3, <2>2
    <3>4. /\ Append(chan[c], new) \in Seq(Session!Entries) /\ Chain(G(Append(chan[c], new)), base[c])
          /\ Upto(G(Append(chan[c], new)), base[c]) = lines + 1
      BY <1>1, <1>2, <1>4, <3>3, ChannelAppend DEF SessionIInv, G
    <3> QED
      BY <1>1, <3>1, <3>2, <3>4 DEF G
  <2> QED
    BY <2>1, <2>2
<1> QED
  BY <1>6, <1>7

\* The ring keeps the most recent lines.
LEMMA RememberFacts ==
  ASSUME SessionIInv, Session!Line
  PROVE  buffer' \in Seq(Session!Entries) /\ Len(buffer') <= MaxBuffer /\ BufferIsRecent'
<1> DEFINE e == Session!LineAt(lines + 1)
<1>1. /\ lines \in 0..MaxLines /\ lines' = lines + 1 /\ lines + 1 \in 1..MaxLines
      /\ buffer \in Seq(Session!Entries) /\ Len(buffer) \in Nat /\ Len(buffer) <= MaxBuffer /\ Len(buffer) <= lines
      /\ \A i \in 1..Len(buffer) : buffer[i] = Session!LineAt(lines - Len(buffer) + i)
      /\ MaxLines \in Nat /\ MaxBuffer \in Nat \ {0}
  BY SessionSizes, LenProperties DEF SessionIInv, Session!TypeOK, Session!Line, BufferIsRecent
<1>2. e \in Session!Entries
  BY <1>1, KindsFacts
<1> HIDE DEF e
<1>3. CASE Len(buffer) < MaxBuffer
  <2>1. buffer' = Append(buffer, e)
    BY <1>3 DEF Session!Line, Session!Remember, e
  <2>2. /\ buffer' \in Seq(Session!Entries) /\ Len(buffer') = Len(buffer) + 1 /\ buffer'[Len(buffer) + 1] = e
        /\ \A i \in 1..Len(buffer) : buffer'[i] = buffer[i]
    BY <1>1, <1>2, <2>1, AppendFacts
  <2>3. ASSUME NEW i \in 1..Len(buffer')
        PROVE  buffer'[i] = Session!LineAt(lines' - Len(buffer') + i)
    <3>1. CASE i \in 1..Len(buffer)
      <4>1. lines' - Len(buffer') + i = lines - Len(buffer) + i
        BY <1>1, <2>2, <3>1
      <4> QED
        BY <1>1, <2>2, <3>1, <4>1
    <3>2. CASE i = Len(buffer) + 1
      <4>1. lines' - Len(buffer') + i = lines + 1
        BY <1>1, <2>2, <3>2
      <4> QED
        BY <2>2, <3>2, <4>1 DEF e
    <3> QED
      BY <1>1, <2>2, <3>1, <3>2
  <2>4. Len(buffer') <= MaxBuffer /\ Len(buffer') <= lines'
    BY <1>1, <1>3, <2>2
  <2> QED
    BY <2>2, <2>3, <2>4 DEF BufferIsRecent
<1>4. CASE ~(Len(buffer) < MaxBuffer)
  <2> DEFINE t == Tail(buffer)
  <2>1. Len(buffer) = MaxBuffer /\ buffer # <<>>
    BY <1>1, <1>4, EmptySeq
  <2>2. t \in Seq(Session!Entries) /\ Len(t) = Len(buffer) - 1 /\ \A i \in 1..Len(t) : t[i] = buffer[i + 1]
    BY <1>1, <2>1, HeadTailProperties
  <2>3. buffer' = Append(t, e)
    BY <1>4 DEF Session!Line, Session!Remember, e
  <2> HIDE DEF t
  <2>4. /\ buffer' \in Seq(Session!Entries) /\ Len(buffer') = Len(t) + 1 /\ buffer'[Len(t) + 1] = e
        /\ \A i \in 1..Len(t) : buffer'[i] = t[i]
    BY <1>2, <2>2, <2>3, AppendFacts
  <2>5. Len(buffer') = Len(buffer)
    BY <1>1, <2>2, <2>4
  <2>6. ASSUME NEW i \in 1..Len(buffer')
        PROVE  buffer'[i] = Session!LineAt(lines' - Len(buffer') + i)
    <3>1. CASE i \in 1..Len(t)
      <4>1. i + 1 \in 1..Len(buffer) /\ lines' - Len(buffer') + i = lines - Len(buffer) + (i + 1)
        BY <1>1, <2>2, <2>5, <3>1
      <4> QED
        BY <1>1, <2>2, <2>4, <3>1, <4>1
    <3>2. CASE i = Len(t) + 1
      <4>1. lines' - Len(buffer') + i = lines + 1
        BY <1>1, <2>2, <2>5, <3>2
      <4> QED
        BY <2>4, <3>2, <4>1 DEF e
    <3> QED
      BY <1>1, <2>2, <2>4, <3>1, <3>2
  <2>7. Len(buffer') <= MaxBuffer /\ Len(buffer') <= lines'
    BY <1>1, <2>5
  <2> QED
    BY <2>4, <2>6, <2>7 DEF BufferIsRecent
<1> QED
  BY <1>3, <1>4
-----------------------------------------------------------------------------
(* Every action keeps the invariant: the run.                              *)

\* The start of the session prints nothing.
LEMMA StartedKeeps ==
  ASSUME SessionIInv, Session!Started
  PROVE  SessionIInv'
<1>1. Session!TypeOK' /\ BufferIsRecent'
  BY DEF Session!Started, Session!subs, Session!client, SessionIInv, Session!TypeOK,
     BufferIsRecent
<1>2. IdleIsNew' /\ OutcomesFit' /\ ChannelsCloseOnce' /\ ~panicked'
  BY DEF Session!Started, Session!subs, Session!client, Session!Finished, SessionIInv, IdleIsNew,
     OutcomesFit, ChannelsCloseOnce
<1>3. StreamsChain' /\ LinesAddUp'
  BY DEF Session!Started, Session!subs, Session!client, SessionIInv, StreamsChain, LinesAddUp,
     Counted, Session!Stream
<1> QED
  BY <1>1, <1>2, <1>3 DEF SessionIInv

\* Every subscriber is offered the line, and the history keeps the last ones.
LEMMA LineKeeps ==
  ASSUME SessionIInv, Session!Line
  PROVE  SessionIInv'
<1>1. /\ buffer' \in Seq(Session!Entries) /\ Len(buffer') <= MaxBuffer /\ BufferIsRecent'
      /\ lines' \in 0..MaxLines /\ lines' = lines + 1
  BY RememberFacts DEF Session!Line, SessionIInv, Session!TypeOK
<1>2. subscribers \subseteq Clients /\ ~Session!Finished
  BY DEF Session!Line, Session!Finished, SessionIInv, Session!TypeOK
<1>3. \A c \in Clients :
        /\ c \in subscribers => chan'[c] = Session!Offer(c).chan /\ dropped'[c] = Session!Offer(c).dropped
        /\ c \notin subscribers => chan'[c] = chan[c] /\ dropped'[c] = dropped[c]
  BY DEF Session!Line
<1>4. /\ chan' \in [Clients -> Seq(Session!Entries)] /\ dropped' \in [Clients -> 0..MaxLines]
      /\ \A c \in Clients : Len(chan'[c]) <= ChanCap
  <2>1. \A c \in Clients : chan'[c] \in Seq(Session!Entries) /\ dropped'[c] \in 0..MaxLines /\ Len(chan'[c]) <= ChanCap
    BY <1>3, OfferFacts DEF SessionIInv, Session!TypeOK
  <2> QED
    BY <2>1 DEF Session!Line
<1>5. Session!TypeOK'
  BY <1>1, <1>4 DEF Session!Line, Session!client, SessionIInv, Session!TypeOK
<1>6. IdleIsNew' /\ OutcomesFit' /\ ChannelsCloseOnce' /\ ~panicked'
  BY ZenonT(60), <1>3 DEF Session!Line, Session!client, Session!Finished, SessionIInv, IdleIsNew, OutcomesFit,
     ChannelsCloseOnce
<1>7. ASSUME NEW c \in Clients
      PROVE  /\ Chain(Session!Stream(c)', base[c])
             /\ Counted(c)' => c \in subscribers /\ Upto(Session!Stream(c)', base[c]) + dropped'[c] = lines + 1
  <2>1. Counted(c)' => c \in subscribers
    BY <1>2 DEF Session!Line, Session!client, Counted, SessionIInv, OutcomesFit, ChannelsCloseOnce
  <2>2. Session!Stream(c)' = got[c] \o replay[c] \o chan'[c]
    BY DEF Session!Line, Session!client, Session!Stream
  <2>3. CASE c \in subscribers
    BY <1>3, <2>2, <2>3, OfferFacts
  <2>4. CASE c \notin subscribers
    BY <1>3, <2>1, <2>2, <2>4 DEF SessionIInv, StreamsChain, Session!Stream
  <2> QED
    BY <2>3, <2>4
<1>8. StreamsChain' /\ LinesAddUp'
  BY <1>1, <1>7 DEF Session!Line, Session!client, StreamsChain, LinesAddUp
<1> QED
  BY <1>1, <1>5, <1>6, <1>8 DEF SessionIInv

\* The subscribers become those whose channels are to be closed.
LEMMA FinishKeeps ==
  ASSUME SessionIInv, Session!Finish
  PROVE  SessionIInv'
<1>1. Session!TypeOK' /\ BufferIsRecent'
  BY DEF Session!Finish, Session!client, SessionIInv, Session!TypeOK, BufferIsRecent
<1>2. Session!Finished' /\ ~Session!Finished /\ closing = {} /\ \A c \in Clients : outcome[c] \notin {"end", "error"}
  BY DEF Session!Finish, Session!Finished, SessionIInv, OutcomesFit, ChannelsCloseOnce
<1>3. IdleIsNew' /\ OutcomesFit' /\ ChannelsCloseOnce' /\ ~panicked'
  BY <1>2 DEF Session!Finish, Session!client, SessionIInv, IdleIsNew, OutcomesFit,
     ChannelsCloseOnce
<1>4. \A c \in Clients : Session!Stream(c)' = Session!Stream(c) /\ (Counted(c)' => Counted(c))
  BY <1>2 DEF Session!Finish, Session!client, Session!Stream, Counted
<1>5. StreamsChain' /\ LinesAddUp'
  BY <1>4 DEF Session!Finish, Session!client, SessionIInv, StreamsChain, LinesAddUp
<1> QED
  BY <1>1, <1>3, <1>5 DEF SessionIInv

\* A channel is closed once.
LEMMA CloseChannelKeeps ==
  ASSUME SessionIInv, Session!CloseChannel
  PROVE  SessionIInv'
<1> PICK c \in closing : /\ closing' = closing \ {c} /\ Session!Close(c)
                         /\ UNCHANGED <<Session!session, subscribers, chan, dropped, Session!client, stopping>>
  BY DEF Session!CloseChannel
<1>1. c \in Clients /\ Session!Finished /\ c \notin closed
  BY DEF SessionIInv, Session!TypeOK, ChannelsCloseOnce
<1>2. Session!TypeOK' /\ BufferIsRecent'
  BY <1>1 DEF Session!Close, Session!session, Session!client, SessionIInv, Session!TypeOK,
     BufferIsRecent
<1>3. IdleIsNew' /\ OutcomesFit' /\ ChannelsCloseOnce' /\ ~panicked'
  BY <1>1 DEF Session!Close, Session!session, Session!client, Session!Finished, SessionIInv,
     IdleIsNew, OutcomesFit, ChannelsCloseOnce
<1>4. \A d \in Clients : Session!Stream(d)' = Session!Stream(d) /\ (Counted(d)' => Counted(d))
  BY DEF Session!Close, Session!client, Session!Stream, Counted
<1>5. StreamsChain' /\ LinesAddUp'
  BY <1>4 DEF Session!session, Session!client, SessionIInv, StreamsChain, LinesAddUp
<1> QED
  BY <1>2, <1>3, <1>5 DEF SessionIInv

-----------------------------------------------------------------------------
(* ... and the clients.                                                    *)

\* A client that attaches starts at the line before the first one it replays.
LEMMA SubscribeKeeps ==
  ASSUME SessionIInv, NEW c \in Clients, Session!Subscribe(c)
  PROVE  SessionIInv'
<1>1. /\ lines \in 0..MaxLines /\ buffer \in Seq(Session!Entries) /\ Len(buffer) \in Nat /\ Len(buffer) <= lines
      /\ \A i \in 1..Len(buffer) : buffer[i] = Session!LineAt(lines - Len(buffer) + i)
      /\ MaxLines \in Nat
  BY SessionSizes, LenProperties DEF SessionIInv, Session!TypeOK, BufferIsRecent
<1>2. Session!TypeOK' /\ BufferIsRecent'
  <2>1. lines - Len(buffer) \in 0..MaxLines
    BY <1>1
  <2> QED
    BY <1>1, <2>1 DEF Session!Subscribe, Session!session, SessionIInv, Session!TypeOK,
       BufferIsRecent
<1>3. IdleIsNew' /\ OutcomesFit' /\ ChannelsCloseOnce' /\ ~panicked'
  <2>1. handler'[c] = "stream" /\ handler[c] = "idle" /\ \A d \in Clients : d # c => handler'[d] = handler[d] /\ replay'[d] = replay[d]
    BY DEF Session!Subscribe, SessionIInv, Session!TypeOK
  <2>2. IdleIsNew' /\ OutcomesFit'
    BY <2>1 DEF Session!Subscribe, Session!session, Session!Finished, SessionIInv, IdleIsNew,
       OutcomesFit
  <2>3. c \notin subscribers \cup closing \cup closed /\ (closed' \subseteq closed \cup {c})
    BY <2>1 DEF Session!Subscribe, SessionIInv, IdleIsNew
  <2>4. CASE Session!Finished /\ closed' = closed \cup {c} /\ UNCHANGED subscribers
    <3>1. subscribers' \cap closed' = {} /\ closing' \cap closed' = {}
      BY <2>3, <2>4 DEF Session!Subscribe, SessionIInv, ChannelsCloseOnce
    <3>2. Session!Finished' /\ subscribers' = {}
      BY <2>4 DEF Session!Subscribe, Session!session, Session!Finished, SessionIInv,
         ChannelsCloseOnce
    <3> QED
      BY <2>2, <3>1, <3>2 DEF Session!Subscribe, SessionIInv, ChannelsCloseOnce
  <2>5. CASE ~Session!Finished /\ subscribers' = subscribers \cup {c} /\ UNCHANGED closed
    <3>1. subscribers' \cap closed' = {} /\ closing' = {} /\ closed' = closed
      BY <2>3, <2>5 DEF Session!Subscribe, SessionIInv, ChannelsCloseOnce
    <3>2. ~Session!Finished' /\ \A d \in closed' : handler'[d] # "stream"
      BY <2>1, <2>3, <2>5, <3>1 DEF Session!Subscribe, Session!session, Session!Finished,
         SessionIInv, Session!TypeOK, ChannelsCloseOnce
    <3> QED
      BY <2>2, <3>1, <3>2 DEF Session!Subscribe, SessionIInv, ChannelsCloseOnce
  <2> QED
    BY <2>2, <2>4, <2>5 DEF Session!Subscribe, SessionIInv
<1>4. /\ Session!Stream(c)' = buffer /\ base'[c] = lines - Len(buffer) /\ dropped'[c] = 0
      /\ \A d \in Clients \ {c} : Session!Stream(d)' = Session!Stream(d) /\ base'[d] = base[d] /\ (Counted(d)' => Counted(d))
  <2>1. got'[c] = <<>> /\ replay'[c] = buffer /\ chan'[c] = <<>> /\ base'[c] = lines - Len(buffer) /\ dropped'[c] = 0
    BY DEF Session!Subscribe, SessionIInv, Session!TypeOK, IdleIsNew
  <2>2. Session!Stream(c)' = (<<>> \o buffer) \o <<>>
    BY <2>1 DEF Session!Stream
  <2>3. Session!Stream(c)' = buffer
    BY <1>1, <2>2, ConcatEmptySeq
  <2>4. \A d \in Clients \ {c} : Session!Stream(d)' = Session!Stream(d) /\ base'[d] = base[d] /\ (Counted(d)' => Counted(d))
    BY DEF Session!Subscribe, Session!session, SessionIInv, Session!TypeOK, Session!Stream,
       Counted
  <2> QED
    BY <2>1, <2>3, <2>4
<1>5. Chain(buffer, lines - Len(buffer)) /\ Upto(buffer, lines - Len(buffer)) = lines
  <2>1. \A i \in 1..Len(buffer) : buffer[i].upto = lines - Len(buffer) + i /\ buffer[i].count = 1
    <3>1. \A n : Session!LineAt(n).upto = n /\ Session!LineAt(n).count = 1
      BY DEF Session!LineAt
    <3> QED
      BY <1>1, <3>1
  <2>2. Chain(buffer, lines - Len(buffer))
    <3> SUFFICES ASSUME NEW i \in 1..Len(buffer)
                 PROVE  buffer[i].upto = (IF i = 1 THEN lines - Len(buffer) ELSE buffer[i - 1].upto) + buffer[i].count
      BY DEF Chain
    <3>1. i # 1 => i - 1 \in 1..Len(buffer)
      BY <1>1
    <3> QED
      BY SMTT(60), <1>1, <2>1, <3>1
  <2>3. Upto(buffer, lines - Len(buffer)) = lines
    <3>1. CASE buffer = <<>>
      BY <1>1, <3>1, EmptySeq DEF Upto
    <3>2. CASE buffer # <<>>
      <4>1. Len(buffer) \in 1..Len(buffer)
        BY <1>1, <3>2, EmptySeq
      <4> QED
        BY <1>1, <2>1, <3>2, <4>1 DEF Upto
    <3> QED
      BY <3>1, <3>2
  <2> QED
    BY <2>2, <2>3
<1>6. StreamsChain' /\ LinesAddUp'
  <2>1. ASSUME NEW d \in Clients
        PROVE  Chain(Session!Stream(d)', base'[d]) /\ (Counted(d)' => Upto(Session!Stream(d)', base'[d]) + dropped'[d] = lines)
    <3>1. CASE d = c
      BY <1>1, <1>4, <1>5, <3>1
    <3>2. CASE d # c
      BY <1>4, <3>2 DEF Session!Subscribe, SessionIInv, StreamsChain, LinesAddUp
    <3> QED
      BY <3>1, <3>2
  <2> QED
    BY <2>1 DEF Session!Subscribe, Session!session, StreamsChain, LinesAddUp
<1> QED
  BY <1>2, <1>3, <1>6 DEF SessionIInv

\* An entry goes from the history or the channel to the connection.
LEMMA EntryMoves ==
  ASSUME SessionIInv, NEW c \in Clients, handler[c] = "stream",
         got' \in [Clients -> Seq(Session!Entries)], replay' \in [Clients -> Seq(Session!Entries)],
         chan' \in [Clients -> Seq(Session!Entries)], Len(chan'[c]) <= ChanCap,
         \A d \in Clients \ {c} : got'[d] = got[d] /\ replay'[d] = replay[d] /\ chan'[d] = chan[d],
         Session!Stream(c)' = Session!Stream(c),
         UNCHANGED <<Session!session, subscribers, closed, dropped, closing, handler, outcome, base, stopping, panicked>>
  PROVE  SessionIInv'
<1>1. Session!TypeOK' /\ BufferIsRecent'
  BY DEF Session!session, SessionIInv, Session!TypeOK, BufferIsRecent
<1>2. IdleIsNew' /\ OutcomesFit' /\ ChannelsCloseOnce' /\ ~panicked'
  BY DEF Session!session, Session!Finished, SessionIInv, IdleIsNew, OutcomesFit, ChannelsCloseOnce
<1>3. \A d \in Clients : Session!Stream(d)' = Session!Stream(d) /\ (Counted(d)' => Counted(d))
  BY DEF Session!Stream, Counted
<1>4. StreamsChain' /\ LinesAddUp'
  BY <1>3 DEF Session!session, SessionIInv, StreamsChain, LinesAddUp
<1> QED
  BY <1>1, <1>2, <1>4 DEF SessionIInv

\* An entry of the replay is handed on.
LEMMA ReplayKeeps ==
  ASSUME SessionIInv, NEW c \in Clients, Session!Replay(c)
  PROVE  SessionIInv'
<1>1. got[c] \in Seq(Session!Entries) /\ replay[c] \in Seq(Session!Entries) /\ replay[c] # <<>>
  BY StreamFacts DEF Session!Replay, SessionIInv
<1>2. /\ Append(got[c], Head(replay[c])) \in Seq(Session!Entries) /\ Tail(replay[c]) \in Seq(Session!Entries)
      /\ Append(got[c], Head(replay[c])) \o Tail(replay[c]) = got[c] \o replay[c]
  BY ZenonT(60), <1>1, HeadMoves
<1>3. /\ got'[c] = Append(got[c], Head(replay[c])) /\ replay'[c] = Tail(replay[c]) /\ chan' = chan
      /\ \A d \in Clients \ {c} : got'[d] = got[d] /\ replay'[d] = replay[d]
  BY DEF Session!Replay, Session!Write, Session!subs, SessionIInv, Session!TypeOK
<1>4. got' \in [Clients -> Seq(Session!Entries)] /\ replay' \in [Clients -> Seq(Session!Entries)] /\ Session!Stream(c)' = Session!Stream(c)
  BY <1>2, <1>3 DEF Session!Replay, Session!Write, SessionIInv, Session!TypeOK, Session!Stream
<1> QED
  BY <1>3, <1>4, EntryMoves DEF Session!Replay, Session!subs, SessionIInv, Session!TypeOK

\* An entry of the channel is handed on.
LEMMA DeliverKeeps ==
  ASSUME SessionIInv, NEW c \in Clients, Session!Deliver(c)
  PROVE  SessionIInv'
<1>1. got[c] \in Seq(Session!Entries) /\ chan[c] \in Seq(Session!Entries) /\ replay[c] = <<>> /\ chan[c] # <<>>
  BY StreamFacts DEF Session!Deliver, SessionIInv
<1>2. /\ Append(got[c], Head(chan[c])) \in Seq(Session!Entries) /\ Tail(chan[c]) \in Seq(Session!Entries)
      /\ Append(got[c], Head(chan[c])) \o Tail(chan[c]) = got[c] \o chan[c]
      /\ Len(Tail(chan[c])) = Len(chan[c]) - 1 /\ Len(chan[c]) \in Nat
  BY ZenonT(60), <1>1, HeadMoves, HeadTailProperties, LenProperties
<1>3. /\ got'[c] = Append(got[c], Head(chan[c])) /\ chan'[c] = Tail(chan[c]) /\ replay' = replay
      /\ \A d \in Clients \ {c} : got'[d] = got[d] /\ chan'[d] = chan[d]
  BY DEF Session!Deliver, Session!Write, SessionIInv, Session!TypeOK
<1>4. got' \in [Clients -> Seq(Session!Entries)] /\ chan' \in [Clients -> Seq(Session!Entries)]
  BY <1>2, <1>3 DEF Session!Deliver, Session!Write, SessionIInv, Session!TypeOK
<1>5. Session!Stream(c)' = Session!Stream(c)
  <2>1. Session!Stream(c) = (got[c] \o <<>>) \o chan[c]
    BY <1>1 DEF Session!Stream
  <2>2. Session!Stream(c)' = (got'[c] \o <<>>) \o chan'[c]
    BY <1>1, <1>3 DEF Session!Stream
  <2>3. got[c] \o <<>> = got[c] /\ got'[c] \o <<>> = got'[c]
    BY <1>1, <1>2, <1>3, ConcatEmptySeq
  <2> QED
    BY <1>2, <1>3, <2>1, <2>2, <2>3
<1>6. Len(chan'[c]) <= ChanCap
  BY <1>2, <1>3 DEF SessionIInv, Session!TypeOK
<1> QED
  BY <1>3, <1>4, <1>5, <1>6, EntryMoves DEF Session!Deliver, Session!session, SessionIInv,
     Session!TypeOK

\* A client stops reading.
LEMMA LeaveFacts ==
  ASSUME SessionIInv, NEW c \in Clients, NEW why \in {"end", "error", "shutdown", "gone"}, Session!Leave(c, why),
         handler[c] = "stream", why \in {"end", "error"} => Session!Finished /\ c \in closed,
         UNCHANGED <<Session!session, Session!subs, closing, replay, got, base, stopping, panicked>>
  PROVE  SessionIInv'
<1>1. /\ handler'[c] = "leaving" /\ outcome'[c] = why
      /\ \A d \in Clients \ {c} : handler'[d] = handler[d] /\ outcome'[d] = outcome[d]
  BY DEF Session!Leave, SessionIInv, Session!TypeOK
<1>2. Session!TypeOK' /\ BufferIsRecent'
  BY DEF Session!Leave, Session!session, Session!subs, SessionIInv, Session!TypeOK, BufferIsRecent
<1>3. IdleIsNew' /\ OutcomesFit' /\ ChannelsCloseOnce' /\ ~panicked'
  BY ZenonT(60), <1>1 DEF Session!session, Session!subs, Session!Finished, SessionIInv, Session!TypeOK,
     IdleIsNew, OutcomesFit, ChannelsCloseOnce
<1>4. \A d \in Clients : Session!Stream(d)' = Session!Stream(d) /\ (Counted(d)' => Counted(d))
  BY <1>1 DEF Session!subs, Session!Stream, Counted
<1>5. StreamsChain' /\ LinesAddUp'
  BY <1>4 DEF Session!session, Session!subs, SessionIInv, StreamsChain, LinesAddUp
<1> QED
  BY <1>2, <1>3, <1>5 DEF SessionIInv

\* The stream ends when the channel is closed and empty.
LEMMA EndKeeps ==
  ASSUME SessionIInv, NEW c \in Clients, Session!End(c)
  PROVE  SessionIInv'
<1>1. Session!Finished /\ c \in closed /\ handler[c] = "stream"
  BY DEF Session!End, SessionIInv, ChannelsCloseOnce
<1>2. CASE state = "failed"
  BY <1>1, <1>2, LeaveFacts DEF Session!End
<1>3. CASE state # "failed"
  BY <1>1, <1>3, LeaveFacts DEF Session!End
<1> QED
  BY <1>2, <1>3

\* A client that goes away is not counted.
LEMMA GoneKeeps ==
  ASSUME SessionIInv, NEW c \in Clients, Session!SeeShutdown(c) \/ Session!Disconnect(c)
  PROVE  SessionIInv'
BY LeaveFacts DEF Session!SeeShutdown, Session!Disconnect

\* A cancelled client leaves the subscribers, and its channel is closed.
LEMMA HandlerCancelKeeps ==
  ASSUME SessionIInv, NEW c \in Clients, Session!Cancel(c)
  PROVE  SessionIInv'
<1>1. handler[c] = "leaving" /\ handler'[c] = "left" /\ \A d \in Clients \ {c} : handler'[d] = handler[d]
  BY DEF Session!Cancel, SessionIInv, Session!TypeOK
<1>2. Session!TypeOK' /\ BufferIsRecent'
  BY DEF Session!Cancel, Session!Close, Session!session, SessionIInv, Session!TypeOK,
     BufferIsRecent
<1>3. IdleIsNew' /\ OutcomesFit'
  BY <1>1 DEF Session!Cancel, Session!Close, Session!session, Session!Finished, SessionIInv,
     IdleIsNew, OutcomesFit
<1>4. ChannelsCloseOnce' /\ ~panicked'
  BY <1>1 DEF Session!Cancel, Session!Close, Session!session, Session!Finished, SessionIInv,
     Session!TypeOK, ChannelsCloseOnce
<1>5. \A d \in Clients : Session!Stream(d)' = Session!Stream(d) /\ (Counted(d)' => Counted(d))
  BY <1>1 DEF Session!Cancel, Session!Close, Session!Stream, Counted
<1>6. StreamsChain' /\ LinesAddUp'
  BY <1>5 DEF Session!Cancel, Session!session, SessionIInv, StreamsChain, LinesAddUp
<1> QED
  BY <1>2, <1>3, <1>4, <1>6 DEF SessionIInv

\* The server stops; the clients are still to see it.
LEMMA StopKeeps ==
  ASSUME SessionIInv, Session!Stop \/ UNCHANGED Session!vars
  PROVE  SessionIInv'
<1>1. Session!TypeOK' /\ BufferIsRecent'
  BY DEF Session!Stop, Session!vars, Session!session, Session!subs, Session!client, SessionIInv,
     Session!TypeOK, BufferIsRecent
<1>2. IdleIsNew' /\ OutcomesFit' /\ ChannelsCloseOnce' /\ ~panicked'
  BY DEF Session!Stop, Session!vars, Session!session, Session!subs, Session!client,
     Session!Finished, SessionIInv, IdleIsNew, OutcomesFit, ChannelsCloseOnce
<1>3. \A d \in Clients : Session!Stream(d)' = Session!Stream(d) /\ (Counted(d)' => Counted(d))
  BY DEF Session!Stop, Session!vars, Session!subs, Session!client, Session!Stream, Counted
<1>4. StreamsChain' /\ LinesAddUp'
  BY <1>3 DEF Session!Stop, Session!vars, Session!session, Session!subs, Session!client,
     SessionIInv, StreamsChain, LinesAddUp
<1> QED
  BY <1>1, <1>2, <1>4 DEF SessionIInv

-----------------------------------------------------------------------------
(* The theorem.                                                            *)

\* Before the first line the invariant holds.
LEMMA SessionInit ==
  ASSUME Session!DaemonSessionAssumption, Session!Init
  PROVE  SessionIInv
<1>1. <<>> \in Seq(Session!Entries) /\ Len(<<>>) = 0
  BY EmptySeq
<1>2. Session!TypeOK /\ BufferIsRecent
  <2>1. 0 \in 0..MaxLines /\ 0 <= MaxBuffer /\ 0 <= ChanCap
    OBVIOUS
  <2>2. lines \in 0..MaxLines /\ buffer \in Seq(Session!Entries) /\ Len(buffer) <= MaxBuffer /\ BufferIsRecent
    BY <1>1, <2>1 DEF Session!Init, BufferIsRecent
  <2>3. /\ chan \in [Clients -> Seq(Session!Entries)] /\ replay \in [Clients -> Seq(Session!Entries)]
        /\ got \in [Clients -> Seq(Session!Entries)] /\ \A c \in Clients : Len(chan[c]) <= ChanCap
    BY <1>1, <2>1 DEF Session!Init
  <2>4. dropped \in [Clients -> 0..MaxLines] /\ base \in [Clients -> 0..MaxLines]
    BY <2>1 DEF Session!Init
  <2> QED
    BY <2>2, <2>3, <2>4 DEF Session!Init, Session!TypeOK
<1>3. IdleIsNew /\ OutcomesFit /\ ChannelsCloseOnce /\ ~panicked
  BY DEF Session!Init, Session!Finished, IdleIsNew, OutcomesFit, ChannelsCloseOnce
<1>4. \A c \in Clients : Session!Stream(c) = <<>>
  BY <1>1, ConcatEmptySeq DEF Session!Init, Session!Stream
<1>5. StreamsChain /\ LinesAddUp
  BY <1>1, <1>4 DEF Session!Init, StreamsChain, LinesAddUp, Counted, Chain
<1> QED
  BY <1>2, <1>3, <1>5 DEF SessionIInv

\* Every step keeps it.
LEMMA SessionNext ==
  ASSUME SessionIInv, [Session!Next]_(Session!vars)
  PROVE  SessionIInv'
BY StartedKeeps, LineKeeps, FinishKeeps, CloseChannelKeeps, SubscribeKeeps, ReplayKeeps,
   DeliverKeeps, EndKeeps, GoneKeeps, HandlerCancelKeeps, StopKeeps DEF Session!Next, Session!Reading

\* The invariant holds in every behaviour.
LEMMA SessionInductive ==
  ASSUME Session!DaemonSessionAssumption
  PROVE  Session!Spec => []SessionIInv
<1>0. Session!Init => SessionIInv
  BY SessionInit
<1>1. SessionIInv /\ [Session!Next]_(Session!vars) => SessionIInv'
  BY SessionNext
<1> QED
  BY <1>0, <1>1, PTL DEF Session!Spec

\* What a client of the daemon is served is the output of the worker, or says what
\* is missing from it, and no channel is sent to or closed twice: Line, Subscribe
\* and the removals from the map are critical sections of s.mu (session.go).
THEOREM StreamsStayWhole ==
  ASSUME Session!DaemonSessionAssumption
  PROVE  Session!Spec => []Session!ClientsSeeTheStream
<1>1. ASSUME SessionIInv
      PROVE  Session!StreamHasNoHiddenGap /\ Session!EveryLineIsAccounted
  <2>1. \A c \in Clients : Session!Stream(c) \in Seq(Session!Entries) /\ DOMAIN Session!Stream(c) = 1..Len(Session!Stream(c))
    BY <1>1, StreamFacts, LenProperties DEF SessionIInv
  <2>2. Session!StreamHasNoHiddenGap
    BY <1>1, <2>1 DEF SessionIInv, StreamsChain, Chain, Session!StreamHasNoHiddenGap
  <2>3. \A c \in Clients : Session!Reach(c) = Upto(Session!Stream(c), base[c])
    BY DEF Session!Reach, Upto
  <2>4. Session!EveryLineIsAccounted
    BY <1>1, <2>3 DEF SessionIInv, LinesAddUp, Counted, Session!EveryLineIsAccounted
  <2> QED
    BY <2>2, <2>4
<1>2. SessionIInv => Session!ClientsSeeTheStream
  BY <1>1 DEF SessionIInv, Session!NoChannelPanic, Session!ClientsSeeTheStream
<1> QED
  BY <1>2, SessionInductive, PTL

-----------------------------------------------------------------------------
(* The registry of the sessions.                                           *)

CONSTANTS Ids, MaxSessions, MaxStarts
VARIABLES sessions, order, cursor, started, idOf, status, attach, atLock, evicted

\* SessionManager and its attach handlers; status is the state of each session.
Registry == INSTANCE DaemonRegistry WITH state <- status

\* A registered session has the id it is registered under.
OwnIds ==
    /\ IsFiniteSet(Registry!Registered)
    /\ \A i \in Registry!Registered : sessions[i] \in Registry!Created /\ idOf[sessions[i]] = i

\* The two indexes agree in the middle of an eviction too.
OrderIsIndex ==
    /\ {order[k] : k \in DOMAIN order} = Registry!Registered
    /\ \A j, k \in DOMAIN order : j < k => Registry!At(j) < Registry!At(k)

\* What the loop has passed and kept was at work when it began.
Passed(k) == k \in DOMAIN order /\ (Registry!Free \/ k < cursor)
PassedWereLive ==
    /\ \A g \in atLock : Registry!Finished(g)
    /\ Registry!Over => \A k \in DOMAIN order : Passed(k) => Registry!At(k) \notin atLock

\* A handler has a session of its id.
HandlersFit ==
    \A c \in Clients :
       /\ attach[c].pc \in {"found", "subscribed", "streaming"} =>
             attach[c].live \in Registry!Created /\ idOf[attach[c].live] = attach[c].id
       /\ attach[c].pc \in {"idle", "found", "subscribed"} => attach[c].sess = 0
       /\ attach[c].sess # 0 => attach[c].sess \in Registry!Created

\* All of it, and what DaemonRegistry assumes of its constants.
RegistryIInv ==
    /\ Registry!DaemonRegistryAssumption
    /\ Registry!TypeOK /\ OwnIds /\ OrderIsIndex /\ PassedWereLive /\ HandlersFit
    /\ Registry!LiveSessionsAreRegistered /\ Registry!EvictionIsFifo /\ Registry!OnlyTheFinishedAreMistaken
    /\ evicted # {} => Cardinality(Registry!Registered) >= MaxSessions

\* The cap, in the terms of FiniteSets.
LEMMA OverIsSize ==
  /\ Registry!Over <=> Cardinality(Registry!Registered) > MaxSessions
  /\ Registry!RetentionIsExact <=>
        /\ evicted # {} => Cardinality(Registry!Registered) >= MaxSessions
        /\ Registry!Free /\ Registry!Over => \A i \in Registry!Registered : sessions[i] \notin atLock
BY DEF Registry!Over, Registry!RetentionIsExact, Registry!Cardinality, Cardinality

\* Sizes, and what is where.
LEMMA RegistryFacts ==
  ASSUME Registry!DaemonRegistryAssumption, Registry!TypeOK, OrderIsIndex
  PROVE  /\ Len(order) \in Nat /\ DOMAIN order = 1..Len(order) /\ cursor \in Nat /\ started \in Nat
         /\ \A k \in DOMAIN order : order[k] \in Ids /\ order[k] \in Registry!Registered /\ Registry!At(k) \in Nat /\ Registry!At(k) # 0
         /\ \A j, k \in DOMAIN order : order[j] = order[k] => j = k
<1>1. Len(order) \in Nat /\ DOMAIN order = 1..Len(order) /\ cursor \in Nat /\ started \in Nat
  BY LenProperties DEF Registry!TypeOK, Registry!DaemonRegistryAssumption
<1>2. \A k \in DOMAIN order : order[k] \in Registry!Registered
  BY DEF OrderIsIndex
<1>3. \A k \in DOMAIN order : order[k] \in Ids /\ Registry!At(k) \in Nat /\ Registry!At(k) # 0
  BY <1>2 DEF Registry!Registered, Registry!At, Registry!TypeOK, Registry!DaemonRegistryAssumption
<1>4. \A j, k \in DOMAIN order : order[j] = order[k] => j = k
  <2> SUFFICES ASSUME NEW j \in DOMAIN order, NEW k \in DOMAIN order, order[j] = order[k], j < k
               PROVE  FALSE
    BY SMTT(60), <1>1
  <2> QED
    BY <1>3 DEF OrderIsIndex, Registry!At
<1> QED
  BY <1>1, <1>2, <1>3, <1>4

\* The order without one entry.
LEMMA WithoutFacts ==
  ASSUME Registry!TypeOK, NEW c \in 1..Len(order)
  PROVE  /\ Registry!Without(c) \in Seq(Ids) /\ Len(Registry!Without(c)) = Len(order) - 1
         /\ \A k \in 1..(Len(order) - 1) : Registry!Without(c)[k] = order[IF k < c THEN k ELSE k + 1]
<1> DEFINE n == Len(order)
           a == SubSeq(order, 1, c - 1)
           b == SubSeq(order, c + 1, n)
<1>1. order \in Seq(Ids) /\ n \in Nat /\ c \in 1..n /\ \A k \in 1..n : order[k] \in Ids
  BY LenProperties, ElementOfSeq DEF Registry!TypeOK
<1>2. \A k \in 1..(c - 1) : order[k] \in Ids
  BY <1>1
<1>3. \A k \in (c + 1)..n : order[k] \in Ids
  BY <1>1
<1> HIDE DEF n
<1>4. /\ a \in Seq(Ids) /\ Len(a) = c - 1
      /\ \A k \in 1..(c - 1) : a[k] = order[k]
  <2>1. 1 \in Int /\ c - 1 \in Int
    BY <1>1
  <2> QED
    BY <1>1, <1>2, <2>1, SubSeqProperties
<1>5. /\ b \in Seq(Ids) /\ Len(b) = n - c
      /\ \A k \in 1..(n - c) : b[k] = order[c + k]
  <2>1. c + 1 \in Int /\ n \in Int
    BY <1>1
  <2>2. /\ b \in Seq(Ids) /\ Len(b) = IF c + 1 <= n THEN n - (c + 1) + 1 ELSE 0
        /\ \A k \in 1..(n - (c + 1) + 1) : b[k] = order[(c + 1) + k - 1]
    BY <1>3, <2>1, SubSeqProperties
  <2>3. \A k \in 1..(n - c) : (c + 1) + k - 1 = c + k
    BY <1>1
  <2>4. n - (c + 1) + 1 = n - c /\ (c + 1 <= n \/ n - c = 0)
    BY <1>1
  <2> QED
    BY <1>1, <2>2, <2>3, <2>4
<1> HIDE DEF a, b
<1>6. /\ a \o b \in Seq(Ids) /\ Len(a \o b) = (c - 1) + (n - c)
      /\ \A k \in 1..((c - 1) + (n - c)) : (a \o b)[k] = IF k <= c - 1 THEN a[k] ELSE b[k - (c - 1)]
  BY <1>4, <1>5, ConcatProperties
<1>7. Registry!Without(c) = a \o b
  BY DEF Registry!Without, a, b, n
<1>8. ASSUME NEW k \in 1..(n - 1)
      PROVE  (a \o b)[k] = order[IF k < c THEN k ELSE k + 1]
  <2>1. CASE k < c
    BY <1>1, <1>4, <1>6, <2>1
  <2>2. CASE ~(k < c)
    <3>1. k - (c - 1) \in 1..(n - c) /\ c + (k - (c - 1)) = k + 1 /\ k \in 1..((c - 1) + (n - c)) /\ ~(k <= c - 1)
      BY <1>1, <2>2
    <3> QED
      BY <1>5, <1>6, <2>2, <3>1
  <2> QED
    BY <2>1, <2>2
<1>9. (c - 1) + (n - c) = n - 1
  BY <1>1
<1> QED
  BY <1>6, <1>7, <1>8, <1>9 DEF n

\* No session is registered at first.
LEMMA RegistryInit ==
  ASSUME Registry!DaemonRegistryAssumption, Registry!Init
  PROVE  RegistryIInv
<1>1. Registry!Registered = {} /\ started = 0 /\ Registry!Created = {} /\ order = <<>> /\ Len(order) = 0 /\ DOMAIN order = {}
  BY DEF Registry!Init, Registry!Registered, Registry!Created
<1>2. Registry!TypeOK
  <2>1. idOf \in [Registry!Created -> Ids] /\ status \in [Registry!Created -> {"queued", "running", "done", "failed"}]
    BY <1>1 DEF Registry!Init
  <2>2. order \in Seq(Ids) /\ cursor \in 0..Len(order) /\ started \in 0..MaxStarts
    BY <1>1 DEF Registry!Init, Registry!DaemonRegistryAssumption
  <2> QED
    BY <2>1, <2>2 DEF Registry!Init, Registry!TypeOK, Registry!DaemonRegistryAssumption
<1>3. OwnIds /\ OrderIsIndex
  BY <1>1, FS_EmptySet DEF OwnIds, OrderIsIndex
<1>4. PassedWereLive /\ Registry!LiveSessionsAreRegistered /\ Registry!EvictionIsFifo /\ evicted = {}
  BY <1>1 DEF Registry!Init, PassedWereLive, Registry!LiveSessionsAreRegistered,
     Registry!EvictionIsFifo
<1>5. HandlersFit /\ Registry!OnlyTheFinishedAreMistaken
  BY DEF Registry!Init, HandlersFit, Registry!OnlyTheFinishedAreMistaken
<1> QED
  BY <1>2, <1>3, <1>4, <1>5 DEF RegistryIInv

\* A new session is the youngest, and a place in the order for it the last.
LEMMA StartKeeps ==
  ASSUME RegistryIInv, NEW i \in Ids, Registry!Start(i)
  PROVE  RegistryIInv'
<1> DEFINE n == Len(order)
           g == started + 1
<1>1. /\ n \in Nat /\ DOMAIN order = 1..n /\ cursor = 0 /\ started \in Nat /\ g \in 1..MaxStarts
      /\ i \notin Registry!Registered /\ sessions[i] = 0
      /\ Registry!Created' = Registry!Created \cup {g} /\ g \notin Registry!Created /\ \A h \in Registry!Created : h < g /\ h # 0
      /\ \A k \in DOMAIN order : Registry!At(k) \in Nat /\ Registry!At(k) # 0 /\ order[k] \in Ids /\ order[k] # i
  BY SMTT(60), RegistryFacts DEF RegistryIInv, Registry!Start, Registry!Free, Registry!Created,
     Registry!TypeOK, Registry!Registered, Registry!DaemonRegistryAssumption
<1>2. /\ idOf' \in [Registry!Created' -> Ids] /\ idOf'[g] = i
      /\ status' \in [Registry!Created' -> {"queued", "running", "done", "failed"}] /\ status'[g] = "queued"
      /\ \A h \in Registry!Created : idOf'[h] = idOf[h] /\ status'[h] = status[h]
  <2>1. idOf \in [1..started -> Ids] /\ status \in [1..started -> {"queued", "running", "done", "failed"}]
    BY DEF RegistryIInv, Registry!TypeOK, Registry!Created
  <2>2. /\ idOf \in Seq(Ids) /\ Len(idOf) = started
        /\ status \in Seq({"queued", "running", "done", "failed"}) /\ Len(status) = started
    BY <1>1, <2>1
  <2>3. idOf' = Append(idOf, i) /\ status' = Append(status, "queued")
    BY DEF Registry!Start
  <2>4. /\ idOf' \in Seq(Ids) /\ Len(idOf') = g /\ idOf'[g] = i /\ \A h \in 1..started : idOf'[h] = idOf[h]
    BY <2>2, <2>3, AppendProperties
  <2>5. "queued" \in {"queued", "running", "done", "failed"}
    OBVIOUS
  <2>6. /\ status' \in Seq({"queued", "running", "done", "failed"}) /\ Len(status') = g /\ status'[g] = "queued"
        /\ \A h \in 1..started : status'[h] = status[h]
    BY <2>2, <2>3, <2>5, AppendProperties
  <2>7. Registry!Created' = 1..g
    BY DEF Registry!Start, Registry!Created
  <2> HIDE DEF g
  <2> QED
    BY <2>4, <2>6, <2>7, LenProperties DEF Registry!Created
<1>3. /\ order' \in Seq(Ids) /\ Len(order') = n + 1 /\ DOMAIN order' = 1..(n + 1)
      /\ order'[n + 1] = i /\ \A k \in 1..n : order'[k] = order[k]
  BY AppendProperties, LenProperties DEF RegistryIInv, Registry!TypeOK, Registry!Start
<1>4. sessions' = [sessions EXCEPT ![i] = g] /\ sessions \in [Ids -> 0..MaxStarts]
  BY DEF Registry!Start, RegistryIInv, Registry!TypeOK
<1>5. Registry!Registered' = Registry!Registered \cup {i}
  BY <1>1, <1>4 DEF Registry!Registered
<1>6. Registry!Over' <=> cursor' = 1
  BY <1>5 DEF Registry!Over, Registry!Start
<1>7. cursor' \in {0, 1} /\ atLock' = {h \in Registry!Created : Registry!Finished(h)} /\ evicted' = {} /\ attach' = attach
  BY DEF Registry!Start
<1> HIDE DEF g, n
<1>8. Registry!TypeOK'
  <2>1. sessions' \in [Ids -> 0..MaxStarts]
    BY <1>1, <1>4
  <2>2. cursor' \in 0..Len(order') /\ started' \in 0..MaxStarts
    BY <1>1, <1>3, <1>7 DEF Registry!Start, g
  <2>3. atLock' \subseteq Registry!Created' /\ evicted' \subseteq Registry!Created'
    BY <1>1, <1>7
  <2> QED
    BY <1>2, <1>3, <1>7, <2>1, <2>2, <2>3 DEF RegistryIInv, Registry!TypeOK
<1>9. \A k \in 1..n : Registry!At(k)' = Registry!At(k)
  BY <1>1, <1>3, <1>4 DEF Registry!At
<1>10. sessions'[order'[n + 1]] = g
  BY <1>3, <1>4
<1>11. OwnIds'
  BY <1>1, <1>2, <1>4, <1>5, FS_AddElement DEF RegistryIInv, OwnIds
<1>12. \A k \in 1..n : Registry!At(k) \in Registry!Created
  BY <1>1 DEF RegistryIInv, OwnIds, OrderIsIndex, Registry!At
<1>13. OrderIsIndex'
  <2>1. {order'[k] : k \in DOMAIN order'} = Registry!Registered'
    BY SMTT(60), <1>1, <1>3, <1>5 DEF RegistryIInv, OrderIsIndex
  <2>2. ASSUME NEW j \in 1..(n + 1), NEW k \in 1..(n + 1), j < k
        PROVE  Registry!At(j)' < Registry!At(k)'
    <3>1. CASE k = n + 1
      <4>1. j \in 1..n
        BY <1>1, <2>2, <3>1
      <4> QED
        BY <1>1, <1>9, <1>10, <1>12, <3>1, <4>1 DEF Registry!At
    <3>2. CASE k # n + 1
      <4>1. j \in 1..n /\ k \in 1..n
        BY <1>1, <2>2, <3>2
      <4> QED
        BY <1>1, <1>9, <2>2, <4>1 DEF RegistryIInv, OrderIsIndex
    <3> QED
      BY <3>1, <3>2
  <2> QED
    BY <1>3, <2>1, <2>2 DEF OrderIsIndex
<1>14. PassedWereLive'
  <2>1. \A h \in atLock' : Registry!Finished(h)'
    BY <1>2, <1>7 DEF Registry!Finished
  <2>2. Registry!Over' => \A k \in DOMAIN order' : ~Passed(k)'
    BY <1>3, <1>6, <1>1 DEF Passed, Registry!Free
  <2> QED
    BY <2>1, <2>2 DEF PassedWereLive
<1>15. HandlersFit'
  BY <1>1, <1>2, <1>7 DEF RegistryIInv, HandlersFit
<1>16. Registry!LiveSessionsAreRegistered'
  <2> SUFFICES ASSUME NEW h \in Registry!Created', ~Registry!Finished(h)'
               PROVE  sessions'[idOf'[h]] = h
    BY DEF Registry!LiveSessionsAreRegistered
  <2>1. CASE h = g
    BY <1>2, <1>4, <2>1
  <2>2. CASE h \in Registry!Created
    <3>1. sessions[idOf[h]] = h /\ idOf[h] \in Ids
      BY <1>2, <2>2 DEF RegistryIInv, Registry!LiveSessionsAreRegistered, Registry!Finished,
         Registry!TypeOK
    <3>2. idOf[h] # i
      BY <1>1, <2>2, <3>1
    <3> QED
      BY <1>2, <1>4, <2>2, <3>1, <3>2
  <2> QED
    BY <1>1, <2>1, <2>2
<1>17. Registry!EvictionIsFifo' /\ (evicted' # {} => Cardinality(Registry!Registered') >= MaxSessions)
  BY <1>7 DEF Registry!EvictionIsFifo
<1>18. Registry!OnlyTheFinishedAreMistaken'
  <2>1. \A c \in Clients : attach[c].pc = "streaming" => attach[c].live \in Registry!Created
    BY DEF RegistryIInv, HandlersFit
  <2>2. \A c \in Clients : attach[c].sess # 0 => attach[c].sess \in Registry!Created
    BY DEF RegistryIInv, HandlersFit
  <2> QED
    BY <1>2, <1>7, <2>1, <2>2 DEF RegistryIInv, Registry!OnlyTheFinishedAreMistaken,
       Registry!Finished
<1> QED
  BY <1>8, <1>11, <1>13, <1>14, <1>15, <1>16, <1>17, <1>18 DEF RegistryIInv

\* The entry at the cursor goes when it has finished and there are too many.
LEMMA EvictKeeps ==
  ASSUME RegistryIInv, Registry!Prune, Registry!Over, Registry!Finished(Registry!At(cursor)),
         sessions' = [sessions EXCEPT ![order[cursor]] = 0],
         evicted' = evicted \cup {Registry!At(cursor)},
         order' = Registry!Without(cursor),
         cursor' = IF cursor < Len(order) THEN cursor ELSE 0
  PROVE  RegistryIInv'
<1> DEFINE n == Len(order)
           e == order[cursor]
           Old(k) == IF k < cursor THEN k ELSE k + 1
<1>1. /\ n \in Nat /\ DOMAIN order = 1..n /\ cursor \in 1..n
      /\ \A k \in 1..n : Registry!At(k) \in Nat /\ Registry!At(k) # 0 /\ order[k] \in Registry!Registered /\ order[k] \in Ids
      /\ \A j, k \in 1..n : order[j] = order[k] => j = k
  BY SMTT(60), RegistryFacts DEF RegistryIInv, Registry!Prune, Registry!Free, Registry!TypeOK
<1>2. /\ order' \in Seq(Ids) /\ Len(order') = n - 1 /\ DOMAIN order' = 1..(n - 1)
      /\ \A k \in 1..(n - 1) : order'[k] = order[Old(k)]
  BY <1>1, WithoutFacts, LenProperties DEF RegistryIInv
<1>3. \A k \in 1..(n - 1) : Old(k) \in 1..n /\ Old(k) # cursor
  BY <1>1
<1>4. \A k \in 1..n : k # cursor => \E j \in 1..(n - 1) : Old(j) = k
  <2> SUFFICES ASSUME NEW k \in 1..n, k # cursor
               PROVE  \E j \in 1..(n - 1) : Old(j) = k
    OBVIOUS
  <2>1. CASE k < cursor
    BY <1>1, <2>1
  <2>2. CASE k > cursor
    <3>1. k - 1 \in 1..(n - 1) /\ Old(k - 1) = k
      BY <1>1, <2>2
    <3> QED
      BY <3>1
  <2> QED
    BY <1>1, <2>1, <2>2
<1>5. UNCHANGED <<started, idOf, status, attach, atLock>> /\ Registry!Created' = Registry!Created
  BY DEF Registry!Prune, Registry!Created
<1>6. e \in Ids /\ e \in Registry!Registered /\ sessions \in [Ids -> 0..MaxStarts] /\ sessions[e] = Registry!At(cursor)
  BY <1>1 DEF RegistryIInv, Registry!TypeOK, Registry!At
<1>7. Registry!Registered' = Registry!Registered \ {e}
  BY <1>6 DEF Registry!Registered
<1>8. \A k \in 1..(n - 1) : Registry!At(k)' = Registry!At(Old(k)) /\ order[Old(k)] # e
  BY <1>1, <1>2, <1>3, <1>6 DEF Registry!At
<1>9. /\ IsFiniteSet(Registry!Registered') /\ Cardinality(Registry!Registered) \in Nat
      /\ Cardinality(Registry!Registered') = Cardinality(Registry!Registered) - 1
  <2>1. IsFiniteSet(Registry!Registered)
    BY DEF RegistryIInv, OwnIds
  <2> QED
    BY <1>6, <1>7, <2>1, FS_RemoveElement, FS_CardinalityType
<1>10. Registry!At(cursor) \in Registry!Created
  BY <1>1 DEF RegistryIInv, OwnIds, Registry!At
<1>11. \A h : Registry!Finished(h)' <=> Registry!Finished(h)
  BY <1>5 DEF Registry!Finished
<1> HIDE DEF n, e, Old
<1>12. Registry!TypeOK'
  <2>1. sessions' \in [Ids -> 0..MaxStarts]
    <3>1. 0 \in 0..MaxStarts
      BY DEF RegistryIInv, Registry!DaemonRegistryAssumption
    <3> QED
      BY <1>6, <3>1 DEF e
  <2>2. cursor' \in 0..Len(order')
    BY <1>1, <1>2 DEF n
  <2> QED
    BY <1>2, <1>5, <1>10, <2>1, <2>2 DEF RegistryIInv, Registry!TypeOK
<1>13. OwnIds'
  BY <1>5, <1>6, <1>7, <1>9 DEF RegistryIInv, OwnIds, e
<1>14. OrderIsIndex'
  <2>1. {order'[k] : k \in DOMAIN order'} = {order[k] : k \in (1..n) \ {cursor}}
    BY SMTT(60), <1>2, <1>3, <1>4
  <2>2. {order[k] : k \in (1..n) \ {cursor}} = Registry!Registered \ {e}
    BY <1>1 DEF RegistryIInv, OrderIsIndex, e
  <2>3. \A j, k \in 1..(n - 1) : j < k => Old(j) < Old(k)
    BY <1>1 DEF Old
  <2>4. \A j, k \in 1..n : j < k => Registry!At(j) < Registry!At(k)
    BY <1>1 DEF RegistryIInv, OrderIsIndex
  <2>5. \A j, k \in 1..(n - 1) : j < k => Registry!At(j)' < Registry!At(k)'
    BY <1>3, <1>8, <2>3, <2>4
  <2> QED
    BY <1>2, <1>7, <2>1, <2>2, <2>5 DEF OrderIsIndex
<1>15. PassedWereLive'
  <2>1. \A k \in 1..(n - 1) : Passed(k)' => Old(k) = k /\ Passed(k)
    BY <1>1, <1>2 DEF Passed, Registry!Free, Old, n
  <2>2. \A k \in 1..(n - 1) : Passed(k)' => Registry!At(k)' \notin atLock'
    BY <1>1, <1>3, <1>5, <1>8, <2>1 DEF RegistryIInv, PassedWereLive
  <2> QED
    BY <1>2, <1>5, <1>11, <2>2 DEF RegistryIInv, PassedWereLive
<1>16. HandlersFit'
  BY <1>5 DEF RegistryIInv, HandlersFit
<1>17. Registry!LiveSessionsAreRegistered'
  <2> SUFFICES ASSUME NEW h \in Registry!Created, ~Registry!Finished(h)
               PROVE  sessions'[idOf[h]] = h
    BY <1>5, <1>11 DEF Registry!LiveSessionsAreRegistered
  <2>1. sessions[idOf[h]] = h /\ idOf[h] \in Ids
    BY DEF RegistryIInv, Registry!LiveSessionsAreRegistered, Registry!TypeOK
  <2>2. idOf[h] # e
    BY <1>6, <2>1
  <2> QED
    BY <1>6, <2>1, <2>2 DEF e
<1>18. Registry!EvictionIsFifo'
  <2> SUFFICES ASSUME NEW f \in evicted', NEW h \in atLock, h < f, sessions'[idOf[h]] = h
               PROVE  FALSE
    BY <1>5 DEF Registry!EvictionIsFifo
  <2>1. h \in Registry!Created /\ h \in Nat /\ h # 0 /\ idOf[h] \in Ids
    BY <1>1, RegistryFacts DEF RegistryIInv, Registry!TypeOK, Registry!Created
  <2>2. idOf[h] # e /\ sessions[idOf[h]] = h
    BY <1>6, <2>1 DEF e
  <2>3. f = Registry!At(cursor)
    BY <2>2 DEF RegistryIInv, Registry!EvictionIsFifo
  <2>4. PICK k \in 1..n : order[k] = idOf[h]
    BY <1>1, <2>1, <2>2 DEF RegistryIInv, OrderIsIndex, Registry!Registered
  <2>5. Registry!At(k) = h
    BY <2>2, <2>4 DEF Registry!At
  <2>6. k < cursor
    <3>1. cursor < k => Registry!At(cursor) < Registry!At(k)
      BY <1>1 DEF RegistryIInv, OrderIsIndex
    <3> QED
      BY <1>1, <2>1, <2>3, <2>5, <3>1
  <2>7. Passed(k)
    BY <1>1, <2>6 DEF Passed
  <2> QED
    BY <1>1, <2>5, <2>7 DEF RegistryIInv, PassedWereLive
<1>19. Registry!OnlyTheFinishedAreMistaken'
  BY <1>5, <1>11 DEF RegistryIInv, Registry!OnlyTheFinishedAreMistaken
<1>20. Cardinality(Registry!Registered') >= MaxSessions
  BY <1>9, OverIsSize DEF RegistryIInv, Registry!DaemonRegistryAssumption
<1> QED
  BY <1>12, <1>13, <1>14, <1>15, <1>16, <1>17, <1>18, <1>19, <1>20 DEF RegistryIInv

\* Otherwise the loop goes on past it.
LEMMA SkipKeeps ==
  ASSUME RegistryIInv, Registry!Prune, ~(Registry!Over /\ Registry!Finished(Registry!At(cursor))),
         cursor' = IF cursor < Len(order) THEN cursor + 1 ELSE 0,
         UNCHANGED <<sessions, order, evicted>>
  PROVE  RegistryIInv'
<1>1. UNCHANGED <<sessions, order, evicted, started, idOf, status, attach, atLock>>
  BY DEF Registry!Prune
<1>2. /\ Len(order) \in Nat /\ DOMAIN order = 1..Len(order) /\ cursor \in 1..Len(order)
  BY RegistryFacts DEF RegistryIInv, Registry!Prune, Registry!Free, Registry!TypeOK
<1>3. PassedWereLive'
  <2>1. \A k \in DOMAIN order : Passed(k)' => Passed(k) \/ k = cursor
    BY <1>1, <1>2 DEF Passed, Registry!Free
  <2>2. Registry!Over => Registry!At(cursor) \notin atLock
    BY DEF RegistryIInv, PassedWereLive
  <2> QED
    BY <1>1, <2>1, <2>2 DEF RegistryIInv, PassedWereLive, Registry!Over, Registry!Registered,
       Registry!At, Registry!Finished
<1>4. Registry!TypeOK'
  BY SMTT(60), <1>1, <1>2 DEF RegistryIInv, Registry!TypeOK, Registry!Created
<1> QED
  BY <1>1, <1>3, <1>4 DEF RegistryIInv, OwnIds, OrderIsIndex, HandlersFit,
     Registry!LiveSessionsAreRegistered, Registry!EvictionIsFifo, Registry!OnlyTheFinishedAreMistaken,
     Registry!Registered, Registry!Created, Registry!At, Registry!Finished

\* What has finished stays finished.
LEMMA RunKeeps ==
  ASSUME RegistryIInv, NEW g \in Registry!Created, Registry!Lease(g) \/ Registry!Finish(g)
  PROVE  RegistryIInv'
<1>1. UNCHANGED <<sessions, order, cursor, started, idOf, attach, atLock, evicted>>
  BY DEF Registry!Lease, Registry!Finish
<1>2. status' \in [Registry!Created -> {"queued", "running", "done", "failed"}]
  BY SMTT(60) DEF RegistryIInv, Registry!TypeOK, Registry!Lease, Registry!Finish
<1>3. \A h \in Registry!Created : Registry!Finished(h) => Registry!Finished(h)'
  BY DEF RegistryIInv, Registry!TypeOK, Registry!Lease, Registry!Finish, Registry!Finished
<1>4. Registry!TypeOK'
  BY <1>1, <1>2 DEF RegistryIInv, Registry!TypeOK, Registry!Created
<1>5. PassedWereLive'
  BY <1>1, <1>3 DEF RegistryIInv, Registry!TypeOK, PassedWereLive, Passed, Registry!Over,
     Registry!Free, Registry!Registered, Registry!At
<1>6. Registry!LiveSessionsAreRegistered'
  BY <1>1, <1>3 DEF RegistryIInv, Registry!LiveSessionsAreRegistered, Registry!Created
<1>7. Registry!OnlyTheFinishedAreMistaken'
  BY <1>1, <1>3 DEF RegistryIInv, HandlersFit, Registry!OnlyTheFinishedAreMistaken
<1> QED
  BY <1>1, <1>4, <1>5, <1>6, <1>7 DEF RegistryIInv, OwnIds, OrderIsIndex, HandlersFit,
     Registry!EvictionIsFifo, Registry!Registered, Registry!Created, Registry!At

\* Handlers change nothing else.
LEMMA HandlerFrame ==
  ASSUME RegistryIInv, UNCHANGED <<sessions, order, cursor, started, idOf, status, atLock, evicted>>,
         Registry!TypeOK', HandlersFit', Registry!OnlyTheFinishedAreMistaken'
  PROVE  RegistryIInv'
BY DEF RegistryIInv, OwnIds, OrderIsIndex, PassedWereLive, Passed, Registry!Over, Registry!Free,
   Registry!LiveSessionsAreRegistered, Registry!EvictionIsFifo, Registry!Registered, Registry!Created,
   Registry!At, Registry!Finished

\* The session a handler finds has its id; a second look gives the same one, unless it
\* has finished.
LEMMA AttachKeeps ==
  ASSUME RegistryIInv, NEW c \in Clients, Registry!AttachGet(c) \/ Registry!AttachSubscribe(c) \/ Registry!AttachGetAgain(c) \/ Registry!AttachEnd(c)
  PROVE  RegistryIInv'
<1> DEFINE Handler == [pc : {"idle", "found", "subscribed", "streaming", "ended"}, id : Ids \cup {"none"},
                       live : 0..MaxStarts, sess : 0..MaxStarts,
                       reply : {"none", "notfound", "end", "error"}]
           h == attach[c]
<1>0. h \in Handler /\ attach \in [Clients -> Handler]
  BY DEF RegistryIInv, Registry!TypeOK
<1> HIDE DEF Handler
<1>1. ASSUME NEW rec \in Handler, Registry!Step(c, rec),
             rec.pc \in {"found", "subscribed", "streaming"} => rec.live \in Registry!Created /\ idOf[rec.live] = rec.id,
             rec.pc \in {"idle", "found", "subscribed"} => rec.sess = 0,
             rec.sess # 0 => rec.sess \in Registry!Created /\ idOf[rec.sess] = rec.id,
             rec.pc = "streaming" /\ rec.sess # rec.live => Registry!Finished(rec.live)
      PROVE  RegistryIInv'
  <2>1. attach' = [attach EXCEPT ![c] = rec]
        /\ UNCHANGED <<sessions, order, cursor, started, idOf, status, atLock, evicted>>
    BY <1>1 DEF Registry!Step
  <2>2. attach' \in [Clients -> Handler] /\ attach'[c] = rec /\ \A d \in Clients : d # c => attach'[d] = attach[d]
    BY <1>0, <1>1, <2>1
  <2>3. Registry!TypeOK'
    BY SMTT(60), <2>1, <2>2 DEF RegistryIInv, Registry!TypeOK, Registry!Created, Handler
  <2>4. HandlersFit'
    BY <1>1, <2>1, <2>2 DEF RegistryIInv, HandlersFit, Registry!Created
  <2>5. Registry!OnlyTheFinishedAreMistaken'
    BY <1>1, <2>1, <2>2 DEF RegistryIInv, Registry!OnlyTheFinishedAreMistaken, Registry!Finished
  <2> QED
    BY <2>1, <2>3, <2>4, <2>5, HandlerFrame
<1>2. \A i \in Registry!Registered : i \in Ids /\ sessions[i] \in Registry!Created /\ idOf[sessions[i]] = i /\ sessions[i] \in 0..MaxStarts
  BY DEF RegistryIInv, OwnIds, Registry!Registered, Registry!TypeOK
<1>3. CASE Registry!AttachGet(c)
  <2>1. h.pc = "idle" /\ h.sess = 0
    BY ZenonT(60), <1>3 DEF Registry!AttachGet, RegistryIInv, HandlersFit
  <2>2. PICK i \in Ids :
          \/ i \in Registry!Registered /\ Registry!Step(c, [h EXCEPT !.pc = "found", !.id = i, !.live = sessions[i]])
          \/ i \notin Registry!Registered /\ Registry!Step(c, [h EXCEPT !.pc = "ended", !.id = i, !.reply = "notfound"])
    BY <1>3 DEF Registry!AttachGet
  <2>3. CASE i \in Registry!Registered /\ Registry!Step(c, [h EXCEPT !.pc = "found", !.id = i, !.live = sessions[i]])
    <3> DEFINE rec == [h EXCEPT !.pc = "found", !.id = i, !.live = sessions[i]]
    <3>1. rec \in Handler /\ rec.pc = "found" /\ rec.id = i /\ rec.live = sessions[i] /\ rec.sess = 0
      BY <1>0, <1>2, <2>1, <2>3 DEF Handler
    <3> HIDE DEF rec
    <3> QED
      BY <1>1, <1>2, <2>3, <3>1 DEF rec
  <2>4. CASE i \notin Registry!Registered /\ Registry!Step(c, [h EXCEPT !.pc = "ended", !.id = i, !.reply = "notfound"])
    <3> DEFINE rec == [h EXCEPT !.pc = "ended", !.id = i, !.reply = "notfound"]
    <3>1. rec \in Handler /\ rec.pc = "ended" /\ rec.sess = 0
      BY <1>0, <2>1 DEF Handler
    <3> HIDE DEF rec
    <3> QED
      BY <1>1, <2>4, <3>1 DEF rec
  <2> QED
    BY <2>2, <2>3, <2>4
<1>4. CASE Registry!AttachSubscribe(c)
  <2> DEFINE rec == [h EXCEPT !.pc = "subscribed"]
  <2>1. h.pc = "found" /\ h.sess = 0 /\ h.live \in Registry!Created /\ idOf[h.live] = h.id /\ Registry!Step(c, rec)
    BY <1>4 DEF Registry!AttachSubscribe, RegistryIInv, HandlersFit
  <2>2. rec \in Handler /\ rec.pc = "subscribed" /\ rec.id = h.id /\ rec.live = h.live /\ rec.sess = 0
    BY <1>0, <2>1 DEF Handler
  <2> HIDE DEF rec
  <2> QED
    BY <1>1, <2>1, <2>2
<1>5. CASE Registry!AttachGetAgain(c)
  <2> DEFINE rec == [h EXCEPT !.pc = "streaming", !.sess = sessions[h.id]]
  <2>1. h.pc = "subscribed" /\ h.live \in Registry!Created /\ idOf[h.live] = h.id /\ Registry!Step(c, rec)
    BY <1>5 DEF Registry!AttachGetAgain, RegistryIInv, HandlersFit
  <2>2. h.id \in Ids /\ sessions[h.id] \in 0..MaxStarts
    BY <2>1 DEF RegistryIInv, Registry!TypeOK
  <2>3. rec \in Handler /\ rec.pc = "streaming" /\ rec.id = h.id /\ rec.live = h.live /\ rec.sess = sessions[h.id]
    BY <1>0, <2>2 DEF Handler
  <2>4. rec.sess # 0 => rec.sess \in Registry!Created /\ idOf[rec.sess] = rec.id
    BY <1>2, <2>2, <2>3 DEF Registry!Registered
  <2>5. rec.sess # rec.live => Registry!Finished(rec.live)
    BY <2>1, <2>3 DEF RegistryIInv, Registry!LiveSessionsAreRegistered
  <2> HIDE DEF rec
  <2> QED
    BY <1>1, <2>1, <2>3, <2>4, <2>5
<1>6. CASE Registry!AttachEnd(c)
  <2> DEFINE s == h.sess
             rec == [h EXCEPT !.pc = "ended", !.reply = IF s # 0 /\ status[s] = "failed" THEN "error" ELSE "end"]
  <2>1. Registry!Step(c, rec) /\ (h.sess # 0 => h.sess \in Registry!Created /\ idOf[h.sess] = h.id)
    BY <1>6 DEF Registry!AttachEnd, RegistryIInv, HandlersFit, Registry!OnlyTheFinishedAreMistaken
  <2>2. rec \in Handler /\ rec.pc = "ended" /\ rec.sess = h.sess /\ rec.id = h.id
    BY <1>0 DEF Handler
  <2> HIDE DEF rec
  <2> QED
    BY <1>1, <2>1, <2>2
<1> QED
  BY <1>3, <1>4, <1>5, <1>6

\* Every step keeps the invariant.
LEMMA RegistryNext ==
  ASSUME RegistryIInv, [Registry!Next]_(Registry!vars)
  PROVE  RegistryIInv'
<1>1. CASE Registry!Prune
  BY <1>1, EvictKeeps, SkipKeeps DEF Registry!Prune
<1>2. CASE UNCHANGED Registry!vars
  BY <1>2, HandlerFrame DEF Registry!vars, RegistryIInv, Registry!TypeOK, HandlersFit,
     Registry!OnlyTheFinishedAreMistaken, Registry!Created, Registry!Finished
<1> QED
  BY <1>1, <1>2, StartKeeps, RunKeeps, AttachKeeps DEF Registry!Next

\* The pruning loop evicts the oldest finished sessions, none at work and none below the
\* cap, while sessions finish without m.mu and attach handlers look twice (SessionManager
\* and pruneLocked, session.go; handleAttach, server.go).
THEOREM RetentionStaysSound ==
  ASSUME Registry!DaemonRegistryAssumption
  PROVE  Registry!Spec => []Registry!RetentionIsSound
<1>1. ASSUME RegistryIInv PROVE Registry!RetentionIsSound
  <2>1. Registry!Free /\ Registry!Over => \A i \in Registry!Registered : sessions[i] \notin atLock
    <3> SUFFICES ASSUME Registry!Free, Registry!Over, NEW i \in Registry!Registered PROVE sessions[i] \notin atLock
      OBVIOUS
    <3>1. PICK k \in DOMAIN order : order[k] = i
      BY <1>1 DEF RegistryIInv, OrderIsIndex
    <3> QED
      BY <1>1, <3>1 DEF RegistryIInv, PassedWereLive, Passed, Registry!At
  <2> QED
    BY <1>1, <2>1, OverIsSize DEF RegistryIInv, Registry!RetentionIsSound,
       Registry!IndexesAgree, OrderIsIndex
<1>2. RegistryIInv => Registry!RetentionIsSound
  BY <1>1
<1>3. Registry!Init => RegistryIInv
  BY RegistryInit
<1>4. RegistryIInv /\ [Registry!Next]_(Registry!vars) => RegistryIInv'
  BY RegistryNext
<1> QED
  BY <1>2, <1>3, <1>4, PTL DEF Registry!Spec
=============================================================================
