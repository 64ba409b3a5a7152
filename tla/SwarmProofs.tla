---------------------------- MODULE SwarmProofs ----------------------------
(***************************************************************************)
(* Theorems about Swarm, for every set of teams, every cap, every number   *)
(* of ids and of concurrent callers.  The inductive invariant IInv adds to *)
(* the slot properties what they rest on: ids are fresh until they are     *)
(* minted, a spec that is under way names a task that exists, and what a   *)
(* call in progress remembers was minted before.                           *)
(***************************************************************************)
EXTENDS Swarm, FiniteSetTheorems, TLAPS

USE SwarmAssumption

-----------------------------------------------------------------------------
(* The inductive invariant.                                                *)

\* Ids beyond the last one minted are new.
FreshIds == \A k \in Ids : k > nextId => phase[k] = "none" /\ status[k] = "unknown"

\* A spec that is under way names a task that was minted.
SpecsExist == \A m \in Ids : phase[m] # "none" => specTask[m] \in 1..nextId

\* So does what a call in progress remembers, and the task it made is still registered.
CallsAreCurrent ==
    \A c \in Callers :
       /\ call[c].op \in {"handoff", "retire"} => call[c].task <= nextId
       /\ call[c].op = "retire" => phase[call[c].new] = "registered"
       /\ call[c].op = "adopt" => \A k \in call[c].todo : k <= nextId

\* Two handoffs make different tasks.
HandoffsAreApart ==
    \A c, d \in Callers :
       c # d /\ call[c].op = "retire" /\ call[d].op = "retire" => call[c].new # call[d].new

IdInv   == FreshIds /\ SpecsExist /\ CallsAreCurrent /\ HandoffsAreApart

\* All of it.
IInv == TypeOK /\ IdInv /\ SlotsAreSound

-----------------------------------------------------------------------------
(* The slots.                                                              *)

\* The holders of a team's slots are finitely many.
LEMMA HoldersFinite ==
  ASSUME NEW t
  PROVE  IsFiniteSet(Holders(t)) /\ IsFiniteSet(Holders(t)') /\ Cardinality(Holders(t)) \in Nat
<1>1. IsFiniteSet(Ids)
  BY FS_Interval DEF Ids
<1>2. Holders(t) \subseteq Ids /\ Holders(t)' \subseteq Ids
  BY DEF Holders, Ids
<1> QED
  BY <1>1, <1>2, FS_Subset, FS_CardinalityType

\* The team of a spec that is under way is one of the teams.
LEMMA TeamOfSpec ==
  ASSUME TypeOK, IdInv, NEW m \in Ids, phase[m] # "none"
  PROVE  specTask[m] \in Ids /\ specTask[m] <= nextId /\ Team(m) \in Teams
BY DEF TypeOK, IdInv, SpecsExist, Team, Ids

\* A step that moves no spec into or out of a slot or a queue ...
SlotsStay ==
    /\ UNCHANGED <<running, queue>>
    /\ \A m \in Ids : phase'[m] \in HoldsSlot <=> phase[m] \in HoldsSlot
    /\ \A m \in Ids : phase'[m] = "queued" <=> phase[m] = "queued"
    /\ \A m \in Ids : phase[m] \in HoldsSlot \cup {"queued"} => Team(m)' = Team(m)

\* ... keeps the slot invariant.
LEMMA SlotFrame ==
  ASSUME TypeOK, SlotsAreSound, SlotsStay
  PROVE  SlotsAreSound' /\ \A t \in Teams : Holders(t)' = Holders(t)
<1> USE DEF SlotsStay
<1>1. \A t \in Teams : Holders(t)' = Holders(t)
  BY DEF Holders, Ids
<1>2. SlotAccounting'
  BY <1>1 DEF SlotsAreSound, SlotAccounting
<1>3. NoStrandedQueue'
  BY DEF SlotsAreSound, NoStrandedQueue
<1>4. QueueIsWaiting'
  <2> SUFFICES ASSUME NEW t \in Teams
               PROVE  /\ \A i \in DOMAIN queue[t] : phase'[queue[t][i]] = "queued" /\ Team(queue[t][i])' = t
                      /\ \A i, j \in DOMAIN queue[t] : i # j => queue[t][i] # queue[t][j]
                      /\ \A m \in Ids : phase'[m] = "queued" /\ Team(m)' = t => m \in QueuedIn(t)
    BY DEF QueueIsWaiting, QueuedIn, Ids
  <2>1. /\ \A i \in DOMAIN queue[t] : phase[queue[t][i]] = "queued" /\ Team(queue[t][i]) = t
        /\ \A i, j \in DOMAIN queue[t] : i # j => queue[t][i] # queue[t][j]
        /\ \A m \in Ids : phase[m] = "queued" /\ Team(m) = t => m \in QueuedIn(t)
    BY DEF SlotsAreSound, QueueIsWaiting
  <2>2. \A i \in DOMAIN queue[t] : queue[t][i] \in Ids
    BY DEF TypeOK
  <2> QED
    BY <2>1, <2>2
<1> QED
  BY <1>1, <1>2, <1>3, <1>4 DEF SlotsAreSound

\* What the invariant says of the queue of one team.
LEMMA QueueFacts ==
  ASSUME IInv, NEW u \in Teams
  PROVE  /\ queue[u] \in Seq(Ids)
         /\ \A i \in DOMAIN queue[u] : queue[u][i] \in Ids
         /\ \A i \in DOMAIN queue[u] : phase[queue[u][i]] = "queued" /\ Team(queue[u][i]) = u
         /\ \A i, j \in DOMAIN queue[u] : i # j => queue[u][i] # queue[u][j]
         /\ \A n \in Ids : phase[n] = "queued" /\ Team(n) = u
               => \E i \in DOMAIN queue[u] : n = queue[u][i]
<1>1. queue[u] \in Seq(Ids)
  BY DEF IInv, TypeOK
<1>2. \A i \in DOMAIN queue[u] : queue[u][i] \in Ids
  BY <1>1
<1> QED
  BY <1>1, <1>2 DEF IInv, SlotsAreSound, QueueIsWaiting, QueuedIn

\* The head and the tail of a sequence that is not empty.
LEMMA HeadTail ==
  ASSUME NEW S, NEW q \in Seq(S), q # <<>>
  PROVE  /\ Len(q) \in Nat \ {0}
         /\ DOMAIN q = 1..Len(q)
         /\ Head(q) \in S
         /\ Head(q) = q[1]
         /\ Tail(q) \in Seq(S)
         /\ DOMAIN Tail(q) = 1..(Len(q) - 1)
         /\ \A i \in DOMAIN Tail(q) : i + 1 \in DOMAIN q /\ Tail(q)[i] = q[i + 1]
<1>1. Len(q) \in Nat \ {0} /\ DOMAIN q = 1..Len(q)
  OBVIOUS
<1>2. Head(q) = q[1] /\ Head(q) \in S
  BY <1>1
<1>3. /\ Tail(q) \in Seq(S)
      /\ DOMAIN Tail(q) = 1..(Len(q) - 1)
      /\ \A i \in 1..(Len(q) - 1) : i + 1 \in DOMAIN q /\ Tail(q)[i] = q[i + 1]
  BY <1>1
<1> QED
  BY <1>1, <1>2, <1>3

\* Admit takes a free slot for its spec, or queues it when there is none.
LEMMA AdmitSlots ==
  ASSUME IInv, NEW m \in Ids, Admit(m)
  PROVE  SlotsAreSound'
<1> PICK t \in Teams : t = Team(m)
  BY TeamOfSpec DEF IInv, Admit
<1>0. TypeOK /\ phase[m] = "dispatching" /\ m \notin Holders(t)
  BY DEF IInv, Admit, Holders, HoldsSlot
<1>1. \A n \in Ids : Team(n)' = Team(n)
  BY DEF Admit, Team, board
<1>2. CASE /\ running[t] < MaxTeamSize
           /\ running' = [running EXCEPT ![t] = @ + 1]
           /\ phase' = [phase EXCEPT ![m] = "launching"]
           /\ UNCHANGED queue
  <2>1. Holders(t)' = Holders(t) \cup {m}
    BY <1>0, <1>1, <1>2 DEF Holders, HoldsSlot, TypeOK, Ids
  <2>2. \A u \in Teams \ {t} : Holders(u)' = Holders(u)
    BY <1>0, <1>1, <1>2 DEF Holders, HoldsSlot, TypeOK, Ids
  <2>3. SlotAccounting'
    <3>1. running'[t] = Cardinality(Holders(t)')
      <4>1. running'[t] = running[t] + 1
        BY <1>0, <1>2 DEF TypeOK
      <4>2. Cardinality(Holders(t)') = Cardinality(Holders(t)) + 1
        BY <1>0, <2>1, HoldersFinite, FS_AddElement
      <4> QED
        BY <4>1, <4>2 DEF IInv, SlotsAreSound, SlotAccounting
    <3>2. \A u \in Teams \ {t} : running'[u] = Cardinality(Holders(u)')
      BY <1>0, <1>2, <2>2 DEF IInv, SlotsAreSound, SlotAccounting, TypeOK
    <3> QED
      BY <3>1, <3>2 DEF SlotAccounting
  <2>4. NoStrandedQueue'
    BY <1>0, <1>2 DEF IInv, SlotsAreSound, NoStrandedQueue, TypeOK
  <2>5. QueueIsWaiting'
    <3>1. \A n \in Ids : phase'[n] = "queued" <=> phase[n] = "queued"
      BY <1>0, <1>2 DEF TypeOK
    <3>2. \A u \in Teams : \A i \in DOMAIN queue[u] : queue[u][i] \in Ids
      BY SMTT(60), <1>0 DEF TypeOK
    <3> QED
      BY <1>1, <1>2, <3>1, <3>2 DEF IInv, SlotsAreSound, QueueIsWaiting, QueuedIn, Ids
  <2> QED
    BY <2>3, <2>4, <2>5 DEF SlotsAreSound
<1>3. CASE /\ running[t] >= MaxTeamSize
           /\ queue' = [queue EXCEPT ![t] = Append(@, m)]
           /\ phase' = [phase EXCEPT ![m] = "queued"]
           /\ UNCHANGED running
  <2>1. \A u \in Teams : Holders(u)' = Holders(u)
    BY <1>0, <1>1, <1>3 DEF Holders, HoldsSlot, TypeOK, Ids
  <2>2. SlotAccounting'
    BY <1>3, <2>1 DEF IInv, SlotsAreSound, SlotAccounting
  <2>3. NoStrandedQueue'
    BY SMTT(60), <1>0, <1>3 DEF IInv, SlotsAreSound, NoStrandedQueue, TypeOK
  <2>4. QueueIsWaiting'
    <3> SUFFICES ASSUME NEW u \in Teams
                 PROVE  /\ \A i \in DOMAIN queue'[u] : phase'[queue'[u][i]] = "queued" /\ Team(queue'[u][i]) = u
                        /\ \A i, j \in DOMAIN queue'[u] : i # j => queue'[u][i] # queue'[u][j]
                        /\ \A n \in Ids : phase'[n] = "queued" /\ Team(n) = u
                              => \E i \in DOMAIN queue'[u] : n = queue'[u][i]
      BY <1>1 DEF QueueIsWaiting, QueuedIn, Ids, Team, Admit, board
    <3>0. /\ queue[u] \in Seq(Ids)
          /\ \A i \in DOMAIN queue[u] : queue[u][i] \in Ids
          /\ \A i \in DOMAIN queue[u] : phase[queue[u][i]] = "queued" /\ Team(queue[u][i]) = u
          /\ \A i, j \in DOMAIN queue[u] : i # j => queue[u][i] # queue[u][j]
          /\ \A n \in Ids : phase[n] = "queued" /\ Team(n) = u
                => \E i \in DOMAIN queue[u] : n = queue[u][i]
      BY QueueFacts
    <3>1. \A n \in Ids : phase'[n] = IF n = m THEN "queued" ELSE phase[n]
      BY <1>0, <1>3 DEF TypeOK
    <3>2. CASE u # t
      <4>1. queue'[u] = queue[u]
        BY <1>0, <1>3, <3>2 DEF TypeOK
      <4> QED
        BY <1>0, <1>1, <3>0, <3>1, <3>2, <4>1
    <3>3. CASE u = t
      <4>0. queue'[u] = Append(queue[u], m)
        BY <1>3, <3>3 DEF IInv, TypeOK
      <4>1. /\ DOMAIN queue'[u] = 1..(Len(queue[u]) + 1)
            /\ DOMAIN queue[u] = 1..Len(queue[u])
            /\ Len(queue[u]) \in Nat
            /\ \A i \in DOMAIN queue[u] : queue'[u][i] = queue[u][i]
            /\ queue'[u][Len(queue[u]) + 1] = m
        BY <3>0, <4>0
      <4>2. \A i \in DOMAIN queue[u] : queue[u][i] # m
        BY <1>0, <3>0
      <4>3. \A i \in DOMAIN queue'[u] : i \in DOMAIN queue[u] \/ i = Len(queue[u]) + 1
        BY <4>1
      <4>4. \A i \in DOMAIN queue'[u] : phase'[queue'[u][i]] = "queued" /\ Team(queue'[u][i]) = u
        BY <3>0, <3>1, <3>3, <4>1, <4>3
      <4>5. \A i, j \in DOMAIN queue'[u] : i # j => queue'[u][i] # queue'[u][j]
        BY <3>0, <4>1, <4>2, <4>3
      <4>6. \A n \in Ids : phase'[n] = "queued" /\ Team(n) = u
              => \E i \in DOMAIN queue'[u] : n = queue'[u][i]
        BY <3>0, <3>1, <4>1
      <4> QED
        BY <4>4, <4>5, <4>6
    <3> QED
      BY <3>2, <3>3
  <2> QED
    BY <2>2, <2>3, <2>4 DEF SlotsAreSound
<1> QED
  BY <1>2, <1>3 DEF Admit

\* OnExit hands the slot of its spec to the head of the queue, or frees it
\* when nothing waits.
LEMMA OnExitSlots ==
  ASSUME IInv, NEW m \in Ids, OnExit(m)
  PROVE  SlotsAreSound'
<1> PICK t \in Teams : t = Team(m)
  BY TeamOfSpec DEF IInv, OnExit
<1>0. TypeOK /\ phase[m] = "leaving" /\ m \in Holders(t)
  BY DEF IInv, OnExit, Holders, HoldsSlot
<1>1. \A n \in Ids : Team(n)' = Team(n)
  BY DEF OnExit, Team, board
<1>2. running[t] = Cardinality(Holders(t)) /\ running[t] \in 1..MaxTeamSize
  <2>1. Cardinality(Holders(t)) # 0
    BY <1>0, HoldersFinite, FS_EmptySet
  <2> QED
    BY SMTT(60), <2>1, HoldersFinite DEF IInv, TypeOK, SlotsAreSound, SlotAccounting
<1>3. CASE queue[t] # <<>>
  <2>0. queue[t] \in Seq(Ids)
    BY QueueFacts
  <2> PICK h \in Ids : h = Head(queue[t])
    BY <1>3, <2>0, HeadTail
  <2>1. /\ queue' = [queue EXCEPT ![t] = Tail(@)]
        /\ running' = [running EXCEPT ![t] = (running[t] - 1) + 1]
        /\ phase' = [phase EXCEPT ![m] = "gone", ![h] = "launching"]
    <3>1. running[t] > 0 /\ running[t] - 1 < MaxTeamSize /\ ~(running[t] - 1 >= MaxTeamSize)
      BY <1>2
    <3> QED
      BY <1>3, <3>1 DEF OnExit
  <2>2. /\ queue[t] \in Seq(Ids) /\ Len(queue[t]) \in Nat \ {0}
        /\ h = queue[t][1] /\ 1 \in DOMAIN queue[t]
    BY <1>3, <2>0, HeadTail
  <2>3. phase[h] = "queued" /\ Team(h) = t /\ h # m
    BY <1>0, <2>2 DEF IInv, SlotsAreSound, QueueIsWaiting
  <2>4. \A n \in Ids : phase'[n] = IF n = m THEN "gone" ELSE IF n = h THEN "launching" ELSE phase[n]
    BY <2>1, <2>3 DEF IInv, TypeOK
  <2>5. running' = running
    <3>1. (running[t] - 1) + 1 = running[t]
      BY <1>2
    <3> QED
      BY <2>1, <3>1 DEF IInv, TypeOK
  <2>6. SlotAccounting'
    <3>1. Holders(t)' = (Holders(t) \ {m}) \cup {h}
      BY <1>0, <1>1, <2>3, <2>4 DEF Holders, HoldsSlot, Ids
    <3>2. h \notin Holders(t) \ {m}
      BY <2>3 DEF Holders, HoldsSlot
    <3>3. /\ IsFiniteSet(Holders(t) \ {m})
          /\ Cardinality(Holders(t) \ {m}) = Cardinality(Holders(t)) - 1
      BY <1>0, HoldersFinite, FS_RemoveElement
    <3>4. Cardinality(Holders(t)') = Cardinality(Holders(t))
      <4>1. Cardinality((Holders(t) \ {m}) \cup {h}) = Cardinality(Holders(t) \ {m}) + 1
        BY <3>2, <3>3, FS_AddElement
      <4> QED
        BY <1>2, <3>1, <3>3, <4>1
    <3>5. \A u \in Teams \ {t} : Holders(u)' = Holders(u)
      BY <1>0, <1>1, <2>3, <2>4 DEF Holders, HoldsSlot, Ids
    <3> QED
      BY <1>2, <2>5, <3>4, <3>5 DEF IInv, SlotsAreSound, SlotAccounting
  <2>7. NoStrandedQueue'
    <3>1. \A u \in Teams : queue'[u] # <<>> => queue[u] # <<>>
      BY <1>3, <2>1 DEF IInv, TypeOK
    <3> QED
      BY <2>5, <3>1 DEF IInv, SlotsAreSound, NoStrandedQueue
  <2>8. QueueIsWaiting'
    <3> SUFFICES ASSUME NEW u \in Teams
                 PROVE  /\ \A i \in DOMAIN queue'[u] : phase'[queue'[u][i]] = "queued" /\ Team(queue'[u][i]) = u
                        /\ \A i, j \in DOMAIN queue'[u] : i # j => queue'[u][i] # queue'[u][j]
                        /\ \A n \in Ids : phase'[n] = "queued" /\ Team(n) = u
                              => \E i \in DOMAIN queue'[u] : n = queue'[u][i]
      BY <1>1 DEF QueueIsWaiting, QueuedIn, Ids, Team, OnExit, board
    <3>0. /\ queue[u] \in Seq(Ids)
          /\ \A i \in DOMAIN queue[u] : queue[u][i] \in Ids
          /\ \A i \in DOMAIN queue[u] : phase[queue[u][i]] = "queued" /\ Team(queue[u][i]) = u
          /\ \A i, j \in DOMAIN queue[u] : i # j => queue[u][i] # queue[u][j]
          /\ \A n \in Ids : phase[n] = "queued" /\ Team(n) = u
                => \E i \in DOMAIN queue[u] : n = queue[u][i]
      BY QueueFacts
    <3>1. CASE u # t
      <4>1. queue'[u] = queue[u]
        BY <2>1, <3>1 DEF IInv, TypeOK
      <4> QED
        BY <1>0, <2>3, <2>4, <3>0, <3>1, <4>1
    <3>2. CASE u = t
      <4>0. queue'[u] = Tail(queue[u])
        BY <2>1, <3>2 DEF IInv, TypeOK
      <4>1. /\ DOMAIN queue[u] = 1..Len(queue[u])
            /\ DOMAIN queue'[u] = 1..(Len(queue[u]) - 1)
            /\ \A i \in DOMAIN queue'[u] : i + 1 \in DOMAIN queue[u] /\ queue'[u][i] = queue[u][i + 1]
        BY <1>3, <2>0, <3>2, <4>0, HeadTail
      <4>2. \A i \in DOMAIN queue'[u] : queue'[u][i] # h /\ queue'[u][i] # m
        <5> SUFFICES ASSUME NEW i \in DOMAIN queue'[u]
                     PROVE  queue'[u][i] # h /\ queue'[u][i] # m
          OBVIOUS
        <5>1. i + 1 \in DOMAIN queue[u] /\ i + 1 # 1 /\ queue'[u][i] = queue[u][i + 1]
          BY <2>2, <3>2, <4>1
        <5>2. queue[u][i + 1] # queue[u][1]
          BY <2>2, <3>0, <3>2, <5>1
        <5> QED
          BY <1>0, <2>2, <3>0, <3>2, <5>1, <5>2
      <4>3. \A i \in DOMAIN queue'[u] : phase'[queue'[u][i]] = "queued" /\ Team(queue'[u][i]) = u
        BY <2>4, <3>0, <4>1, <4>2
      <4>4. \A i, j \in DOMAIN queue'[u] : i # j => queue'[u][i] # queue'[u][j]
        BY SMTT(60), <3>0, <4>1
      <4>5. ASSUME NEW n \in Ids, phase'[n] = "queued", Team(n) = u
            PROVE  \E i \in DOMAIN queue'[u] : n = queue'[u][i]
        <5>1. phase[n] = "queued" /\ n # h
          BY <2>4, <4>5
        <5>2. PICK i \in DOMAIN queue[u] : n = queue[u][i]
          BY <3>0, <4>5, <5>1
        <5>3. i # 1 /\ i \in 1..Len(queue[u])
          BY <2>2, <3>2, <4>1, <5>1, <5>2
        <5>4. i - 1 \in DOMAIN queue'[u] /\ (i - 1) + 1 = i
          BY <2>2, <3>2, <4>1, <5>3
        <5> QED
          BY <4>1, <5>2, <5>4
      <4> QED
        BY <4>3, <4>4, <4>5
    <3> QED
      BY <3>1, <3>2
  <2> QED
    BY <2>6, <2>7, <2>8 DEF SlotsAreSound
<1>4. CASE queue[t] = <<>>
  <2>1. /\ running' = [running EXCEPT ![t] = @ - 1]
        /\ phase' = [phase EXCEPT ![m] = "gone"]
        /\ UNCHANGED queue
    BY <1>2, <1>4 DEF OnExit
  <2>2. SlotAccounting'
    <3>1. Holders(t)' = Holders(t) \ {m}
      BY <1>0, <1>1, <2>1 DEF Holders, HoldsSlot, TypeOK, Ids
    <3>2. Cardinality(Holders(t)') = Cardinality(Holders(t)) - 1
      BY ZenonT(60), <1>0, <3>1, HoldersFinite, FS_RemoveElement
    <3>3. \A u \in Teams \ {t} : Holders(u)' = Holders(u)
      BY <1>0, <1>1, <2>1 DEF Holders, HoldsSlot, TypeOK, Ids
    <3> QED
      BY <1>2, <2>1, <3>2, <3>3 DEF IInv, TypeOK, SlotsAreSound, SlotAccounting
  <2>3. NoStrandedQueue'
    BY <1>4, <2>1 DEF IInv, TypeOK, SlotsAreSound, NoStrandedQueue
  <2>4. QueueIsWaiting'
    <3>1. \A n \in Ids : phase'[n] = "queued" <=> phase[n] = "queued"
      BY <1>0, <2>1 DEF TypeOK
    <3>2. \A u \in Teams : \A i \in DOMAIN queue[u] : queue[u][i] \in Ids
      BY SMTT(60), <1>0 DEF TypeOK
    <3> QED
      BY <1>1, <2>1, <3>1, <3>2 DEF IInv, SlotsAreSound, QueueIsWaiting, QueuedIn, Ids
  <2> QED
    BY <2>2, <2>3, <2>4 DEF SlotsAreSound
<1> QED
  BY <1>3, <1>4

-----------------------------------------------------------------------------
(* The types.                                                              *)

\* The type invariant holds initially.
LEMMA InitTypeOK == Init => TypeOK
<1> SUFFICES ASSUME Init PROVE TypeOK
  OBVIOUS
<1>1. (CHOOSE t \in Teams : TRUE) \in Teams
  OBVIOUS
<1>2. /\ nextId \in 0..MaxIds
      /\ status \in [Ids -> Status]
      /\ owner \in [Ids -> 0..MaxIds]
      /\ taskTeam \in [Ids -> Teams]
      /\ phase \in [Ids -> Phase]
      /\ specTask \in [Ids -> 0..MaxIds]
      /\ restarts \in [Ids -> 0..MaxMemberRestarts]
      /\ handedFrom \in [Ids -> 0..MaxIds]
  BY <1>1 DEF Init, Status, Phase
<1>3. closed \in BOOLEAN
  BY DEF Init
<1>4. /\ members \in [Teams -> SUBSET Ids]
      /\ queue \in [Teams -> Seq(Ids)]
      /\ running \in [Teams -> 0..MaxTeamSize]
  BY DEF Init
<1>5. call \in [Callers -> Call]
  BY DEF Init, Call, Idle
<1>6. waiter \in [Waiters -> Waiter]
  BY <1>1 DEF Init, Waiter
<1> QED
  BY <1>2, <1>3, <1>4, <1>5, <1>6 DEF TypeOK

\* Waking the blocked collectors keeps the type of waiter.
LEMMA NotifyType ==
  ASSUME waiter \in [Waiters -> Waiter], NotifyChange
  PROVE  waiter' \in [Waiters -> Waiter]
BY DEF NotifyChange, Waiter

\* The critical sections of the coordinator keep the types of what they set.
LEMMA RegisterType ==
  ASSUME TypeOK, NEW n \in Ids, NEW t \in Teams, Register(n, t)
  PROVE  /\ status' \in [Ids -> Status]
         /\ owner' \in [Ids -> 0..MaxIds]
         /\ taskTeam' \in [Ids -> Teams]
         /\ waiter' \in [Waiters -> Waiter]
<1>1. status' \in [Ids -> Status] /\ taskTeam' \in [Ids -> Teams]
  BY DEF TypeOK, Register, Status
<1>2. owner' \in [Ids -> 0..MaxIds]
  BY SMTT(60) DEF TypeOK, Register, Ids
<1>3. waiter' \in [Waiters -> Waiter]
  BY NotifyType DEF TypeOK, Register
<1> QED
  BY <1>1, <1>2, <1>3

\* A status transition keeps the types of the statuses and the waiters.
LEMMA SetStatusType ==
  ASSUME TypeOK, NEW k, NEW s \in Status, SetStatus(k, s)
  PROVE  /\ status' \in [Ids -> Status]
         /\ waiter' \in [Waiters -> Waiter]
BY NotifyType DEF TypeOK, SetStatus

\* So does the end of a task.
LEMMA FinishType ==
  ASSUME TypeOK, NEW k, NEW s \in Status, Finish(k, s)
  PROVE  /\ status' \in [Ids -> Status]
         /\ waiter' \in [Waiters -> Waiter]
BY NotifyType DEF TypeOK, Finish

\* What the goroutine of a spec does keeps every type.
LEMMA CarrierType ==
  ASSUME IInv, NEW m \in Ids, CarrierStep(m) \/ MemberStep(m)
  PROVE  TypeOK'
<1> USE DEF TypeOK, board, slots
<1>0. TypeOK /\ \A p \in Phase : [phase EXCEPT ![m] = p] \in [Ids -> Phase]
  BY DEF IInv
<1>a. {"launching", "joined", "running", "recorded", "leaving", "queued", "gone"} \subseteq Phase
  BY DEF Phase, HoldsSlot
<1>b. {"running", "done", "failed"} \subseteq Status
  BY DEF Status, Terminal
<1>1. CASE Admit(m)
  <2> PICK t \in Teams : t = Team(m)
    BY <1>1, TeamOfSpec DEF IInv, Admit
  <2>1. phase' \in [Ids -> Phase]
    BY ZenonT(60), <1>0, <1>a, <1>1 DEF Admit
  <2>2. running' \in [Teams -> 0..MaxTeamSize]
    <3>1. running[t] \in 0..MaxTeamSize /\ (running[t] < MaxTeamSize => running[t] + 1 \in 0..MaxTeamSize)
      BY SMTT(60), <1>0
    <3> QED
      BY ZenonT(60), <1>0, <1>1, <3>1 DEF Admit
  <2>3. queue' \in [Teams -> Seq(Ids)]
    <3>1. queue[t] \in Seq(Ids) /\ Append(queue[t], m) \in Seq(Ids)
      BY <1>0
    <3> QED
      BY <1>0, <1>1, <3>1 DEF Admit
  <2> QED
    BY <1>0, <1>1, <2>1, <2>2, <2>3 DEF Admit
<1>2. CASE Launch(m)
  BY <1>0, <1>a, <1>2 DEF Launch
<1>3. CASE LaunchFails(m)
  <2>1. phase' \in [Ids -> Phase]
    BY <1>0, <1>a, <1>3 DEF LaunchFails
  <2> QED
    BY <1>0, <1>b, <1>3, <2>1, FinishType DEF LaunchFails
<1>4. CASE MarkRunning(m)
  <2>1. phase' \in [Ids -> Phase]
    BY <1>0, <1>a, <1>4 DEF MarkRunning
  <2> QED
    BY <1>0, <1>b, <1>4, <2>1, SetStatusType DEF MarkRunning
<1>5. CASE RemoveMember(m)
  BY <1>0, <1>a, <1>5 DEF RemoveMember
<1>6. CASE OnExit(m)
  <2> PICK t \in Teams : t = Team(m)
    BY <1>6, TeamOfSpec DEF IInv, OnExit
  <2> DEFINE left == IF running[t] > 0 THEN running[t] - 1 ELSE running[t]
  <2>1. left \in 0..MaxTeamSize
    BY SMTT(60), <1>0
  <2>2. CASE /\ queue[t] # <<>> /\ left < MaxTeamSize
             /\ queue' = [queue EXCEPT ![t] = Tail(@)]
             /\ running' = [running EXCEPT ![t] = left + 1]
             /\ phase' = [phase EXCEPT ![m] = "gone", ![Head(queue[t])] = "launching"]
    <3>1. queue[t] \in Seq(Ids) /\ Tail(queue[t]) \in Seq(Ids)
      BY <1>0, <2>2, HeadTail
    <3>2. phase' \in [Ids -> Phase]
      BY <1>0, <1>a, <2>2
    <3>3. left + 1 \in 0..MaxTeamSize
      BY <2>1, <2>2
    <3> HIDE DEF left
    <3> QED
      BY <1>0, <1>6, <2>2, <3>1, <3>2, <3>3 DEF OnExit
  <2>3. CASE /\ running' = [running EXCEPT ![t] = left]
             /\ phase' = [phase EXCEPT ![m] = "gone"]
             /\ UNCHANGED queue
    <3> HIDE DEF left
    <3> QED
      BY <1>0, <1>a, <1>6, <2>1, <2>3 DEF OnExit
  <2> QED
    BY <1>6, <2>2, <2>3 DEF OnExit
<1>7. CASE WatchRelaunch(m)
  BY SMTT(60), <1>0, <1>7 DEF WatchRelaunch
<1>8. ASSUME NEW outcome \in {"done", "failed"}, WatchRecord(m, outcome)
      PROVE  TypeOK'
  <2>1. phase' \in [Ids -> Phase]
    BY <1>0, <1>a, <1>8 DEF WatchRecord
  <2> QED
    BY <1>0, <1>b, <1>8, <2>1, FinishType DEF WatchRecord
<1> QED
  BY <1>1, <1>2, <1>3, <1>4, <1>5, <1>6, <1>7, <1>8 DEF CarrierStep, MemberStep

\* What the caller of an API call in progress remembers has the type of its op.
LEMMA CallShape ==
  ASSUME TypeOK, NEW c \in Callers
  PROVE  /\ call[c].op = "handoff" => call[c].task \in Ids /\ call[c].team \in Teams
         /\ call[c].op = "retire" => call[c].task \in Ids /\ call[c].new \in Ids
         /\ call[c].op = "list" => call[c].team \in Teams /\ call[c].live \in SUBSET Ids
         /\ call[c].op = "adopt" =>
               call[c] \in [op : {"adopt"}, team : Teams, live : SUBSET Ids,
                            todo : SUBSET Ids, cur : 0..MaxIds]
<1>1. call[c] \in Call
  BY DEF TypeOK
<1>2. CASE call[c] = Idle
  BY <1>2 DEF Idle
<1>3. CASE call[c] \in [op : {"handoff"}, task : Ids, team : Teams]
  BY <1>3
<1>4. CASE call[c] \in [op : {"retire"}, task : Ids, new : Ids]
  BY <1>4
<1>5. CASE call[c] \in [op : {"list"}, team : Teams, live : SUBSET Ids]
  BY <1>5
<1>6. CASE call[c] \in [op : {"adopt"}, team : Teams, live : SUBSET Ids,
                       todo : SUBSET Ids, cur : 0..MaxIds]
  BY <1>6
<1> QED
  BY <1>1, <1>2, <1>3, <1>4, <1>5, <1>6 DEF Call

\* What Handoff and AdoptOrphans do keeps every type.
LEMMA CallerType ==
  ASSUME IInv, NEW c \in Callers, CallerStep(c)
  PROVE  TypeOK'
<1> USE DEF TypeOK, board, slots
<1>0. TypeOK /\ \A x \in Call : [call EXCEPT ![c] = x] \in [Callers -> Call]
  BY DEF IInv
<1>a. Idle \in Call
  BY DEF Call
<1>b. nextId < MaxIds => nextId + 1 \in Ids /\ nextId + 1 \in 0..MaxIds
  BY <1>0 DEF Ids
<1>c. "dispatching" \in Phase /\ "registered" \in Phase
  BY DEF Phase
<1>1. CASE HandoffNoteFails(c)
  BY <1>0, <1>a, <1>b, <1>1 DEF HandoffNoteFails
<1>2. CASE HandoffRegister(c)
  <2> DEFINE n == nextId + 1
  <2>1. call[c].task \in Ids /\ call[c].team \in Teams
    BY <1>0, <1>2, CallShape DEF HandoffRegister
  <2>2. n \in Ids /\ n \in 0..MaxIds /\ nextId' = n /\ Register(n, call[c].team)
    BY <1>b, <1>2 DEF HandoffRegister
  <2>3. [op |-> "retire", task |-> call[c].task, new |-> n] \in Call
    BY <2>1, <2>2 DEF Call
  <2>4. call' \in [Callers -> Call]
    BY <1>0, <1>2, <2>3 DEF HandoffRegister
  <2>5. phase' \in [Ids -> Phase]
    BY <1>0, <1>c, <1>2 DEF HandoffRegister
  <2>6. specTask' \in [Ids -> 0..MaxIds] /\ handedFrom' \in [Ids -> 0..MaxIds]
    <3>1. call[c].task \in 0..MaxIds
      BY <2>1 DEF Ids
    <3> HIDE DEF n
    <3>2. specTask' = [specTask EXCEPT ![n] = n] /\ handedFrom' = [handedFrom EXCEPT ![n] = call[c].task]
      BY <1>2 DEF HandoffRegister, n
    <3> QED
      BY <1>0, <2>2, <3>1, <3>2
  <2>7. /\ status' \in [Ids -> Status]
        /\ owner' \in [Ids -> 0..MaxIds]
        /\ taskTeam' \in [Ids -> Teams]
        /\ waiter' \in [Waiters -> Waiter]
    BY <1>0, <2>1, <2>2, RegisterType
  <2> QED
    BY <1>0, <1>2, <2>2, <2>4, <2>5, <2>6, <2>7 DEF HandoffRegister
<1>3. CASE HandoffRetire(c)
  <2>1. status' \in [Ids -> Status] /\ waiter' \in [Waiters -> Waiter]
    BY <1>0, <1>3, SetStatusType DEF HandoffRetire, Status, Terminal
  <2>2. phase' \in [Ids -> Phase]
    BY <1>0, <1>c, <1>3 DEF HandoffRetire
  <2> QED
    BY <1>0, <1>a, <1>3, <2>1, <2>2 DEF HandoffRetire
<1>4. CASE AdoptList(c)
  <2> DEFINE x == [op |-> "adopt", team |-> call[c].team, live |-> call[c].live,
                   todo |-> {k \in Ids : /\ Open(k) /\ taskTeam[k] = call[c].team
                                         /\ owner[k] \notin call[c].live},
                   cur |-> 0]
  <2>1. call[c].team \in Teams /\ call[c].live \in SUBSET Ids
    BY <1>0, <1>4, CallShape DEF AdoptList
  <2>2. x \in Call
    BY <2>1 DEF Call
  <2>3. call' = [call EXCEPT ![c] = x]
    BY <1>4 DEF AdoptList
  <2> QED
    BY <1>0, <1>4, <2>2, <2>3 DEF AdoptList
<1>5. CASE AdoptNext(c)
  <2>1. call[c].op = "adopt" /\ nextId + 1 \in Ids /\ nextId + 1 \in 0..MaxIds
    BY <1>b, <1>5 DEF AdoptNext
  <2>2. call[c] \in [op : {"adopt"}, team : Teams, live : SUBSET Ids,
                     todo : SUBSET Ids, cur : 0..MaxIds]
    BY <1>0, <2>1, CallShape
  <2> SUFFICES ASSUME NEW k \in call[c].todo,
                      \/ /\ call' = [call EXCEPT ![c].todo = @ \ {k}]
                         /\ UNCHANGED <<status, owner, waiter, specTask, phase>>
                      \/ /\ status' = [status EXCEPT ![k] = "pending"]
                         /\ owner' = [owner EXCEPT ![k] = nextId + 1]
                         /\ NotifyChange
                         /\ specTask' = [specTask EXCEPT ![nextId + 1] = k]
                         /\ phase' = [phase EXCEPT ![nextId + 1] = "dispatching"]
                         /\ call' = [call EXCEPT ![c].todo = @ \ {k}, ![c].cur = nextId + 1]
               PROVE  TypeOK'
    BY <1>5 DEF AdoptNext
  <2>3. k \in Ids /\ k \in 0..MaxIds
    BY <2>2 DEF Ids
  <2>4. [call[c] EXCEPT !.todo = @ \ {k}] \in Call
    BY <2>2 DEF Call
  <2>5. [call[c] EXCEPT !.todo = @ \ {k}, !.cur = nextId + 1] \in Call
    BY <2>1, <2>2 DEF Call
  <2>6. call' \in [Callers -> Call]
    BY ZenonT(60), <1>0, <2>4, <2>5
  <2>7. phase' \in [Ids -> Phase]
    BY ZenonT(60), <1>0, <1>c
  <2>8. specTask' \in [Ids -> 0..MaxIds]
    BY ZenonT(60), <1>0, <2>3
  <2>9. status' \in [Ids -> Status] /\ owner' \in [Ids -> 0..MaxIds]
    <3>1. [status EXCEPT ![k] = "pending"] \in [Ids -> Status]
      BY <1>0 DEF Status
    <3>2. [owner EXCEPT ![k] = nextId + 1] \in [Ids -> 0..MaxIds]
      BY <1>0, <2>1
    <3> QED
      BY <1>0, <3>1, <3>2
  <2>10. waiter' \in [Waiters -> Waiter]
    BY <1>0, NotifyType
  <2> QED
    BY <1>0, <1>5, <2>1, <2>6, <2>7, <2>8, <2>9, <2>10 DEF AdoptNext
<1>6. CASE AdoptReturn(c)
  BY <1>0, <1>a, <1>6 DEF AdoptReturn
<1> QED
  BY <1>1, <1>2, <1>3, <1>4, <1>5, <1>6 DEF CallerStep

\* Every step keeps every type.
LEMMA TypeStep ==
  ASSUME IInv, [Next]_vars
  PROVE  TypeOK'
<1> USE DEF TypeOK, board, slots
<1>0. TypeOK /\ \A c \in Callers : \A x \in Call : [call EXCEPT ![c] = x] \in [Callers -> Call]
  BY DEF IInv
<1>1. ASSUME NEW t \in Teams, Spawn(t)
      PROVE  TypeOK'
  <2>1. nextId + 1 \in Ids /\ nextId + 1 \in 0..MaxIds /\ nextId' = nextId + 1 /\ Register(nextId + 1, t)
    BY <1>0, <1>1 DEF Spawn, Ids
  <2>2. phase' \in [Ids -> Phase] /\ specTask' \in [Ids -> 0..MaxIds]
    BY <1>0, <1>1, <2>1 DEF Spawn, Phase
  <2> QED
    BY <1>0, <1>1, <2>1, <2>2, RegisterType DEF Spawn
<1>2. ASSUME NEW m \in Ids, CarrierStep(m) \/ MemberStep(m)
      PROVE  TypeOK'
  BY <1>2, CarrierType
<1>3. ASSUME NEW c \in Callers, NEW k \in Ids, NEW t \in Teams, HandoffCheck(c, k, t)
      PROVE  TypeOK'
  <2>1. [op |-> "handoff", task |-> k, team |-> t] \in Call
    BY DEF Call
  <2> QED
    BY <1>0, <1>3, <2>1 DEF HandoffCheck
<1>4. ASSUME NEW c \in Callers, NEW t \in Teams, AdoptLive(c, t)
      PROVE  TypeOK'
  <2>1. members[t] \cup QueuedIn(t) \in SUBSET Ids
    BY <1>0 DEF QueuedIn
  <2>2. [op |-> "list", team |-> t, live |-> members[t] \cup QueuedIn(t)] \in Call
    BY <2>1 DEF Call
  <2> QED
    BY <1>0, <1>4, <2>2 DEF AdoptLive
<1>5. ASSUME NEW c \in Callers, CallerStep(c)
      PROVE  TypeOK'
  BY <1>5, CallerType
<1>6. ASSUME NEW w \in Waiters, NEW t \in Teams, Collect(w, t)
      PROVE  TypeOK'
  BY <1>0, <1>6 DEF Collect, Waiter
<1>7. ASSUME NEW w \in Waiters, Scan(w) \/ CollectTimeout(w)
      PROVE  TypeOK'
  <2>1. waiter' \in [Waiters -> Waiter]
    <3>1. ASSUME NEW p \in {"idle", "scan", "blocked"}
          PROVE  [waiter EXCEPT ![w].pc = p] \in [Waiters -> Waiter]
      BY ZenonT(60), <1>0 DEF Waiter
    <3>2. PICK p \in {"idle", "scan", "blocked"} : waiter' = [waiter EXCEPT ![w].pc = p]
      BY <1>7 DEF Scan, CollectTimeout
    <3> QED
      BY <3>1, <3>2
  <2> QED
    BY <1>0, <1>7, <2>1 DEF Scan, CollectTimeout
<1>8. CASE Close
  BY <1>0, <1>8 DEF Close
<1>9. CASE UNCHANGED vars
  BY <1>0, <1>9 DEF vars
<1> QED
  BY <1>1, <1>2, <1>3, <1>4, <1>5, <1>6, <1>7, <1>8, <1>9 DEF Next

-----------------------------------------------------------------------------
(* Every step keeps the slot invariant.                                    *)

\* Only the two critical sections of the slots move a spec into or out of one.
LEMMA SlotsMove ==
  ASSUME IInv, [Next]_vars
  PROVE  SlotsStay \/ \E m \in Ids : Admit(m) \/ OnExit(m)
<1> SUFFICES ASSUME \A m \in Ids : ~Admit(m) /\ ~OnExit(m)
             PROVE  SlotsStay
  OBVIOUS
<1> USE DEF board, slots
<1>0. TypeOK /\ IdInv /\ SlotsAreSound
  BY DEF IInv
\* A step that touches neither the slots nor the names of the specs.
<1>a. ASSUME UNCHANGED <<phase, specTask, taskTeam, queue, running>>
      PROVE  SlotsStay
  <2>1. \A m \in Ids : Team(m)' = Team(m) /\ phase'[m] = phase[m]
    BY <1>a DEF Team
  <2> QED
    BY <1>0, <1>a, <2>1 DEF SlotsStay
\* A step that moves one spec between phases of one kind.
<1>b. ASSUME NEW m \in Ids, NEW p \in Phase,
             phase' = [phase EXCEPT ![m] = p],
             p \in HoldsSlot <=> phase[m] \in HoldsSlot,
             p # "queued", phase[m] # "queued",
             UNCHANGED <<specTask, taskTeam, queue, running>>
      PROVE  SlotsStay
  <2>1. \A n \in Ids : Team(n)' = Team(n)
    BY <1>b DEF Team
  <2>2. \A n \in Ids : phase'[n] = IF n = m THEN p ELSE phase[n]
    BY <1>0, <1>b DEF TypeOK
  <2> QED
    BY <1>0, <1>b, <2>1, <2>2 DEF SlotsStay
\* A step that mints an id for a spec which then waits to be dispatched.
<1>c. ASSUME NEW n \in Ids, n = nextId + 1,
             NEW p \in {"registered", "dispatching"}, NEW k \in Ids,
             phase' = [phase EXCEPT ![n] = p],
             specTask' = [specTask EXCEPT ![n] = k],
             \A j \in Ids \ {n} : taskTeam'[j] = taskTeam[j],
             UNCHANGED <<queue, running>>
      PROVE  SlotsStay
  <2>1. phase[n] = "none" /\ \A m \in Ids : phase[m] # "none" => m # n /\ specTask[m] \in Ids \ {n}
    BY SMTT(60), <1>0, <1>c DEF IdInv, FreshIds, SpecsExist, TypeOK, Ids
  <2>2. \A m \in Ids : phase'[m] = (IF m = n THEN p ELSE phase[m])
    BY <1>0, <1>c DEF TypeOK
  <2>3. \A m \in Ids : phase[m] # "none" => Team(m)' = Team(m)
    BY <1>0, <1>c, <2>1 DEF Team, TypeOK
  <2>4. \A m \in Ids : phase'[m] \in HoldsSlot <=> phase[m] \in HoldsSlot
    BY <2>1, <2>2 DEF HoldsSlot
  <2>5. \A m \in Ids : phase'[m] = "queued" <=> phase[m] = "queued"
    BY <2>1, <2>2
  <2>6. \A m \in Ids : phase[m] \in HoldsSlot \cup {"queued"} => Team(m)' = Team(m)
    BY <2>3 DEF HoldsSlot
  <2> QED
    BY <1>0, <1>c, <2>4, <2>5, <2>6 DEF SlotsStay
<1>d. nextId < MaxIds => nextId + 1 \in Ids
  BY <1>0 DEF TypeOK, Ids
<1>1. ASSUME NEW t \in Teams, Spawn(t)
      PROVE  SlotsStay
  <2>1. taskTeam' = [taskTeam EXCEPT ![nextId + 1] = t] /\ nextId + 1 \in Ids
    BY <1>1, <1>d DEF Spawn, Register
  <2>2. \A j \in Ids \ {nextId + 1} : taskTeam'[j] = taskTeam[j]
    BY <1>0, <2>1 DEF TypeOK
  <2> QED
    BY <1>1, <1>c, <2>1, <2>2 DEF Spawn
<1>2. ASSUME NEW m \in Ids, CarrierStep(m) \/ MemberStep(m)
      PROVE  SlotsStay
  <2>1. CASE Launch(m)
    BY <1>b, <2>1 DEF Launch, HoldsSlot, Phase
  <2>2. CASE LaunchFails(m)
    BY <1>b, <2>2 DEF LaunchFails, HoldsSlot, Phase
  <2>3. CASE MarkRunning(m)
    BY <1>b, <2>3 DEF MarkRunning, HoldsSlot, Phase
  <2>4. CASE RemoveMember(m)
    BY <1>b, <2>4 DEF RemoveMember, HoldsSlot, Phase
  <2>5. CASE WatchRelaunch(m)
    BY <1>a, <2>5 DEF WatchRelaunch
  <2>6. ASSUME NEW outcome \in {"done", "failed"}, WatchRecord(m, outcome)
        PROVE  SlotsStay
    BY <1>b, <2>6 DEF WatchRecord, HoldsSlot, Phase
  <2> QED
    BY <1>2, <2>1, <2>2, <2>3, <2>4, <2>5, <2>6 DEF CarrierStep, MemberStep
<1>3. ASSUME NEW c \in Callers, CallerStep(c)
      PROVE  SlotsStay
  <2>1. CASE HandoffNoteFails(c)
    BY <1>a, <2>1 DEF HandoffNoteFails
  <2>2. CASE HandoffRegister(c)
    <3>1. taskTeam' = [taskTeam EXCEPT ![nextId + 1] = call[c].team] /\ nextId + 1 \in Ids
      BY <1>d, <2>2 DEF HandoffRegister, Register
    <3>2. \A j \in Ids \ {nextId + 1} : taskTeam'[j] = taskTeam[j]
      BY <1>0, <3>1 DEF TypeOK
    <3> QED
      BY <1>c, <2>2, <3>1, <3>2 DEF HandoffRegister
  <2>3. CASE HandoffRetire(c)
    <3>1. call[c].new \in Ids /\ phase[call[c].new] = "registered"
      BY <1>0, <2>3, CallShape DEF HandoffRetire, IdInv, CallsAreCurrent
    <3> QED
      BY <1>b, <2>3, <3>1 DEF HandoffRetire, HoldsSlot, Phase
  <2>4. CASE AdoptList(c)
    BY <1>a, <2>4 DEF AdoptList
  <2>5. CASE AdoptNext(c)
    <3>1. PICK k \in call[c].todo :
            \/ UNCHANGED <<specTask, phase>>
            \/ /\ specTask' = [specTask EXCEPT ![nextId + 1] = k]
               /\ phase' = [phase EXCEPT ![nextId + 1] = "dispatching"]
      BY <2>5 DEF AdoptNext
    <3>2. k \in Ids /\ nextId + 1 \in Ids
      BY <1>0, <1>d, <2>5, CallShape DEF AdoptNext
    <3>3. UNCHANGED <<taskTeam, queue, running>>
      BY <2>5 DEF AdoptNext
    <3> QED
      BY <1>a, <1>c, <3>1, <3>2, <3>3
  <2>6. CASE AdoptReturn(c)
    BY <1>a, <2>6 DEF AdoptReturn
  <2> QED
    BY <1>3, <2>1, <2>2, <2>3, <2>4, <2>5, <2>6 DEF CallerStep
<1>4. ASSUME \/ \E c \in Callers, k \in Ids, t \in Teams : HandoffCheck(c, k, t)
             \/ \E c \in Callers, t \in Teams : AdoptLive(c, t)
             \/ \E w \in Waiters, t \in Teams : Collect(w, t)
             \/ \E w \in Waiters : Scan(w) \/ CollectTimeout(w)
             \/ Close
             \/ UNCHANGED vars
      PROVE  SlotsStay
  BY <1>a, <1>4 DEF HandoffCheck, AdoptLive, Collect, Scan, CollectTimeout, Close, vars
<1> QED
  BY <1>1, <1>2, <1>3, <1>4 DEF Next

\* Every step keeps the slot invariant.
LEMMA SlotStep ==
  ASSUME IInv, [Next]_vars
  PROVE  SlotsAreSound'
BY SlotsMove, SlotFrame, AdmitSlots, OnExitSlots DEF IInv

-----------------------------------------------------------------------------
(* The ids.                                                                *)

\* A status transition touches one task.
LEMMA OneStatus ==
  ASSUME TypeOK, NEW k \in Ids, NEW s, SetStatus(k, s) \/ Finish(k, s)
  PROVE  \A j \in Ids : j # k => status'[j] = status[j]
BY DEF SetStatus, Finish, TypeOK

\* Every step keeps what is known of the ids.
LEMMA IdStep ==
  ASSUME IInv, [Next]_vars
  PROVE  IdInv'
<1> USE DEF board, slots
<1>0. TypeOK /\ IdInv /\ SlotsAreSound /\ nextId \in Nat /\ Ids \subseteq Nat
  <2>1. TypeOK /\ IdInv /\ SlotsAreSound
    BY DEF IInv
  <2>2. nextId \in Nat
    BY <2>1 DEF TypeOK
  <2>3. Ids \subseteq Nat
    BY DEF Ids
  <2> QED
    BY <2>1, <2>2, <2>3
\* A task with a status was minted before.
<1>e. \A k \in Ids : status[k] # "unknown" => k <= nextId
  BY <1>0 DEF IdInv, FreshIds
\* A step that mints no id and leaves the calls alone.
<1>a. ASSUME UNCHANGED <<nextId, call, specTask>>,
             \A m \in Ids : phase[m] = "none" <=> phase'[m] = "none",
             \A m \in Ids : phase[m] = "registered" => phase'[m] = "registered",
             \A k \in Ids : k > nextId => status'[k] = status[k]
      PROVE  IdInv'
  <2>1. FreshIds' /\ SpecsExist' /\ HandoffsAreApart'
    BY <1>0, <1>a DEF IdInv, FreshIds, SpecsExist, HandoffsAreApart, Ids
  <2>2. CallsAreCurrent'
    BY <1>0, <1>a, CallShape DEF IdInv, CallsAreCurrent
  <2> QED
    BY <2>1, <2>2 DEF IdInv
\* A step of a caller that touches no spec.
<1>b. ASSUME NEW c \in Callers, NEW x,
             call' = [call EXCEPT ![c] = x],
             nextId' \in {nextId, nextId + 1},
             UNCHANGED <<phase, specTask, status>>,
             x.op # "retire",
             x.op = "handoff" => x.task \in Nat /\ x.task <= nextId,
             x.op = "adopt" => x.todo \subseteq {k \in Ids : k <= nextId}
      PROVE  IdInv'
  <2>1. FreshIds'
    BY <1>0, <1>b DEF IdInv, FreshIds, Ids
  <2>2. SpecsExist'
    BY <1>0, <1>b DEF IdInv, SpecsExist, Ids
  <2>3. call'[c] = x /\ \A d \in Callers \ {c} : call'[d] = call[d]
    BY <1>0, <1>b DEF TypeOK
  <2>4. CallsAreCurrent'
    <3> SUFFICES ASSUME NEW d \in Callers
                 PROVE  /\ call'[d].op \in {"handoff", "retire"} => call'[d].task <= nextId'
                        /\ call'[d].op = "retire" => phase'[call'[d].new] = "registered"
                        /\ call'[d].op = "adopt" => \A k \in call'[d].todo : k <= nextId'
      BY DEF CallsAreCurrent
    <3>1. CASE d = c
      <4>1. nextId <= nextId' /\ nextId' \in Nat
        BY <1>0, <1>b
      <4>2. call'[d] = x
        BY <2>3, <3>1
      <4>3. x.op \in {"handoff", "retire"} => x.task <= nextId'
        BY <1>0, <1>b, <4>1
      <4>4. x.op = "adopt" => \A k \in x.todo : k <= nextId'
        <5> SUFFICES ASSUME x.op = "adopt", NEW k \in x.todo
                     PROVE  k <= nextId'
          OBVIOUS
        <5>1. k \in Ids /\ k <= nextId
          BY <1>b
        <5>2. k \in Nat /\ nextId \in Nat
          BY <1>0, <5>1
        <5> QED
          BY <4>1, <5>1, <5>2
      <4> QED
        BY <1>b, <4>2, <4>3, <4>4
    <3>2. CASE d # c
      <4>1. /\ call[d].op \in {"handoff", "retire"} => call[d].task \in Nat
            /\ call[d].op = "adopt" => call[d].todo \subseteq Nat
        BY <1>0, CallShape
      <4> QED
        BY <1>0, <1>b, <2>3, <3>2, <4>1 DEF IdInv, CallsAreCurrent
    <3> QED
      BY <3>1, <3>2
  <2>5. HandoffsAreApart'
    BY <1>0, <1>b, <2>3 DEF IdInv, HandoffsAreApart
  <2> QED
    BY <2>1, <2>2, <2>4, <2>5 DEF IdInv
\* A step that mints an id for a spec of task k.
<1>c. ASSUME NEW n \in Ids, n = nextId + 1, nextId' = n,
             NEW p \in {"registered", "dispatching"}, NEW k \in 1..n,
             phase' = [phase EXCEPT ![n] = p],
             specTask' = [specTask EXCEPT ![n] = k],
             \A j \in Ids : j > n => status'[j] = status[j]
      PROVE  /\ FreshIds' /\ SpecsExist'
             /\ phase'[n] = p
             /\ \A d \in Callers : call[d].op = "retire" =>
                   phase'[call[d].new] = "registered" /\ call[d].new # n
             /\ \A d \in Callers :
                   /\ call[d].op \in {"handoff", "retire"} => call[d].task <= n
                   /\ call[d].op = "adopt" => \A j \in call[d].todo : j <= n
  <2>1. \A m \in Ids : /\ phase'[m] = (IF m = n THEN p ELSE phase[m])
                       /\ specTask'[m] = (IF m = n THEN k ELSE specTask[m])
    BY <1>0, <1>c DEF TypeOK
  <2>2. FreshIds'
    BY <1>0, <1>c, <2>1 DEF IdInv, FreshIds, Ids
  <2>3. SpecsExist'
    BY <1>0, <1>c, <2>1 DEF IdInv, SpecsExist, Ids
  <2>4. phase[n] = "none"
    BY <1>0, <1>c DEF IdInv, FreshIds
  <2>5. \A d \in Callers : call[d].op = "retire" =>
           phase'[call[d].new] = "registered" /\ call[d].new # n
    BY <1>0, <2>1, <2>4, CallShape DEF IdInv, CallsAreCurrent
  <2>6. \A d \in Callers :
           /\ call[d].op \in {"handoff", "retire"} => call[d].task <= n
           /\ call[d].op = "adopt" => \A j \in call[d].todo : j <= n
    <3> SUFFICES ASSUME NEW d \in Callers
                 PROVE  /\ call[d].op \in {"handoff", "retire"} => call[d].task <= n
                        /\ call[d].op = "adopt" => \A j \in call[d].todo : j <= n
      OBVIOUS
    <3>1. /\ call[d].op \in {"handoff", "retire"} => call[d].task \in Nat
          /\ call[d].op = "adopt" => call[d].todo \subseteq Nat
      BY <1>0, CallShape
    <3> QED
      BY <1>0, <1>c, <3>1 DEF IdInv, CallsAreCurrent
  <2> QED
    BY <1>c, <2>1, <2>2, <2>3, <2>5, <2>6
<1>d. nextId < MaxIds => nextId + 1 \in Ids
  BY <1>0 DEF TypeOK, Ids
<1>1. ASSUME NEW t \in Teams, Spawn(t)
      PROVE  IdInv'
  <2> DEFINE n == nextId + 1
  <2>1. n \in Ids /\ n \in 1..n /\ nextId' = n /\ call' = call
    BY <1>0, <1>1, <1>d DEF Spawn
  <2>2. \A j \in Ids : j > n => status'[j] = status[j]
    BY <1>0, <1>1 DEF Spawn, Register, TypeOK
  <2>3. phase' = [phase EXCEPT ![n] = "dispatching"] /\ specTask' = [specTask EXCEPT ![n] = n]
    BY <1>1 DEF Spawn
  <2> HIDE DEF n
  <2>4. /\ FreshIds' /\ SpecsExist'
        /\ \A d \in Callers :
              /\ call[d].op = "retire" => phase'[call[d].new] = "registered"
              /\ call[d].op \in {"handoff", "retire"} => call[d].task <= n
              /\ call[d].op = "adopt" => \A j \in call[d].todo : j <= n
    BY <1>c, <2>1, <2>2, <2>3 DEF n
  <2>5. CallsAreCurrent' /\ HandoffsAreApart'
    BY <1>0, <2>1, <2>4 DEF IdInv, CallsAreCurrent, HandoffsAreApart
  <2> QED
    BY <2>4, <2>5 DEF IdInv
<1>2. ASSUME NEW m \in Ids, CarrierStep(m) \/ MemberStep(m)
      PROVE  IdInv'
  <2>0. UNCHANGED <<nextId, call, specTask>>
    BY <1>2 DEF CarrierStep, MemberStep, Admit, Launch, LaunchFails, MarkRunning, RemoveMember,
                OnExit, WatchRelaunch, WatchRecord
  <2>1. phase[m] \notin {"none", "registered"}
    BY <1>2 DEF CarrierStep, MemberStep, Admit, Launch, LaunchFails, MarkRunning, RemoveMember,
                OnExit, WatchRelaunch, WatchRecord
  <2>2. \A j \in Ids : j > nextId => status'[j] = status[j]
    <3>1. specTask[m] \in Ids /\ specTask[m] <= nextId
      BY <1>0, <2>1, TeamOfSpec
    <3>2. \A s : SetStatus(specTask[m], s) \/ Finish(specTask[m], s)
             => \A j \in Ids : j > nextId => status'[j] = status[j]
      <4>1. \A j \in Ids : j > nextId => j # specTask[m]
        BY <1>0, <3>1
      <4> QED
        BY <1>0, <3>1, <4>1, OneStatus
    <3> QED
      BY <1>2, <3>2 DEF CarrierStep, MemberStep, Admit, Launch, LaunchFails, MarkRunning,
                        RemoveMember, OnExit, WatchRelaunch, WatchRecord
  <2>3. \A n \in Ids : /\ phase[n] = "none" <=> phase'[n] = "none"
                       /\ phase[n] = "registered" => phase'[n] = "registered"
    <3>1. CASE OnExit(m)
      <4> PICK t \in Teams : t = Team(m)
        BY <1>0, <2>1, TeamOfSpec
      <4>1. CASE /\ queue[t] # <<>>
                 /\ phase' = [phase EXCEPT ![m] = "gone", ![Head(queue[t])] = "launching"]
        <5>1. Head(queue[t]) \in Ids /\ phase[Head(queue[t])] = "queued"
          BY <4>1, QueueFacts, HeadTail
        <5> QED
          BY <1>0, <2>1, <4>1, <5>1 DEF TypeOK
      <4>2. CASE phase' = [phase EXCEPT ![m] = "gone"]
        BY <1>0, <2>1, <4>2 DEF TypeOK
      <4> QED
        BY <3>1, <4>1, <4>2 DEF OnExit
    <3>2. CASE phase' = phase
      BY <3>2
    <3>3. ASSUME NEW p \in {"launching", "queued", "joined", "leaving", "running", "recorded"},
                 phase' = [phase EXCEPT ![m] = p]
          PROVE  \A n \in Ids : /\ phase[n] = "none" <=> phase'[n] = "none"
                                /\ phase[n] = "registered" => phase'[n] = "registered"
      BY <1>0, <2>1, <3>3 DEF TypeOK
    <3> QED
      BY <1>2, <3>1, <3>2, <3>3 DEF CarrierStep, MemberStep, Admit, Launch, LaunchFails,
                                    MarkRunning, RemoveMember, WatchRelaunch, WatchRecord
  <2> QED
    BY <1>a, <2>0, <2>2, <2>3
<1>3. ASSUME NEW c \in Callers, NEW k \in Ids, NEW t \in Teams, HandoffCheck(c, k, t)
      PROVE  IdInv'
  <2> DEFINE x == [op |-> "handoff", task |-> k, team |-> t]
  <2>1. x.op = "handoff" /\ x.task \in Nat /\ x.task <= nextId
    BY <1>0, <1>3, <1>e DEF HandoffCheck, Open
  <2>2. call' = [call EXCEPT ![c] = x] /\ UNCHANGED <<nextId, phase, specTask, status>>
    BY <1>3 DEF HandoffCheck
  <2> HIDE DEF x
  <2> QED
    BY <1>b, <2>1, <2>2
<1>4. ASSUME NEW c \in Callers, NEW t \in Teams, AdoptLive(c, t)
      PROVE  IdInv'
  <2> DEFINE x == [op |-> "list", team |-> t, live |-> members[t] \cup QueuedIn(t)]
  <2>1. x.op = "list"
    OBVIOUS
  <2>2. call' = [call EXCEPT ![c] = x] /\ UNCHANGED <<nextId, phase, specTask, status>>
    BY <1>4 DEF AdoptLive
  <2> HIDE DEF x
  <2> QED
    BY <1>b, <2>1, <2>2
<1>5. ASSUME NEW c \in Callers, CallerStep(c)
      PROVE  IdInv'
  <2>1. CASE HandoffNoteFails(c)
    <3>1. call' = [call EXCEPT ![c] = Idle] /\ nextId' = nextId + 1 /\ UNCHANGED <<phase, specTask, status>>
      BY <2>1 DEF HandoffNoteFails
    <3>2. Idle.op = "idle"
      BY DEF Idle
    <3> QED
      BY <1>b, <3>1, <3>2
  <2>2. CASE HandoffRegister(c)
    <3> DEFINE n == nextId + 1
    <3>1. n \in Ids /\ n \in 1..n /\ n \in Nat /\ nextId' = n
      BY <1>0, <1>d, <2>2 DEF HandoffRegister
    <3>2. \A j \in Ids : j > n => status'[j] = status[j]
      BY <1>0, <2>2 DEF HandoffRegister, Register, TypeOK
    <3>3. phase' = [phase EXCEPT ![n] = "registered"] /\ specTask' = [specTask EXCEPT ![n] = n]
      BY <2>2 DEF HandoffRegister
    <3>4. /\ call'[c] = [op |-> "retire", task |-> call[c].task, new |-> n]
          /\ \A d \in Callers \ {c} : call'[d] = call[d]
          /\ call[c].op = "handoff"
      BY <1>0, <2>2 DEF HandoffRegister, TypeOK
    <3> HIDE DEF n
    <3>5. /\ FreshIds' /\ SpecsExist' /\ phase'[n] = "registered"
          /\ \A d \in Callers :
                /\ call[d].op = "retire" => phase'[call[d].new] = "registered" /\ call[d].new # n
                /\ call[d].op \in {"handoff", "retire"} => call[d].task <= n
                /\ call[d].op = "adopt" => \A j \in call[d].todo : j <= n
      BY ZenonT(60), <1>c, <3>1, <3>2, <3>3 DEF n
    <3>6. CallsAreCurrent'
      BY <3>1, <3>4, <3>5 DEF CallsAreCurrent
    <3>7. HandoffsAreApart'
      BY <1>0, <3>4, <3>5 DEF IdInv, HandoffsAreApart
    <3> QED
      BY <3>5, <3>6, <3>7 DEF IdInv
  <2>3. CASE HandoffRetire(c)
    <3> DEFINE n == call[c].new
    <3>1. /\ call[c].op = "retire" /\ n \in Ids /\ phase[n] = "registered"
          /\ call[c].task \in Ids /\ call[c].task <= nextId
      BY <1>0, <2>3, CallShape DEF HandoffRetire, IdInv, CallsAreCurrent
    <3>2. \A j \in Ids : j > nextId => status'[j] = status[j]
      <4>1. \A j \in Ids : j > nextId => j # call[c].task
        BY <1>0, <3>1
      <4> QED
        BY <1>0, <2>3, <3>1, <4>1, OneStatus DEF HandoffRetire
    <3>3. \A m \in Ids : phase'[m] = IF m = n THEN "dispatching" ELSE phase[m]
      BY <1>0, <2>3 DEF HandoffRetire, TypeOK
    <3>4. UNCHANGED <<nextId, specTask>>
      BY <2>3 DEF HandoffRetire
    <3>5. call'[c] = Idle /\ \A d \in Callers \ {c} : call'[d] = call[d]
      BY <1>0, <2>3 DEF HandoffRetire, TypeOK
    <3>6. \A d \in Callers \ {c} : call[d].op = "retire" => call[d].new # n
      BY <1>0, <3>1 DEF IdInv, HandoffsAreApart
    <3> HIDE DEF n
    <3>7. FreshIds' /\ SpecsExist'
      BY <1>0, <3>1, <3>2, <3>3, <3>4 DEF IdInv, FreshIds, SpecsExist, Ids
    <3>8. CallsAreCurrent'
      <4> SUFFICES ASSUME NEW d \in Callers
                   PROVE  /\ call'[d].op \in {"handoff", "retire"} => call'[d].task <= nextId
                          /\ call'[d].op = "retire" => phase'[call'[d].new] = "registered"
                          /\ call'[d].op = "adopt" => \A k \in call'[d].todo : k <= nextId
        BY <3>4 DEF CallsAreCurrent
      <4>1. CASE d = c
        BY <3>5, <4>1 DEF Idle
      <4>2. CASE d # c
        <5>1. call'[d] = call[d] /\ (call[d].op = "retire" => call[d].new \in Ids /\ call[d].new # n)
          BY <1>0, <3>5, <3>6, <4>2, CallShape
        <5> QED
          BY <1>0, <3>3, <5>1 DEF IdInv, CallsAreCurrent
      <4> QED
        BY <4>1, <4>2
    <3>9. HandoffsAreApart'
      BY <1>0, <3>5 DEF IdInv, HandoffsAreApart, Idle
    <3> QED
      BY <3>7, <3>8, <3>9 DEF IdInv
  <2>4. CASE AdoptList(c)
    <3> DEFINE x == [op |-> "adopt", team |-> call[c].team, live |-> call[c].live,
                     todo |-> {k \in Ids : /\ Open(k) /\ taskTeam[k] = call[c].team
                                           /\ owner[k] \notin call[c].live},
                     cur |-> 0]
    <3>1. call' = [call EXCEPT ![c] = x] /\ UNCHANGED <<nextId, phase, specTask, status>>
      BY <2>4 DEF AdoptList
    <3>2. x.op = "adopt" /\ x.todo \subseteq {k \in Ids : k <= nextId}
      BY <1>e DEF Open
    <3> HIDE DEF x
    <3> QED
      BY <1>b, <3>1, <3>2
  <2>5. CASE AdoptNext(c)
    <3> DEFINE n == nextId + 1
    <3>1. /\ call[c].op = "adopt" /\ n \in Ids /\ n \in Nat /\ nextId' = n
          /\ call[c] \in [op : {"adopt"}, team : Teams, live : SUBSET Ids,
                          todo : SUBSET Ids, cur : 0..MaxIds]
          /\ \A k \in call[c].todo : k \in Ids /\ k <= nextId /\ k \in 1..n
      <4>1. call[c].op = "adopt" /\ n \in Ids /\ nextId' = n
        BY <1>d, <2>5 DEF AdoptNext
      <4>2. call[c] \in [op : {"adopt"}, team : Teams, live : SUBSET Ids,
                         todo : SUBSET Ids, cur : 0..MaxIds]
        BY <1>0, <4>1, CallShape
      <4> QED
        BY <1>0, <4>1, <4>2 DEF IdInv, CallsAreCurrent, Ids
    <3>2. PICK k \in call[c].todo :
            \/ /\ call' = [call EXCEPT ![c].todo = @ \ {k}]
               /\ UNCHANGED <<status, owner, waiter, specTask, phase>>
            \/ /\ status' = [status EXCEPT ![k] = "pending"]
               /\ specTask' = [specTask EXCEPT ![n] = k]
               /\ phase' = [phase EXCEPT ![n] = "dispatching"]
               /\ call' = [call EXCEPT ![c].todo = @ \ {k}, ![c].cur = n]
      BY <2>5 DEF AdoptNext
    <3> HIDE DEF n
    <3>3. CASE /\ call' = [call EXCEPT ![c].todo = @ \ {k}]
               /\ UNCHANGED <<status, owner, waiter, specTask, phase>>
      <4> DEFINE x == [call[c] EXCEPT !.todo = @ \ {k}]
      <4>1. x.op = "adopt" /\ x.todo \subseteq {j \in Ids : j <= nextId}
        BY <3>1
      <4>2. call' = [call EXCEPT ![c] = x]
        BY <3>3
      <4> HIDE DEF x
      <4> QED
        BY <1>b, <3>1, <3>3, <4>1, <4>2 DEF n
    <3>4. CASE /\ status' = [status EXCEPT ![k] = "pending"]
               /\ specTask' = [specTask EXCEPT ![n] = k]
               /\ phase' = [phase EXCEPT ![n] = "dispatching"]
               /\ call' = [call EXCEPT ![c].todo = @ \ {k}, ![c].cur = n]
      <4>1. \A j \in Ids : j > n => status'[j] = status[j]
        <5>1. \A j \in Ids : j > n => j # k
          BY <1>0, <3>1 DEF n
        <5> QED
          BY <1>0, <3>4, <5>1 DEF TypeOK
      <4>2. /\ FreshIds' /\ SpecsExist'
            /\ \A d \in Callers :
                  /\ call[d].op = "retire" => phase'[call[d].new] = "registered"
                  /\ call[d].op \in {"handoff", "retire"} => call[d].task <= n
                  /\ call[d].op = "adopt" => \A j \in call[d].todo : j <= n
        BY <1>c, <3>1, <3>4, <4>1 DEF n
      <4>3. /\ call'[c].op = "adopt" /\ call'[c].todo = call[c].todo \ {k}
            /\ \A d \in Callers \ {c} : call'[d] = call[d]
        BY <1>0, <3>1, <3>4 DEF TypeOK
      <4>4. CallsAreCurrent'
        <5> SUFFICES ASSUME NEW d \in Callers
                     PROVE  /\ call'[d].op \in {"handoff", "retire"} => call'[d].task <= n
                            /\ call'[d].op = "retire" => phase'[call'[d].new] = "registered"
                            /\ call'[d].op = "adopt" => \A j \in call'[d].todo : j <= n
          BY <3>1 DEF CallsAreCurrent
        <5>1. CASE d = c
          BY <3>1, <4>2, <4>3, <5>1
        <5>2. CASE d # c
          BY <4>2, <4>3, <5>2
        <5> QED
          BY <5>1, <5>2
      <4>5. HandoffsAreApart'
        BY <1>0, <4>3 DEF IdInv, HandoffsAreApart
      <4> QED
        BY <4>2, <4>4, <4>5 DEF IdInv
    <3> QED
      BY <3>2, <3>3, <3>4
  <2>6. CASE AdoptReturn(c)
    <3>1. call' = [call EXCEPT ![c] = Idle] /\ UNCHANGED <<nextId, phase, specTask, status>>
      BY <2>6 DEF AdoptReturn
    <3>2. Idle.op = "idle"
      BY DEF Idle
    <3> QED
      BY <1>b, <3>1, <3>2
  <2> QED
    BY <1>5, <2>1, <2>2, <2>3, <2>4, <2>5, <2>6 DEF CallerStep
<1>6. ASSUME \/ \E w \in Waiters, t \in Teams : Collect(w, t)
             \/ \E w \in Waiters : Scan(w) \/ CollectTimeout(w)
             \/ Close
             \/ UNCHANGED vars
      PROVE  IdInv'
  BY <1>a, <1>6 DEF Collect, Scan, CollectTimeout, Close, vars
<1> QED
  BY <1>1, <1>2, <1>3, <1>4, <1>5, <1>6 DEF Next

-----------------------------------------------------------------------------
(* The custodians and the collectors.                                      *)

\* Whatever a caller or a goroutine does next, a task that stays open keeps a
\* goroutine that will settle it: an id that is minted is fresh, a slot is handed on
\* with the spec at the head of the queue, and a goroutine that ends has made its
\* task terminal first.
LEMMA CustodianStep ==
  ASSUME IInv, OpenTasksHaveACustodian, [Next]_vars
  PROVE  OpenTasksHaveACustodian'
<1> USE DEF board, slots
<1>0. /\ TypeOK /\ nextId \in 0..MaxIds
      /\ \A k \in Ids : k > nextId => phase[k] = "none" /\ ~Custodian(k)
      /\ \A k \in Ids : Open(k) => \E m \in Ids : specTask[m] = k /\ Custodian(m)
  BY DEF IInv, TypeOK, IdInv, FreshIds, Custodian, OpenTasksHaveACustodian
<1>a. ASSUME specTask' = specTask,
             \A m \in Ids : Custodian(m) => Custodian(m)' \/ ~Open(specTask[m])',
             \A k \in Ids : Open(k)' => Open(k)
      PROVE  OpenTasksHaveACustodian'
  BY <1>0, <1>a DEF OpenTasksHaveACustodian, Ids
<1>b. ASSUME NEW n \in Ids, n = nextId + 1, NEW k \in Ids,
             specTask' = [specTask EXCEPT ![n] = k],
             NEW p \in {"registered", "dispatching"}, phase' = [phase EXCEPT ![n] = p],
             \A j \in Ids : j # k => (Open(j)' => Open(j))
      PROVE  OpenTasksHaveACustodian'
  <2>1. specTask'[n] = k /\ Custodian(n)'
    BY <1>0, <1>b DEF TypeOK, Custodian
  <2>2. \A m \in Ids : m # n => specTask'[m] = specTask[m] /\ (Custodian(m)' <=> Custodian(m))
    BY <1>0, <1>b DEF TypeOK, Custodian
  <2>3. ~Custodian(n)
    BY <1>0, <1>b
  <2> QED
    BY <1>0, <1>b, <2>1, <2>2, <2>3 DEF OpenTasksHaveACustodian, Ids
<1>c. ASSUME NEW k \in Ids, NEW s \in Terminal, SetStatus(k, s) \/ Finish(k, s)
      PROVE  ~Open(k)' /\ \A j \in Ids : Open(j)' => Open(j)
  BY ZenonT(60), <1>0, <1>c DEF SetStatus, Finish, Open, Terminal, TypeOK
<1>d. ASSUME NEW n \in Ids, n = nextId + 1, NEW t \in Teams, Register(n, t)
      PROVE  \A j \in Ids : j # n => (Open(j)' => Open(j))
  BY <1>0, <1>d DEF Register, Open, TypeOK
<1>1. ASSUME NEW t \in Teams, Spawn(t)
      PROVE  OpenTasksHaveACustodian'
  <2> DEFINE n == nextId + 1
  <2>1. n \in Ids /\ Register(n, t) /\ specTask' = [specTask EXCEPT ![n] = n] /\ phase' = [phase EXCEPT ![n] = "dispatching"]
    BY <1>0, <1>1 DEF Spawn, Ids
  <2> QED
    BY <1>b, <1>d, <2>1
<1>2. ASSUME NEW m \in Ids, CarrierStep(m) \/ MemberStep(m)
      PROVE  OpenTasksHaveACustodian'
  <2>0. phase[m] # "none" => specTask[m] \in Ids
    BY TeamOfSpec DEF IInv
  <2>1. CASE Admit(m) \/ Launch(m) \/ RemoveMember(m) \/ WatchRelaunch(m)
    <3>1. specTask' = specTask /\ status' = status
      BY <2>1 DEF Admit, Launch, RemoveMember, WatchRelaunch
    <3>2. \A j \in Ids : Custodian(j) => Custodian(j)'
      BY SMTT(60), <1>0, <2>1 DEF Admit, Launch, RemoveMember, WatchRelaunch, Custodian, TypeOK
    <3> QED
      BY <1>a, <3>1, <3>2 DEF Open
  <2>2. CASE LaunchFails(m) \/ \E outcome \in {"done", "failed"} : WatchRecord(m, outcome)
    <3>1. PICK s \in Terminal : Finish(specTask[m], s)
      BY <2>2 DEF LaunchFails, WatchRecord, Terminal
    <3>2. phase[m] # "none" /\ specTask' = specTask
      BY <2>2 DEF LaunchFails, WatchRecord
    <3>3. ~Open(specTask[m])' /\ \A j \in Ids : Open(j)' => Open(j)
      BY <1>c, <2>0, <3>1, <3>2
    <3>4. \A j \in Ids : j # m /\ Custodian(j) => Custodian(j)'
      BY SMTT(60), <1>0, <2>2 DEF LaunchFails, WatchRecord, Custodian, TypeOK
    <3> QED
      BY <1>a, <3>2, <3>3, <3>4
  <2>3. CASE MarkRunning(m)
    <3>1. phase[m] = "joined" /\ specTask' = specTask /\ SetStatus(specTask[m], "running") /\ phase' = [phase EXCEPT ![m] = "running"]
      BY <2>3 DEF MarkRunning
    <3>2. \A j \in Ids : Custodian(j) => Custodian(j)'
      BY <1>0, <3>1 DEF Custodian, TypeOK
    <3>3. Custodian(m)' /\ specTask'[m] = specTask[m]
      BY <1>0, <3>1 DEF Custodian, TypeOK
    <3>4. \A j \in Ids : j # specTask[m] => (Open(j)' => Open(j))
      BY <1>0, <2>0, <3>1, OneStatus DEF Open
    <3> QED
      BY <1>0, <3>1, <3>2, <3>3, <3>4 DEF OpenTasksHaveACustodian, Ids
  <2>4. CASE OnExit(m)
    <3>1. specTask' = specTask /\ status' = status /\ phase[m] = "leaving" /\ Team(m) \in Teams
      BY <2>4, TeamOfSpec DEF OnExit, IInv
    <3>2. CASE phase' = [phase EXCEPT ![m] = "gone"]
      <4>1. \A j \in Ids : Custodian(j) => Custodian(j)'
        BY SMTT(60), <1>0, <3>1, <3>2 DEF Custodian, TypeOK
      <4> QED
        BY <1>a, <3>1, <4>1 DEF Open
    <3>3. CASE queue[Team(m)] # <<>> /\ phase' = [phase EXCEPT ![m] = "gone", ![Head(queue[Team(m)])] = "launching"]
      <4>1. \A j \in Ids : Custodian(j) => Custodian(j)'
        BY ZenonT(60), <1>0, <3>1, <3>3 DEF Custodian, TypeOK
      <4> QED
        BY <1>a, <3>1, <4>1 DEF Open
    <3> QED
      BY <2>4, <3>2, <3>3 DEF OnExit
  <2> QED
    BY <1>2, <2>1, <2>2, <2>3, <2>4 DEF CarrierStep, MemberStep
<1>3. ASSUME NEW c \in Callers, HandoffRegister(c)
      PROVE  OpenTasksHaveACustodian'
  <2> DEFINE n == nextId + 1
  <2>1. /\ n \in Ids /\ Register(n, call[c].team) /\ call[c].team \in Teams
        /\ specTask' = [specTask EXCEPT ![n] = n] /\ phase' = [phase EXCEPT ![n] = "registered"]
    BY <1>0, <1>3, CallShape DEF HandoffRegister, Ids
  <2> QED
    BY <1>b, <1>d, <2>1
<1>4. ASSUME NEW c \in Callers, HandoffRetire(c)
      PROVE  OpenTasksHaveACustodian'
  <2>1. /\ call[c].task \in Ids /\ call[c].new \in Ids /\ specTask' = specTask
        /\ SetStatus(call[c].task, "handed-off") /\ phase' = [phase EXCEPT ![call[c].new] = "dispatching"]
    BY <1>0, <1>4, CallShape DEF HandoffRetire
  <2>2. \A j \in Ids : Custodian(j) => Custodian(j)'
    BY <1>0, <2>1 DEF Custodian, TypeOK
  <2>3. \A j \in Ids : Open(j)' => Open(j)
    BY <1>c, <2>1 DEF Terminal
  <2> QED
    BY <1>a, <2>1, <2>2, <2>3
<1>5. ASSUME NEW c \in Callers, AdoptNext(c)
      PROVE  OpenTasksHaveACustodian'
  <2> DEFINE n == nextId + 1
  <2>1. n \in Ids /\ call[c].todo \subseteq Ids
    BY <1>0, <1>5, CallShape DEF AdoptNext, Ids
  <2>2. CASE UNCHANGED <<status, specTask, phase>>
    BY <1>a, <2>2 DEF Open, Custodian
  <2>3. CASE \E k \in call[c].todo :
               /\ status' = [status EXCEPT ![k] = "pending"]
               /\ specTask' = [specTask EXCEPT ![n] = k]
               /\ phase' = [phase EXCEPT ![n] = "dispatching"]
    <3> PICK k \in call[c].todo : /\ status' = [status EXCEPT ![k] = "pending"]
                                  /\ specTask' = [specTask EXCEPT ![n] = k]
                                  /\ phase' = [phase EXCEPT ![n] = "dispatching"]
      BY <2>3
    <3>1. k \in Ids /\ \A j \in Ids : j # k => (Open(j)' => Open(j))
      BY <1>0, <2>1 DEF Open, TypeOK
    <3> QED
      BY <1>b, <2>1, <3>1
  <2> QED
    BY <1>5, <2>2, <2>3 DEF AdoptNext
<1>6. ASSUME UNCHANGED <<status, specTask, phase>>
      PROVE  OpenTasksHaveACustodian'
  BY <1>a, <1>6 DEF Open, Custodian
<1> QED
  BY <1>1, <1>2, <1>3, <1>4, <1>5, <1>6
     DEF Next, CallerStep, HandoffCheck, HandoffNoteFails, AdoptLive, AdoptList, AdoptReturn,
         Collect, Scan, CollectTimeout, Close, vars

\* Every change of a task wakes all that sleep, and what a scan finds it finds under
\* the lock that changes take.
LEMMA SettleStep ==
  ASSUME TypeOK, NoMissedSettle, [Next]_vars
  PROVE  NoMissedSettle'
<1> USE DEF board, slots
<1>a. ASSUME NotifyChange
      PROVE  NoMissedSettle'
  <2>1. \A w \in Waiters : waiter'[w].pc # "blocked"
    BY <1>a DEF TypeOK, Waiter, NotifyChange
  <2> QED
    BY <2>1 DEF NoMissedSettle
<1>b. ASSUME UNCHANGED <<status, taskTeam, waiter>>
      PROVE  NoMissedSettle'
  BY <1>b DEF NoMissedSettle, Settled, Open
<1>c. ASSUME NEW w \in Waiters, UNCHANGED <<status, taskTeam>>, NEW x, waiter' = [waiter EXCEPT ![w] = x],
             x.pc = "blocked" => ~Settled(x.team)
      PROVE  NoMissedSettle'
  <2>1. \A t : Settled(t)' <=> Settled(t)
    BY <1>c DEF Settled, Open
  <2>2. waiter'[w] = x /\ \A v \in Waiters : v # w => waiter'[v] = waiter[v]
    BY SMTT(60), <1>c DEF TypeOK
  <2> QED
    BY <1>c, <2>1, <2>2 DEF NoMissedSettle
<1>1. NotifyChange \/ UNCHANGED <<status, taskTeam, waiter>> \/ \E w \in Waiters :
         (\E t \in Teams : Collect(w, t)) \/ Scan(w) \/ CollectTimeout(w)
  BY ZenonT(60) DEF Next, vars, CarrierStep, MemberStep, CallerStep, Spawn, Register, Admit, Launch, LaunchFails,
         MarkRunning, RemoveMember, OnExit, WatchRelaunch, WatchRecord, HandoffCheck, AdoptLive,
         HandoffNoteFails, HandoffRegister, HandoffRetire, AdoptList, AdoptNext, AdoptReturn,
         SetStatus, Finish, Close
<1>2. ASSUME NEW w \in Waiters, NEW t \in Teams, Collect(w, t)
      PROVE  NoMissedSettle'
  BY <1>c, <1>2 DEF Collect
<1>3. ASSUME NEW w \in Waiters, Scan(w)
      PROVE  NoMissedSettle'
  <2> DEFINE x == [waiter[w] EXCEPT !.pc = IF Settled(waiter[w].team) THEN "idle" ELSE "blocked"]
  <2>1. waiter' = [waiter EXCEPT ![w] = x] /\ UNCHANGED <<status, taskTeam>>
    BY <1>3 DEF Scan
  <2>2. x.team = waiter[w].team /\ (x.pc = "blocked" => ~Settled(waiter[w].team))
    BY DEF TypeOK, Waiter
  <2> QED
    BY <1>c, <2>1, <2>2
<1>4. ASSUME NEW w \in Waiters, CollectTimeout(w)
      PROVE  NoMissedSettle'
  <2> DEFINE x == [waiter[w] EXCEPT !.pc = "idle"]
  <2>1. waiter' = [waiter EXCEPT ![w] = x] /\ UNCHANGED <<status, taskTeam>>
    BY <1>4 DEF CollectTimeout
  <2>2. x.pc = "idle"
    BY DEF TypeOK, Waiter
  <2> QED
    BY <1>c, <2>1, <2>2
<1> QED
  BY <1>1, <1>a, <1>b, <1>2, <1>3, <1>4

-----------------------------------------------------------------------------
(* The teams as leases.                                                    *)

\* The instance counts as this module does.
LEMMA SameCardinality ==
  ASSUME NEW t
  PROVE  Lease(t)!Cardinality(Holders(t)) = Cardinality(Holders(t))
BY DEF Lease!Cardinality, Cardinality

\* A critical section of the slots is a step of the lease of its team.
LEMMA LeaseStep ==
  ASSUME IInv, NEW t \in Teams, NEW m \in Ids, Team(m) = t, Admit(m) \/ OnExit(m)
  PROVE  Lease(t)!Next
<1>0. /\ TypeOK /\ Holders(t) = {n \in Ids : phase[n] \in HoldsSlot /\ Team(n) = t}
      /\ Holders(t)' = {n \in Ids : phase'[n] \in HoldsSlot /\ Team(n) = t}
  BY DEF IInv, Holders, Ids, Team, Admit, OnExit, board
<1>1. /\ Cardinality(Holders(t)) = running[t] /\ running[t] \in 0..MaxTeamSize
      /\ queue[t] # <<>> => running[t] = MaxTeamSize
  BY <1>0 DEF IInv, SlotsAreSound, SlotAccounting, NoStrandedQueue, TypeOK
<1>2. CASE Admit(m) /\ running[t] < MaxTeamSize
  <2>1. /\ m \notin Holders(t) /\ queue' = queue /\ queue[t] = <<>>
        /\ phase' = [phase EXCEPT ![m] = "launching"]
    BY <1>0, <1>1, <1>2 DEF Admit, HoldsSlot
  <2>2. Holders(t)' = Holders(t) \cup {m}
    BY SMTT(60), <1>0, <2>1 DEF HoldsSlot, TypeOK
  <2>3. Lease(t)!Take(m)
    BY <1>1, <1>2, <2>1, <2>2, SameCardinality DEF Lease!Take
  <2> QED
    BY <2>3 DEF Lease!Next
<1>3. CASE Admit(m) /\ running[t] >= MaxTeamSize
  <2>1. /\ m \notin Holders(t) /\ queue' = [queue EXCEPT ![t] = Append(@, m)] /\ running[t] = MaxTeamSize
        /\ phase' = [phase EXCEPT ![m] = "queued"] /\ phase[m] = "dispatching"
    BY <1>0, <1>1, <1>3 DEF Admit, HoldsSlot
  <2>2. Holders(t)' = Holders(t)
    BY <1>0, <2>1 DEF HoldsSlot, TypeOK
  <2>3. ~Lease(t)!InLine(m)
    BY <2>1, QueueFacts DEF Lease!InLine
  <2>4. Lease(t)!Wait(m)
    BY <1>0, <1>1, <2>1, <2>2, <2>3, SameCardinality DEF Lease!Wait, TypeOK
  <2> QED
    BY <2>4 DEF Lease!Next
<1>4. CASE OnExit(m) /\ queue[t] # <<>>
  <2>1. /\ m \in Holders(t) /\ running[t] > 0 /\ running[t] = MaxTeamSize /\ MaxTeamSize - 1 < MaxTeamSize
    BY <1>0, <1>1, <1>4 DEF OnExit, HoldsSlot
  <2>2. /\ queue' = [queue EXCEPT ![t] = Tail(@)]
        /\ phase' = [phase EXCEPT ![m] = "gone", ![Head(queue[t])] = "launching"]
    BY <1>4, <2>1 DEF OnExit
  <2>3. Head(queue[t]) \in Ids /\ Head(queue[t]) = queue[t][1] /\ 1 \in DOMAIN queue[t]
    BY <1>4, QueueFacts, HeadTail
  <2>4. Team(Head(queue[t])) = t /\ phase[Head(queue[t])] = "queued" /\ Head(queue[t]) # m
    BY <1>4, <2>3, QueueFacts DEF OnExit
  <2>5. Holders(t)' = (Holders(t) \ {m}) \cup {Head(queue[t])}
    BY ZenonT(60), <1>0, <2>2, <2>3, <2>4 DEF HoldsSlot, TypeOK
  <2> QED
    BY <1>0, <1>4, <2>1, <2>2, <2>5 DEF Lease!Next, Lease!Return, TypeOK
<1>5. CASE OnExit(m) /\ queue[t] = <<>>
  <2>1. m \in Holders(t) /\ queue' = queue /\ phase' = [phase EXCEPT ![m] = "gone"]
    BY <1>0, <1>5 DEF OnExit, HoldsSlot
  <2>2. Holders(t)' = Holders(t) \ {m}
    BY <1>0, <2>1 DEF HoldsSlot, TypeOK
  <2> QED
    BY <1>5, <2>1, <2>2 DEF Lease!Next, Lease!Return
<1> QED
  BY <1>1, <1>2, <1>3, <1>4, <1>5

\* ... and of no other.
LEMMA OtherTeamsRest ==
  ASSUME IInv, NEW t \in Teams, NEW m \in Ids, Team(m) # t, Admit(m) \/ OnExit(m)
  PROVE  UNCHANGED <<Holders(t), queue[t]>>
<1>0. TypeOK /\ Team(m) \in Teams /\ \A n \in Ids : Team(n)' = Team(n)
  BY TeamOfSpec DEF IInv, Admit, OnExit, Team, board
<1>1. queue'[t] = queue[t]
  BY <1>0 DEF Admit, OnExit, TypeOK
<1>2. CASE queue[Team(m)] = <<>> \/ Admit(m)
  <2>1. PICK p \in {"launching", "queued", "gone"} : phase' = [phase EXCEPT ![m] = p]
    BY <1>2 DEF Admit, OnExit
  <2> QED
    BY <1>0, <1>1, <2>1 DEF Holders, Ids, TypeOK
<1>3. CASE queue[Team(m)] # <<>> /\ OnExit(m)
  <2> DEFINE h == Head(queue[Team(m)])
  <2>1. h \in Ids /\ Team(h) = Team(m)
    BY <1>0, <1>3, QueueFacts, HeadTail
  <2>2. phase' = [phase EXCEPT ![m] = "gone"] \/ phase' = [phase EXCEPT ![m] = "gone", ![h] = "launching"]
    BY <1>3 DEF OnExit
  <2> HIDE DEF h
  <2> QED
    BY ZenonT(60), <1>0, <1>1, <2>1, <2>2 DEF Holders, Ids, TypeOK
<1> QED
  BY <1>2, <1>3

-----------------------------------------------------------------------------
(* The theorems.                                                           *)

\* IInv holds initially.
LEMMA InitIInv == Init => IInv
<1> SUFFICES ASSUME Init PROVE IInv
  OBVIOUS
<1>1. TypeOK
  BY InitTypeOK
<1>2. IdInv
  BY DEF Init, IdInv, FreshIds, SpecsExist, CallsAreCurrent, HandoffsAreApart, Idle
<1>3. SlotAccounting
  <2>1. \A t \in Teams : Holders(t) = {}
    BY DEF Init, Holders, HoldsSlot
  <2> QED
    BY <2>1, FS_EmptySet DEF Init, SlotAccounting
<1>4. NoStrandedQueue /\ QueueIsWaiting
  BY DEF Init, NoStrandedQueue, QueueIsWaiting
<1> QED
  BY <1>1, <1>2, <1>3, <1>4 DEF IInv, SlotsAreSound

\* IInv is an invariant.
THEOREM Invariance == Spec => []IInv
<1>1. IInv /\ [Next]_vars => IInv'
  BY TypeStep, IdStep, SlotStep DEF IInv
<1> QED
  BY InitIInv, <1>1, PTL DEF Spec

\* Every variable keeps its type, whatever the interleaving of goroutines.
THEOREM TypeCorrect == Spec => []TypeOK
BY Invariance, PTL DEF IInv

\* The slot counter of a team is the number of its specs that hold a slot, its
\* queue lists each of its waiting specs once, and a spec waits only while every
\* slot is taken: no launch failure, relaunch, handoff or adoption leaks,
\* invents or hoards a slot.
THEOREM SlotsStaySound == Spec => []SlotsAreSound
BY Invariance, PTL DEF IInv, SlotsAreSound

\* No step takes a task out of a terminal status.
THEOREM TerminalStaysFinal == Spec => TerminalIsFinal
<1>1. IInv /\ [Next]_vars => \A k \in Ids : status[k] \in Terminal => status'[k] = status[k]
  <2> SUFFICES ASSUME IInv, [Next]_vars, NEW k \in Ids, status[k] \in Terminal
               PROVE  status'[k] = status[k]
    OBVIOUS
  <2> USE DEF board, slots
  <2>0. TypeOK /\ status[k] # "unknown"
    BY DEF IInv, Terminal
  <2>1. ASSUME NEW j, NEW s, SetStatus(j, s) \/ Finish(j, s)
        PROVE  status'[k] = status[k]
    BY <2>0, <2>1 DEF SetStatus, Finish, TypeOK
  <2>2. ASSUME NEW t \in Teams, Register(nextId + 1, t)
        PROVE  status'[k] = status[k]
    BY <2>0, <2>2 DEF Register, IInv, IdInv, FreshIds, TypeOK, Ids
  <2>3. ASSUME NEW c \in Callers, AdoptNext(c)
        PROVE  status'[k] = status[k]
    BY SMTT(60), <2>0, <2>3 DEF AdoptNext, TypeOK
  <2>4. ASSUME NEW c \in Callers, HandoffRegister(c)
        PROVE  status'[k] = status[k]
    BY <2>0, <2>2, <2>4, CallShape DEF HandoffRegister
  <2>5. CASE UNCHANGED status
    BY <2>5
  <2>6. \/ UNCHANGED status
        \/ \E j, s : SetStatus(j, s) \/ Finish(j, s)
        \/ \E t \in Teams : Register(nextId + 1, t)
        \/ \E c \in Callers : AdoptNext(c) \/ HandoffRegister(c)
    BY DEF Next, vars, CarrierStep, MemberStep, CallerStep, Spawn, Admit, Launch, LaunchFails,
           MarkRunning, RemoveMember, OnExit, WatchRelaunch, WatchRecord, HandoffCheck, AdoptLive,
           HandoffNoteFails, HandoffRetire, AdoptList, AdoptReturn, Collect, Scan,
           CollectTimeout, Close
  <2> QED
    BY <2>1, <2>2, <2>3, <2>4, <2>5, <2>6
<1> QED
  BY Invariance, <1>1, PTL DEF Spec, TerminalIsFinal

\* Whatever goroutines and callers there are: a task that is open has a goroutine on
\* its way to settle it (Spawn, Handoff, AdoptOrphans and afterExit, lifecycle.go).
THEOREM NoTaskIsForgotten == Spec => []OpenTasksHaveACustodian
<1>1. Init => OpenTasksHaveACustodian
  BY DEF Init, OpenTasksHaveACustodian, Open
<1>2. IInv /\ OpenTasksHaveACustodian /\ [Next]_vars => OpenTasksHaveACustodian'
  BY CustodianStep
<1> QED
  BY <1>1, <1>2, Invariance, PTL DEF Spec

\* A collector that sleeps has something to wait for, however many there are:
\* WaitSettled takes the channel and the snapshot under one lock (coordinator.go).
THEOREM NoSettleIsMissed == Spec => []NoMissedSettle
<1>1. Init => NoMissedSettle
  BY DEF Init, NoMissedSettle
<1>2. TypeOK /\ NoMissedSettle /\ [Next]_vars => NoMissedSettle'
  BY SettleStep
<1> QED
  BY <1>1, <1>2, TypeCorrect, PTL DEF Spec

\* admit and onExit (team.go) implement the bounded lease in every team at once.
THEOREM EveryTeamIsALease == Spec => TeamsAreLeases
<1>1. Init => \A t \in Teams : Lease(t)!Init
  BY DEF Init, Lease!Init, Holders, HoldsSlot
<1>2. ASSUME IInv, [Next]_vars
      PROVE  \A t \in Teams : [Lease(t)!Next]_(Lease(t)!vars)
  <2> SUFFICES ASSUME NEW t \in Teams
               PROVE  [Lease(t)!Next]_(Lease(t)!vars)
    OBVIOUS
  <2>1. CASE SlotsStay
    <3>1. UNCHANGED <<Holders(t), queue[t]>>
      BY <1>2, <2>1, SlotFrame DEF IInv, SlotsStay
    <3> QED
      BY <3>1 DEF Lease!vars
  <2>2. ASSUME NEW m \in Ids, Admit(m) \/ OnExit(m), Team(m) = t
        PROVE  [Lease(t)!Next]_(Lease(t)!vars)
    BY <1>2, <2>2, LeaseStep
  <2>3. ASSUME NEW m \in Ids, Admit(m) \/ OnExit(m), Team(m) # t
        PROVE  [Lease(t)!Next]_(Lease(t)!vars)
    <3>1. UNCHANGED <<Holders(t), queue[t]>>
      BY <1>2, <2>3, OtherTeamsRest
    <3> QED
      BY <3>1 DEF Lease!vars
  <2> QED
    BY <1>2, <2>1, <2>2, <2>3, SlotsMove
<1>3. ASSUME IInv, [Next]_vars
      PROVE  [\A t \in Teams : [Lease(t)!Next]_(Lease(t)!vars)]_vars
  BY <1>2, <1>3
<1> QED
  BY <1>1, <1>3, Invariance, PTL DEF Spec, TeamsAreLeases
=============================================================================
