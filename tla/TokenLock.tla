----------------------------- MODULE TokenLock -----------------------------
(***************************************************************************)
(* The cross-process lock file of internal/cron/lock.go, shared in form by *)
(* internal/hooks/lock.go and internal/oauth/lock.go: an exclusive create, *)
(* a token written into the file, a release that removes the file only if  *)
(* it still has the token, and the reclaim of a file that is older than    *)
(* any hold by internal/lockutil/reclaim.go: rename it aside, look at it   *)
(* again, remove it or put it back.                                        *)
(*                                                                         *)
(* One action is one system call.  A file is named by the acquisition that *)
(* created it, <<p, k>> for the k-th of process p, and stays the same file *)
(* through a rename; Crashed is a file left by a holder that died.         *)
(***************************************************************************)
EXTENDS Naturals, FiniteSets

CONSTANTS Procs,        \* the acquirers: processes, or goroutines of one
          MaxAcquires,  \* bound on the acquisitions of each
          MaxCrashes,   \* bound on the processes that die
          DiskMayFail   \* whether a write or a rename back may fail

ASSUME TokenLockAssumption ==
    /\ MaxAcquires \in Nat
    /\ MaxCrashes \in Nat
    /\ DiskMayFail \in BOOLEAN

None == <<>>
Crashed == <<"crashed">>
Files == {Crashed} \cup (Procs \X (1..MaxAcquires))

VARIABLES
    pc,        \* where each acquirer is in lockJob, its section, or the release
    tries,     \* the acquisitions it has begun
    atPath,    \* the file that the lock path names
    aside,     \* the file under each acquirer's "<path>.stale.<token>"
    old,       \* the files older than the stale threshold
    displaced  \* auxiliary: a file that was not old has been renamed aside

vars == <<pc, tries, atPath, aside, old, displaced>>

Own(p) == <<p, tries[p]>>

Acquiring == {"create", "stat", "rename", "inspect", "restore", "link", "wait"}
InUse == {"write", "hold", "check", "remove"}

\* Type invariant of the acquirers, and of the file at the lock path and the
\* files moved aside.
TypeOK ==
    /\ pc \in [Procs -> {"idle", "dead"} \cup Acquiring \cup InUse]
    /\ tries \in [Procs -> 0..MaxAcquires]
    /\ atPath \in Files \cup {None}
    /\ aside \in [Procs -> Files \cup {None}]
    /\ old \subseteq Files
    /\ displaced \in BOOLEAN

\* The path is free, or names what a crashed holder left behind.
Init ==
    /\ pc = [p \in Procs |-> "idle"]
    /\ tries = [p \in Procs |-> 0]
    /\ atPath \in {None, Crashed}
    /\ aside = [p \in Procs |-> None]
    /\ old = {}
    /\ displaced = FALSE

Using(f) == \E p \in Procs : f = Own(p) /\ pc[p] \in InUse

Go(p, to) == pc' = [pc EXCEPT ![p] = to]

-----------------------------------------------------------------------------
(* lockJob.                                                                *)

Begin(p) ==
    /\ pc[p] = "idle" /\ tries[p] < MaxAcquires
    /\ tries' = [tries EXCEPT ![p] = @ + 1]
    /\ Go(p, "create")
    /\ UNCHANGED <<atPath, aside, old, displaced>>

\* The O_EXCL create.
Create(p) ==
    /\ pc[p] = "create"
    /\ \/ /\ atPath = None
          /\ atPath' = Own(p)
          /\ Go(p, "write")
       \/ /\ atPath # None
          /\ Go(p, "stat")
          /\ UNCHANGED atPath
    /\ UNCHANGED <<tries, aside, old, displaced>>

\* The token goes through the descriptor, wherever the file is by now.
WriteToken(p) ==
    /\ pc[p] = "write"
    /\ Go(p, "hold")
    /\ UNCHANGED <<tries, atPath, aside, old, displaced>>

\* A failed write gives up and removes the lock path.
WriteFails(p) ==
    /\ pc[p] = "write" /\ DiskMayFail
    /\ atPath' = None
    /\ Go(p, "idle")
    /\ UNCHANGED <<tries, aside, old, displaced>>

\* Only an old file is worth a reclaim.
Stat(p) ==
    /\ pc[p] = "stat"
    /\ \/ atPath \in old /\ Go(p, "rename")
       \/ atPath \notin old /\ Go(p, "wait")
    /\ UNCHANGED <<tries, atPath, aside, old, displaced>>

\* The deadline is looked at after every pass that did not clear the path.
TimeOut(p) ==
    /\ pc[p] = "wait"
    /\ Go(p, "idle")
    /\ UNCHANGED <<tries, atPath, aside, old, displaced>>

Retry(p) ==
    /\ pc[p] = "wait"
    /\ Go(p, "create")
    /\ UNCHANGED <<tries, atPath, aside, old, displaced>>

-----------------------------------------------------------------------------
(* ReclaimStaleLock.                                                       *)

RemoveBlindly(p) ==
    /\ pc[p] = "rename"
    /\ atPath' = None
    /\ Go(p, "create")
    /\ UNCHANGED <<tries, aside, old, displaced>>

RenameAside(p) ==
    /\ pc[p] = "rename"
    /\ \/ /\ atPath = None
          /\ Go(p, "wait")
          /\ UNCHANGED <<atPath, aside, displaced>>
       \/ /\ atPath # None
          /\ aside' = [aside EXCEPT ![p] = atPath]
          /\ atPath' = None
          /\ displaced' = (displaced \/ atPath \notin old)
          /\ Go(p, "inspect")
    /\ UNCHANGED <<tries, old>>

InspectRestoresAll(p) ==
    /\ pc[p] = "inspect"
    /\ Go(p, "restore")
    /\ UNCHANGED <<tries, atPath, aside, old, displaced>>

\* isLive on the moved file: an old one is removed for good.
Inspect(p) ==
    /\ pc[p] = "inspect"
    /\ \/ /\ aside[p] \in old
          /\ aside' = [aside EXCEPT ![p] = None]
          /\ Go(p, "create")
       \/ /\ aside[p] \notin old
          /\ Go(p, "restore")
          /\ UNCHANGED aside
    /\ UNCHANGED <<tries, atPath, old, displaced>>

\* restoreLiveLock: the rename back replaces whatever is at the path.
Restore(p) ==
    /\ pc[p] = "restore"
    /\ \/ /\ atPath' = aside[p]
          /\ aside' = [aside EXCEPT ![p] = None]
          /\ Go(p, "wait")
       \/ /\ DiskMayFail
          /\ Go(p, "link")
          /\ UNCHANGED <<atPath, aside>>
    /\ UNCHANGED <<tries, old, displaced>>

\* RestoreLockFile after a failed rename never replaces; the moved file goes in
\* every case, and a failure other than an occupied path fails the acquirer.
RestoreByLink(p) ==
    /\ pc[p] = "link"
    /\ aside' = [aside EXCEPT ![p] = None]
    /\ \/ /\ atPath = None
          /\ atPath' = aside[p]
          /\ Go(p, "wait")
       \/ /\ atPath # None
          /\ Go(p, "wait")
          /\ UNCHANGED atPath
       \/ /\ Go(p, "idle")
          /\ UNCHANGED atPath
    /\ UNCHANGED <<tries, old, displaced>>

-----------------------------------------------------------------------------
(* The critical section and the release.                                   *)

Leave(p) ==
    /\ pc[p] = "hold"
    /\ Go(p, "check")
    /\ UNCHANGED <<tries, atPath, aside, old, displaced>>

CheckToken(p) ==
    /\ pc[p] = "check"
    /\ \/ atPath = Own(p) /\ Go(p, "remove")
       \/ atPath # Own(p) /\ Go(p, "idle")
    /\ UNCHANGED <<tries, atPath, aside, old, displaced>>

Remove(p) ==
    /\ pc[p] = "remove"
    /\ atPath' = None
    /\ Go(p, "idle")
    /\ UNCHANGED <<tries, aside, old, displaced>>

-----------------------------------------------------------------------------
(* Time and crashes.                                                       *)

\* A hold is short against the stale threshold, so a file grows old only when
\* nobody uses it any more.
GrowOld ==
    \E f \in Files \ old :
       /\ f = atPath \/ \E p \in Procs : f = aside[p]
       /\ ~Using(f)
       /\ old' = old \cup {f}
       /\ UNCHANGED <<pc, tries, atPath, aside, displaced>>

Crash(p) ==
    /\ pc[p] \notin {"idle", "dead"}
    /\ Cardinality({q \in Procs : pc[q] = "dead"}) < MaxCrashes
    /\ Go(p, "dead")
    /\ UNCHANGED <<tries, atPath, aside, old, displaced>>

-----------------------------------------------------------------------------

Acquire(p) ==
    \/ Create(p) \/ WriteToken(p) \/ Stat(p) \/ Retry(p)
    \/ RenameAside(p) \/ Inspect(p) \/ Restore(p) \/ RestoreByLink(p)

Release(p) == Leave(p) \/ CheckToken(p) \/ Remove(p)

Next ==
    \/ \E p \in Procs : Begin(p) \/ Acquire(p) \/ WriteFails(p) \/ TimeOut(p) \/ Release(p) \/ Crash(p)
    \/ GrowOld

Spec == Init /\ [][Next]_vars

\* Acquirers run on, holders release, and what nobody uses grows old.
FairSpec ==
    /\ Spec
    /\ \A p \in Procs : WF_vars(Acquire(p) \/ Release(p))
    /\ WF_vars(GrowOld)

-----------------------------------------------------------------------------
(* Safety.                                                                 *)

\* Two acquirers that both find a crashed holder's file never both end up with
\* the lock: until a file that was not old is renamed aside, the lock excludes,
\* from the create to the end of the release (BreakableLock).
Lock == INSTANCE BreakableLock
            WITH Users <- Procs, holders <- {p \in Procs : pc[p] \in InUse}, broken <- displaced
LockExcludes == Lock!LockSpec

\* Under the same proviso a holder finds its own file at the path, up to and
\* including its removal; a failed write of another cannot have removed it.
OwnerIsAtPath ==
    ~displaced => \A p \in Procs : pc[p] \in InUse => atPath = Own(p)

\* "a live lock is never deleted out from under its holder": what a reclaim
\* removes for good is never in use, displaced or not.
StolenLocksAreDead ==
    [][\A p \in Procs :
          pc[p] = "inspect" /\ aside[p] # None /\ aside'[p] = None => ~Using(aside[p])]_vars

\* All of it: whoever the reclaim lets in is alone and owns the file at the
\* path, and what it removes is dead.
ReclaimIsSafe == LockExcludes /\ [](TypeOK /\ OwnerIsAtPath) /\ StolenLocksAreDead

-----------------------------------------------------------------------------
(* Claims of the comments that the interleavings refute.                   *)

\* At most one process holds the lock of a cron job (lock.go: "so a live lock is
\* never deleted out from under its holder").
MutualExclusion == Cardinality({p \in Procs : pc[p] = "hold"}) <= 1

\* "Release is ownership-aware: it removes the lock only if it still holds our
\* token" (oauth/lock.go).
ReleaseSparesOthers ==
    \A p \in Procs : pc[p] = "remove" => atPath \in {None, Own(p)}

\* "The lock file is removed on release" (cron/lock.go): what is at the path
\* belongs to somebody who uses it or has died.
ReleaseRemovesTheLock ==
    atPath \in {None, Crashed} \/ \E p \in Procs :
        atPath = Own(p) /\ pc[p] \in InUse \cup {"dead"}

-----------------------------------------------------------------------------
(* Liveness.                                                               *)

\* Under FairSpec: "so a crashed holder cannot deadlock the store".
CrashedHolderIsReplaced ==
    (\E p \in Procs : pc[p] \in Acquiring) ~>
        (\E p \in Procs : pc[p] = "hold") \/ \A p \in Procs : pc[p] \notin Acquiring
=============================================================================
