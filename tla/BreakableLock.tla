---------------------------- MODULE BreakableLock ----------------------------
(***************************************************************************)
(* What the lock files of internal/cron, internal/hooks and internal/oauth *)
(* promise, without code of its own: one holder at a time, until a reclaim *)
(* has moved a file that was not stale aside.  From then on others may     *)
(* enter.  TokenLock implements it; OAuthTokens is built on it.            *)
(***************************************************************************)
CONSTANT Users  \* whoever takes the lock

VARIABLES holders,  \* those between taking the lock and letting go of it
          broken    \* a live lock file has been moved aside

LockInit == holders = {} /\ broken = FALSE

Take(u) ==
    /\ u \notin holders
    /\ holders = {} \/ broken
    /\ holders' = holders \cup {u}
    /\ UNCHANGED broken

\* A release, or the death of the holder.
Drop(u) ==
    /\ u \in holders
    /\ holders' = holders \ {u}
    /\ UNCHANGED broken

Break ==
    /\ broken' = TRUE
    /\ UNCHANGED holders

LockNext == Break \/ \E u \in Users : Take(u) \/ Drop(u)

LockSpec == LockInit /\ [][LockNext]_<<holders, broken>>
==============================================================================
