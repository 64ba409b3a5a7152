---------------------------- MODULE BoundedLease ----------------------------
(***************************************************************************)
(* What a bounded pool promises, whatever it runs: at most Capacity        *)
(* clients hold a lease, a client waits only while every lease is out,     *)
(* leases go to the waiting clients in the order they came, and nobody     *)
(* overtakes the line.  The worker pool of the daemon and every team of    *)
(* the swarm implement it.                                                 *)
(***************************************************************************)
EXTENDS Naturals, Sequences, FiniteSets

CONSTANTS Clients, Capacity

VARIABLES holders,  \* the clients that hold a lease
          line      \* the clients that wait, in order of arrival

vars == <<holders, line>>

InLine(c) == \E i \in DOMAIN line : line[i] = c

Init == holders = {} /\ line = <<>>

Take(c) ==
    /\ c \notin holders /\ line = <<>>
    /\ Cardinality(holders) < Capacity
    /\ holders' = holders \cup {c}
    /\ UNCHANGED line

Wait(c) ==
    /\ c \notin holders /\ ~InLine(c)
    /\ Cardinality(holders) = Capacity
    /\ line' = Append(line, c)
    /\ UNCHANGED holders

\* A lease given back goes to the head of the line, if there is one.
Return(c) ==
    /\ c \in holders
    /\ \/ /\ line # <<>>
          /\ holders' = (holders \ {c}) \cup {Head(line)}
          /\ line' = Tail(line)
       \/ /\ line = <<>>
          /\ holders' = holders \ {c}
          /\ UNCHANGED line

\* Everybody who waits is sent away at once.
Dismiss ==
    /\ line' = <<>>
    /\ UNCHANGED holders

Next ==
    \/ \E c \in Clients : Take(c) \/ Wait(c) \/ Return(c)
    \/ Dismiss

Spec == Init /\ [][Next]_vars
=============================================================================
