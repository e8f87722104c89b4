------------------------------ MODULE LeaderLock ------------------------------
(***************************************************************************)
(* What the leader election promises the rest of the daemon: leadership is *)
(* a lock.  It is taken by one claim at a time, only the daemon that holds *)
(* it may act as the leader, it is never passed on without having been     *)
(* free, and nobody acts as the leader once it is free.  How daemons come  *)
(* to hold it, and how they learn that they lost it, is left open.         *)
(*                                                                         *)
(* owner         the claim that holds the lock, or None                    *)
(* leading       the daemons that act as the leader with a valid lease     *)
(***************************************************************************)
CONSTANTS
    Claim,      \* records with a field node: the daemon, and one attempt of it
    None

VARIABLES owner, leading

vars == <<owner, leading>>

Init == owner = None /\ leading = {}

\* A claim takes a lock that is free.
Acquire(c) ==
    /\ owner = None
    /\ owner' = c
    /\ UNCHANGED leading

\* The daemon that holds it begins to act as the leader.
Lead ==
    /\ owner # None /\ leading = {}
    /\ leading' = {owner.node}
    /\ UNCHANGED owner

\* A leader ceases to act as one, with the lock still taken: nobody else can
\* become the leader before it is freed.
Retire ==
    /\ leading # {}
    /\ leading' = {}
    /\ UNCHANGED owner

\* The lock is freed, under a leader or after it.
Free ==
    /\ owner # None
    /\ owner' = None
    /\ leading' = {}

Next == Lead \/ Retire \/ Free \/ \E c \in Claim : Acquire(c)

Spec == Init /\ [][Next]_vars

=============================================================================
