------------------------ MODULE LeaderElectionProofs ------------------------
(***************************************************************************)
(* Proofs about LeaderElection, for every set of daemons and of leases and *)
(* every bound on the faults.                                              *)
(*                                                                         *)
(* FencedLeader is not inductive: it says nothing of a daemon whose        *)
(* put_if_absent has succeeded in etcd and whose answer is still on its    *)
(* way (pc = "won"), nor of where is_leader may be true.  IInv adds both,  *)
(* and that the key never outlives its lease.                              *)
(***************************************************************************)
EXTENDS LeaderElection, TLAPS

\* is_leader is set only between the success of put_if_absent and the end of
\* _hold_leadership.
LeaderHolds == \A n \in Node : is_leader[n] => pc[n] = "hold"

\* From the moment etcd created the key, and as long as the lease lives, the
\* key is that claim.
HeldClaim ==
    \A n \in Node :
       pc[n] \in {"won", "hold"} /\ lease_id[n] \in live => leaderKey = MyClaim(n)

\* An elector that races or holds was granted a lease.
HasLease ==
    \A n \in Node : pc[n] \in {"race", "won", "hold"} => lease_id[n] \in LeaseId

IInv == TypeOK /\ HasLease /\ KeyIsLive /\ LeaderHolds /\ HeldClaim

-----------------------------------------------------------------------------
\* What revoking or expiring a lease does to the type of etcd's state.
LEMMA KillLeaseType ==
    ASSUME TypeOK, NEW l, KillLease(l)
    PROVE  /\ live' \in SUBSET LeaseId
           /\ leaderKey' \in Claim \cup {NoKey}
           /\ wake' \in [Node -> BOOLEAN]
  BY DEF KillLease, KeyWithout, WakeWithout, TypeOK

\* The budget operators keep the counters within their bounds.
LEMMA BudgetType ==
    ASSUME TypeOK
    PROVE  /\ Drop => exits' \in 0..MaxExits /\ drops' \in 0..MaxDrops
                        /\ steps' \in 0..MaxSteps
           /\ Exit => exits' \in 0..MaxExits /\ drops' \in 0..MaxDrops
                        /\ steps' \in 0..MaxSteps
           /\ UNCHANGED budget => exits' \in 0..MaxExits /\ drops' \in 0..MaxDrops
                        /\ steps' \in 0..MaxSteps
  BY BoundAssumption DEF TypeOK, Drop, Exit, budget

\* A transaction left behind is a claim of a daemon under the lease it was
\* granted.
LEMMA OrphanedType ==
    ASSUME TypeOK, HasLease, NEW n \in Node
    PROVE  Orphaned(n) \in SUBSET Claim
  BY DEF TypeOK, HasLease, Orphaned, MyClaim, Claim

-----------------------------------------------------------------------------
(* Type correctness *)

\* One step of the specification keeps the type invariant.
LEMMA TypeStep ==
    TypeOK /\ HasLease /\ [Next]_vars => (TypeOK /\ HasLease)'
  <1> SUFFICES ASSUME TypeOK, HasLease, [Next]_vars
               PROVE  (TypeOK /\ HasLease)'
    OBVIOUS
  <1> USE LeaseAssumption, BoundAssumption
  <1>1. ASSUME NEW n \in Node, CycleGrant(n) PROVE (TypeOK /\ HasLease)'
    BY <1>1 DEF TypeOK, HasLease, PC, GoTo, elector, handlers, etcd, budget, CycleGrant
  <1>2. ASSUME NEW n \in Node, CycleCooldown(n) PROVE (TypeOK /\ HasLease)'
    BY <1>2 DEF TypeOK, HasLease, PC, GoTo, elector, handlers, etcd, budget,
       CycleCooldown
  <1>3. ASSUME NEW n \in Node, RaceTxn(n) PROVE (TypeOK /\ HasLease)'
    BY <1>3 DEF TypeOK, HasLease, PC, GoTo, elector, handlers, etcd, budget,
       RaceTxn, PutIfAbsent, KeyAbsent, MyClaim, Claim
  <1>4. ASSUME NEW n \in Node, RaceWon(n) PROVE (TypeOK /\ HasLease)'
    BY <1>4 DEF TypeOK, HasLease, PC, GoTo, elector, handlers, etcd, budget, RaceWon
  <1>5. ASSUME NEW n \in Node, FollowerGet(n) PROVE (TypeOK /\ HasLease)'
    BY <1>5 DEF TypeOK, HasLease, PC, GoTo, elector, handlers, etcd, budget, FollowerGet
  <1>6. ASSUME NEW n \in Node, WatchOpen(n) PROVE (TypeOK /\ HasLease)'
    BY <1>6 DEF TypeOK, HasLease, PC, GoTo, elector, handlers, etcd, budget, WatchOpen
  <1>7. ASSUME NEW n \in Node, WatchDelete(n) PROVE (TypeOK /\ HasLease)'
    BY <1>7 DEF TypeOK, HasLease, PC, GoTo, elector, handlers, etcd, budget, WatchDelete
  <1>8. ASSUME NEW n \in Node, KeepaliveExpired(n) PROVE (TypeOK /\ HasLease)'
    BY <1>8 DEF TypeOK, HasLease, PC, GoTo, elector, handlers, etcd, budget,
       KeepaliveExpired, ReleaseLeadership
  <1>9. ASSUME NEW n \in Node, RaceRetried(n) PROVE (TypeOK /\ HasLease)'
    BY <1>9, BudgetType DEF TypeOK, HasLease, PC, GoTo, elector, handlers,
       etcd, budget, RaceRetried
  <1>10. ASSUME NEW n \in Node, CycleRaise(n) PROVE (TypeOK /\ HasLease)'
    BY <1>10, BudgetType, OrphanedType DEF TypeOK, HasLease, PC, GoTo, elector,
       handlers, etcd, budget, CycleRaise
  <1>11. ASSUME NEW n \in Node, WatchBreak(n) PROVE (TypeOK /\ HasLease)'
    BY <1>11, BudgetType DEF TypeOK, HasLease, PC, GoTo, elector, handlers,
       etcd, budget, WatchBreak
  <1>12. ASSUME NEW n \in Node, KeepaliveRaise(n) PROVE (TypeOK /\ HasLease)'
    BY <1>12, BudgetType DEF TypeOK, HasLease, PC, GoTo, elector, handlers,
       etcd, budget, KeepaliveRaise, ReleaseLeadership
  <1>13. ASSUME NEW n \in Node, StepDownRevoke(n) PROVE (TypeOK /\ HasLease)'
    BY <1>13, KillLeaseType DEF TypeOK, HasLease, PC, GoTo, elector, handlers,
       etcd, budget, StepDownRevoke
  <1>14. ASSUME NEW n \in Node, StepDownReturn(n) PROVE (TypeOK /\ HasLease)'
    BY <1>14 DEF TypeOK, HasLease, PC, GoTo, elector, handlers, etcd, budget,
       StepDownReturn
  <1>15. ASSUME NEW n \in Node, StepDownFail(n) PROVE (TypeOK /\ HasLease)'
    BY <1>15, BudgetType DEF TypeOK, HasLease, PC, GoTo, elector, handlers,
       etcd, budget, StepDownFail
  <1>16. ASSUME NEW n \in Node, CooldownEnd(n) PROVE (TypeOK /\ HasLease)'
    BY <1>16 DEF TypeOK, HasLease, PC, GoTo, elector, handlers, etcd, budget,
       CooldownEnd
  <1>17. ASSUME NEW n \in Node, StopRevoke(n) PROVE (TypeOK /\ HasLease)'
    BY <1>17, KillLeaseType DEF TypeOK, HasLease, PC, GoTo, elector, handlers,
       etcd, budget, StopRevoke
  <1>18. ASSUME NEW n \in Node, StopFail(n) PROVE (TypeOK /\ HasLease)'
    BY <1>18, BudgetType DEF TypeOK, HasLease, PC, GoTo, elector, handlers,
       etcd, budget, StopFail
  <1>19. ASSUME NEW n \in Node, Cancelled(n) PROVE (TypeOK /\ HasLease)'
    BY <1>19, OrphanedType DEF TypeOK, HasLease, PC, GoTo, elector, handlers,
       etcd, budget, Cancelled, ProcessGone
  <1>20. ASSUME NEW n \in Node, StepDown(n) PROVE (TypeOK /\ HasLease)'
    BY <1>20 DEF TypeOK, HasLease, PC, GoTo, elector, handlers, etcd, budget, StepDown
  <1>21. ASSUME NEW n \in Node, Stop(n) PROVE (TypeOK /\ HasLease)'
    BY <1>21, BudgetType DEF TypeOK, HasLease, PC, GoTo, elector, handlers,
       etcd, budget, Stop
  <1>22. ASSUME NEW n \in Node, Crash(n) PROVE (TypeOK /\ HasLease)'
    BY <1>22, BudgetType, OrphanedType DEF TypeOK, HasLease, PC, GoTo, elector,
       handlers, etcd, budget, Crash, ProcessGone
  <1>23. ASSUME NEW n \in Node, Restart(n) PROVE (TypeOK /\ HasLease)'
    BY <1>23 DEF TypeOK, HasLease, PC, GoTo, elector, handlers, etcd, budget, Restart
  <1>24. ASSUME NEW l \in LeaseId, Expire(l) PROVE (TypeOK /\ HasLease)'
    BY <1>24, KillLeaseType, BudgetType DEF TypeOK, HasLease, Expire, elector,
       handlers, budget
  <1>25. ASSUME NEW c \in limbo, LateTxn(c) PROVE (TypeOK /\ HasLease)'
    BY <1>25 DEF TypeOK, HasLease, LateTxn, PutIfAbsent, elector, handlers, budget
  <1>26. ASSUME NEW n \in Node, CycleBegin(n) PROVE (TypeOK /\ HasLease)'
    BY <1>26 DEF TypeOK, HasLease, PC, GoTo, elector, handlers, etcd, budget, CycleBegin
  <1>27. ASSUME NEW n \in Node, HoldStopped(n) PROVE (TypeOK /\ HasLease)'
    BY <1>27 DEF TypeOK, HasLease, PC, GoTo, elector, handlers, etcd, budget,
       HoldStopped, ReleaseLeadership
  <1>28. CASE UNCHANGED vars
    BY <1>28 DEF TypeOK, HasLease, vars
  <1>. QED
    BY <1>1, <1>2, <1>3, <1>4, <1>5, <1>6, <1>7, <1>8, <1>9, <1>10, <1>11,
       <1>12, <1>13, <1>14, <1>15, <1>16, <1>17, <1>18, <1>19, <1>20, <1>21,
       <1>22, <1>23, <1>24, <1>25, <1>26, <1>27, <1>28 DEF Next, Elect,
       ElectFail, Handle

\* The variables stay within their types (LeaderElector's attributes, the
\* leader key's claim, the budgets), in every instance.
THEOREM TypeCorrect == Spec => []TypeOK
  <1>1. Init => TypeOK /\ HasLease
    BY BoundAssumption DEF Init, TypeOK, HasLease, PC, NoKey, Claim
  <1>. QED
    BY <1>1, TypeStep, PTL DEF Spec

-----------------------------------------------------------------------------
(* Fencing *)

\* The part of IInv that relates the electors to the leader key.
Fence == KeyIsLive /\ LeaderHolds /\ HeldClaim

\* The death of a lease takes the key along exactly when the key is attached
\* to it, so it disturbs nobody whose lease is another one.
LEMMA KillLeaseFence ==
    ASSUME TypeOK, HasLease, Fence, NEW l \in LeaseId, KillLease(l),
           UNCHANGED <<pc, is_leader, lease_id>>
    PROVE  Fence'
  <1>1. KeyIsLive'
    BY DEF TypeOK, Fence, KeyIsLive, KillLease, KeyWithout, NoKey, Claim
  <1>2. LeaderHolds'
    BY DEF Fence, LeaderHolds
  <1>3. HeldClaim'
    BY DEF Fence, HeldClaim, KillLease, KeyWithout, MyClaim
  <1>. QED
    BY <1>1, <1>2, <1>3 DEF Fence

\* A step that leaves the key and the leases alone, and lets daemon n at most
\* leave the states in which it relies on the key.
LEMMA QuietFence ==
    ASSUME TypeOK, Fence, NEW n \in Node,
           UNCHANGED <<live, leaderKey>>,
           \A m \in Node \ {n} : /\ pc'[m] = pc[m]
                                  /\ is_leader'[m] = is_leader[m]
                                  /\ lease_id'[m] = lease_id[m],
           is_leader'[n] => pc'[n] = "hold",
           pc'[n] \in {"won", "hold"}
              => pc[n] \in {"won", "hold"} /\ lease_id'[n] = lease_id[n]
    PROVE  Fence'
  BY DEF TypeOK, Fence, KeyIsLive, LeaderHolds, HeldClaim, MyClaim

\* One step of the specification keeps the fencing invariant.
LEMMA FenceStep ==
    TypeOK /\ HasLease /\ Fence /\ [Next]_vars => Fence'
  <1> SUFFICES ASSUME TypeOK, HasLease, Fence, [Next]_vars
               PROVE  Fence'
    OBVIOUS
  <1> USE LeaseAssumption
  <1>1. ASSUME NEW n \in Node, CycleGrant(n) PROVE Fence'
    <2>1. PICK l \in LeaseId : /\ Fresh(l)
                               /\ live' = live \cup {l}
                               /\ lease_id' = [lease_id EXCEPT ![n] = l]
      BY <1>1 DEF CycleGrant
    <2>2. KeyIsLive' /\ LeaderHolds'
      BY <1>1, <2>1 DEF TypeOK, Fence, KeyIsLive, LeaderHolds, CycleGrant, GoTo
    <2>3. HeldClaim'
      BY <1>1, <2>1 DEF TypeOK, Fence, HeldClaim, MyClaim, Fresh, CycleGrant, GoTo
    <2>. QED
      BY <2>2, <2>3 DEF Fence
  <1>2. ASSUME NEW n \in Node, CycleCooldown(n) PROVE Fence'
    BY <1>2, QuietFence DEF TypeOK, Fence, LeaderHolds, CycleCooldown, GoTo,
       elector, etcd
  <1>3. ASSUME NEW n \in Node, RaceTxn(n) PROVE Fence'
    <2>1. KeyIsLive'
      BY <1>3 DEF TypeOK, Fence, KeyIsLive, RaceTxn, PutIfAbsent, KeyAbsent, MyClaim
    <2>2. LeaderHolds'
      BY <1>3 DEF TypeOK, Fence, LeaderHolds, RaceTxn, GoTo
    <2>3. HeldClaim'
      BY <1>3 DEF TypeOK, HasLease, Fence, HeldClaim, MyClaim, NoKey,
         RaceTxn, PutIfAbsent,
                   KeyAbsent, GoTo
    <2>. QED
      BY <2>1, <2>2, <2>3 DEF Fence
  <1>4. ASSUME NEW n \in Node, RaceWon(n) PROVE Fence'
    BY <1>4, QuietFence DEF TypeOK, Fence, LeaderHolds, RaceWon, GoTo, elector, etcd
  <1>5. ASSUME NEW n \in Node, FollowerGet(n) PROVE Fence'
    BY <1>5, QuietFence DEF TypeOK, Fence, LeaderHolds, FollowerGet, GoTo, elector, etcd
  <1>6. ASSUME NEW n \in Node, WatchOpen(n) PROVE Fence'
    BY <1>6, QuietFence DEF TypeOK, Fence, LeaderHolds, WatchOpen, GoTo, elector, etcd
  <1>7. ASSUME NEW n \in Node, WatchDelete(n) PROVE Fence'
    BY <1>7, QuietFence DEF TypeOK, Fence, LeaderHolds, WatchDelete, GoTo, elector, etcd
  <1>8. ASSUME NEW n \in Node, KeepaliveExpired(n) PROVE Fence'
    BY <1>8, QuietFence DEF TypeOK, Fence, LeaderHolds, KeepaliveExpired,
       ReleaseLeadership, GoTo, elector, etcd
  <1>9. ASSUME NEW n \in Node, RaceRetried(n) PROVE Fence'
    BY <1>9, QuietFence DEF TypeOK, Fence, LeaderHolds, RaceRetried, GoTo, elector, etcd
  <1>10. ASSUME NEW n \in Node, CycleRaise(n) PROVE Fence'
    BY <1>10, QuietFence DEF TypeOK, Fence, LeaderHolds, CycleRaise, GoTo, elector, etcd
  <1>11. ASSUME NEW n \in Node, WatchBreak(n) PROVE Fence'
    BY <1>11, QuietFence DEF TypeOK, Fence, LeaderHolds, WatchBreak, GoTo, elector, etcd
  <1>12. ASSUME NEW n \in Node, KeepaliveRaise(n) PROVE Fence'
    BY <1>12, QuietFence DEF TypeOK, Fence, LeaderHolds, KeepaliveRaise,
       ReleaseLeadership, GoTo, elector, etcd
  <1>13. ASSUME NEW n \in Node, StepDownRevoke(n) PROVE Fence'
    BY <1>13, KillLeaseFence DEF TypeOK, StepDownRevoke, elector
  <1>14. ASSUME NEW n \in Node, StepDownReturn(n) PROVE Fence'
    BY <1>14, QuietFence DEF TypeOK, Fence, LeaderHolds, StepDownReturn, GoTo,
       elector, etcd
  <1>15. ASSUME NEW n \in Node, StepDownFail(n) PROVE Fence'
    BY <1>15, QuietFence DEF TypeOK, Fence, LeaderHolds, StepDownFail, GoTo,
       elector, etcd
  <1>16. ASSUME NEW n \in Node, CooldownEnd(n) PROVE Fence'
    BY <1>16, QuietFence DEF TypeOK, Fence, LeaderHolds, CooldownEnd, GoTo,
       elector, etcd
  <1>17. ASSUME NEW n \in Node, StopRevoke(n) PROVE Fence'
    BY <1>17, KillLeaseFence DEF TypeOK, StopRevoke, elector
  <1>18. ASSUME NEW n \in Node, StopFail(n) PROVE Fence'
    BY <1>18, QuietFence DEF TypeOK, Fence, LeaderHolds, StopFail, GoTo, elector, etcd
  <1>19. ASSUME NEW n \in Node, Cancelled(n) PROVE Fence'
    BY <1>19, QuietFence DEF TypeOK, Fence, LeaderHolds, Cancelled,
       ProcessGone, GoTo, elector, etcd
  <1>20. ASSUME NEW n \in Node, StepDown(n) PROVE Fence'
    BY <1>20, QuietFence DEF TypeOK, Fence, LeaderHolds, StepDown, GoTo, elector, etcd
  <1>21. ASSUME NEW n \in Node, Stop(n) PROVE Fence'
    BY <1>21, QuietFence DEF TypeOK, Fence, LeaderHolds, Stop, GoTo, elector, etcd
  <1>22. ASSUME NEW n \in Node, Crash(n) PROVE Fence'
    BY <1>22, QuietFence DEF TypeOK, Fence, LeaderHolds, Crash, ProcessGone,
       GoTo, elector, etcd
  <1>23. ASSUME NEW n \in Node, Restart(n) PROVE Fence'
    BY <1>23, QuietFence DEF TypeOK, Fence, LeaderHolds, Restart, GoTo, elector, etcd
  <1>24. ASSUME NEW l \in LeaseId, Expire(l) PROVE Fence'
    BY <1>24, KillLeaseFence DEF Expire, elector
  <1>25. ASSUME NEW c \in limbo, LateTxn(c) PROVE Fence'
    BY <1>25 DEF TypeOK, HasLease, Fence, KeyIsLive, LeaderHolds, HeldClaim,
       MyClaim, NoKey,
                 LateTxn, PutIfAbsent, KeyAbsent, elector
  <1>26. ASSUME NEW n \in Node, CycleBegin(n) PROVE Fence'
    BY <1>26, QuietFence DEF TypeOK, Fence, LeaderHolds, CycleBegin, GoTo, elector, etcd
  <1>27. ASSUME NEW n \in Node, HoldStopped(n) PROVE Fence'
    BY <1>27, QuietFence DEF TypeOK, Fence, LeaderHolds, HoldStopped,
       ReleaseLeadership, GoTo, elector, etcd
  <1>28. CASE UNCHANGED vars
    BY <1>28 DEF Fence, KeyIsLive, LeaderHolds, HeldClaim, MyClaim, vars
  <1>. QED
    BY <1>1, <1>2, <1>3, <1>4, <1>5, <1>6, <1>7, <1>8, <1>9, <1>10, <1>11,
       <1>12, <1>13, <1>14, <1>15, <1>16, <1>17, <1>18, <1>19, <1>20, <1>21,
       <1>22, <1>23, <1>24, <1>25, <1>26, <1>27, <1>28 DEF Next, Elect,
       ElectFail, Handle

\* The inductive invariant holds throughout.
LEMMA Inductive == Spec => []IInv
  <1>1. Init => IInv
    BY BoundAssumption DEF Init, IInv, TypeOK, HasLease, PC, NoKey, Claim,
                           KeyIsLive, LeaderHolds, HeldClaim
  <1>2. IInv /\ [Next]_vars => IInv'
    BY TypeStep, FenceStep DEF IInv, Fence
  <1>. QED
    BY <1>1, <1>2, PTL DEF Spec

\* A daemon that considers itself the leader and whose lease exists is the one
\* the leader key names: at most one daemon can be in that position, whatever
\* was lost, retried or executed late (leader.py, _cycle and _hold_leadership).
THEOREM Fencing == Spec => []FencedLeader
  <1>1. IInv => FencedLeader
    BY DEF IInv, LeaderHolds, HeldClaim, FencedLeader, Leads
  <1>. QED
    BY <1>1, Inductive, PTL

\* The leader key is always backed by a lease that exists.
THEOREM KeyBacked == Spec => []KeyIsLive
  <1>1. IInv => KeyIsLive
    BY DEF IInv
  <1>. QED
    BY <1>1, Inductive, PTL

\* Two daemons cannot both consider themselves the leader on existing leases.
THEOREM AtMostOneLeader == Spec => [](\A m, n \in Node : Leads(m) /\ Leads(n) => m = n)
  <1>1. FencedLeader => \A m, n \in Node : Leads(m) /\ Leads(n) => m = n
    BY DEF FencedLeader, MyClaim
  <1>. QED
    BY <1>1, Fencing, PTL

-----------------------------------------------------------------------------
(* Handover *)

\* What one step may do to a leader key that exists.
HandoverStep ==
    (leaderKey # NoKey /\ leaderKey' # leaderKey)
       => leaderKey' = NoKey /\ leaderKey.lease \notin live'

\* An existing key changes only with the death of its lease.
LEMMA KeyChange ==
    ASSUME [Next]_vars PROVE HandoverStep
  <1>1. ASSUME NEW l, KillLease(l) PROVE HandoverStep
    BY <1>1 DEF HandoverStep, KillLease, KeyWithout
  <1>2. ASSUME NEW c, leaderKey' \in {PutIfAbsent(c), leaderKey} PROVE HandoverStep
    BY <1>2 DEF HandoverStep, PutIfAbsent, KeyAbsent
  <1>3. ASSUME NEW n \in Node, Elect(n) PROVE HandoverStep
    <2>1. CASE RaceTxn(n)
      BY <1>2, <2>1 DEF RaceTxn
    <2>2. CASE ~RaceTxn(n)
      BY <1>3, <2>2 DEF Elect, HandoverStep, etcd, CycleBegin, CycleGrant,
         CycleCooldown,
                        RaceWon, FollowerGet,
                        WatchOpen, WatchDelete, KeepaliveExpired, HoldStopped
    <2>. QED
      BY <2>1, <2>2
  <1>4. ASSUME NEW n \in Node, ElectFail(n) PROVE HandoverStep
    BY <1>4 DEF ElectFail, HandoverStep, etcd, RaceRetried, CycleRaise,
       WatchBreak, KeepaliveRaise
  <1>5. ASSUME NEW n \in Node, Handle(n) PROVE HandoverStep
    <2>1. CASE StepDownRevoke(n) \/ StopRevoke(n)
      BY <1>1, <2>1 DEF StepDownRevoke, StopRevoke
    <2>2. CASE ~(StepDownRevoke(n) \/ StopRevoke(n))
      BY <1>5, <2>2 DEF Handle, HandoverStep, etcd, StepDownReturn,
         StepDownFail, CooldownEnd,
                        StopFail, Cancelled, ProcessGone
    <2>. QED
      BY <2>1, <2>2
  <1>6. ASSUME NEW n \in Node, StepDown(n) \/ Stop(n) \/ Crash(n) \/ Restart(n)
        PROVE HandoverStep
    BY <1>6 DEF HandoverStep, etcd, StepDown, Stop, Crash, ProcessGone, Restart
  <1>7. ASSUME NEW l \in LeaseId, Expire(l) PROVE HandoverStep
    BY <1>1, <1>7 DEF Expire
  <1>8. ASSUME NEW c \in limbo, LateTxn(c) PROVE HandoverStep
    BY <1>2, <1>8 DEF LateTxn
  <1>9. CASE UNCHANGED vars
    BY <1>9 DEF HandoverStep, vars
  <1>. QED
    BY <1>3, <1>4, <1>5, <1>6, <1>7, <1>8, <1>9 DEF Next

\* Leadership passes on only through a state without a leader key, in which
\* the previous leader's lease is dead (leader.py, put_if_absent under a lease).
THEOREM Handover == Spec => HandoverThroughExpiry
  <1>1. [Next]_vars => [HandoverStep]_<<leaderKey, live>>
    BY KeyChange
  <1>. QED
    BY <1>1, PTL DEF Spec, HandoverThroughExpiry, HandoverStep

-----------------------------------------------------------------------------
(* The election implements the lock *)

\* The daemons that may act as the leader, the mapping's value for leading.
Leading == {n \in Node : Leads(n)}

OwnerLeads ==
    /\ Leading \subseteq {leaderKey.node}
    /\ leaderKey = NoKey => Leading = {}

\* Only the daemon the key names can be leading, and without a key nobody is.
LEMMA LeadingIsOwner == IInv => OwnerLeads
  <1> SUFFICES ASSUME IInv PROVE OwnerLeads
    OBVIOUS
  <1>1. \A n \in Leading : leaderKey = MyClaim(n) /\ lease_id[n] \in LeaseId
    BY DEF IInv, TypeOK, LeaderHolds, HeldClaim, Leads, Leading
  <1>. QED
    BY <1>1, LeaseAssumption DEF OwnerLeads, MyClaim, NoKey

\* A key comes into being only by a put_if_absent, which touches no lease and
\* makes nobody a leader yet: put_if_absent's answer is still on its way.
LEMMA KeyCreation ==
    ASSUME [Next]_vars, leaderKey = NoKey, leaderKey' # NoKey
    PROVE  /\ UNCHANGED <<live, lease_id>>
           /\ \A n \in Node : is_leader'[n] => is_leader[n]
  <1> DEFINE Created == /\ UNCHANGED <<live, lease_id>>
                        /\ \A n \in Node : is_leader'[n] => is_leader[n]
  <1>1. ASSUME NEW l, KillLease(l) PROVE FALSE
    BY <1>1 DEF KillLease, KeyWithout
  <1>2. ASSUME NEW n \in Node, Elect(n) PROVE RaceTxn(n)
    BY <1>2 DEF Elect, etcd, CycleBegin, CycleGrant, CycleCooldown, RaceWon,
       FollowerGet, WatchOpen, WatchDelete, KeepaliveExpired, HoldStopped
  <1>3. ASSUME NEW n \in Node, RaceTxn(n) PROVE Created
    BY <1>3 DEF RaceTxn, KeyAbsent
  <1>4. ASSUME NEW n \in Node, ElectFail(n) PROVE FALSE
    BY <1>4 DEF ElectFail, etcd, RaceRetried, CycleRaise, WatchBreak, KeepaliveRaise
  <1>5. ASSUME NEW n \in Node, Handle(n) PROVE FALSE
    BY <1>1, <1>5 DEF Handle, etcd, StepDownRevoke, StepDownReturn, StepDownFail,
       CooldownEnd, StopRevoke, StopFail, Cancelled, ProcessGone
  <1>6. ASSUME NEW n \in Node, StepDown(n) \/ Stop(n) \/ Crash(n) \/ Restart(n)
        PROVE FALSE
    BY <1>6 DEF etcd, StepDown, Stop, Crash, ProcessGone, Restart
  <1>7. ASSUME NEW l \in LeaseId, Expire(l) PROVE FALSE
    BY <1>1, <1>7 DEF Expire
  <1>8. ASSUME NEW c \in limbo, LateTxn(c) PROVE Created
    BY <1>8 DEF LateTxn, elector
  <1>. QED
    BY <1>2, <1>3, <1>4, <1>5, <1>6, <1>7, <1>8 DEF Next, vars

\* Every step of the election is a step of the lock, or invisible to it.
LEMMA LockStep ==
    ASSUME IInv, IInv', [Next]_vars
    PROVE  [Lock!Next]_<<leaderKey, Leading>>
  <1>a. OwnerLeads
    BY LeadingIsOwner
  <1>b. OwnerLeads'
    BY LeadingIsOwner, PTL
  <1>1. CASE leaderKey' = leaderKey
    <2>1. Leading' \subseteq {leaderKey.node} /\ (leaderKey = NoKey => Leading' = {})
      BY <1>1, <1>b DEF OwnerLeads
    <2>2. CASE Leading = {} /\ Leading' # {}
      BY <1>1, <2>1, <2>2 DEF Lock!Next, Lock!Lead, Leading
    <2>3. CASE Leading # {} /\ Leading' = {}
      BY <1>1, <2>3 DEF Lock!Next, Lock!Retire, Leading
    <2>4. CASE Leading = {} <=> Leading' = {}
      BY <1>1, <1>a, <2>1, <2>4 DEF OwnerLeads
    <2>. QED
      BY <2>2, <2>3, <2>4
  <1>2. CASE leaderKey # NoKey /\ leaderKey' # leaderKey
    <2>1. leaderKey' = NoKey
      BY <1>2, KeyChange DEF HandoverStep
    <2>2. Leading' = {}
      BY <1>b, <2>1 DEF OwnerLeads
    <2>. QED
      BY <1>2, <2>1, <2>2 DEF Lock!Next, Lock!Free, Leading
  <1>3. CASE leaderKey = NoKey /\ leaderKey' # leaderKey
    <2>1. leaderKey' \in Claim
      BY <1>3 DEF IInv, TypeOK
    <2>2. Leading = {}
      BY <1>3, <1>a DEF OwnerLeads
    <2>3. Leading' = {}
      BY <1>3, <2>2, KeyCreation DEF Leading, Leads
    <2>. QED
      BY <1>3, <2>1, <2>2, <2>3 DEF Lock!Next, Lock!Acquire, Leading
  <1>. QED
    BY <1>1, <1>2, <1>3

\* The election implements the abstract lock of LeaderLock: the leader key is
\* the owner of the lock, and the daemons whose is_leader is set and whose lease
\* exists are those that act under it (leader.py, _cycle and _hold_leadership).
THEOREM LockImplemented == Spec => ImplementsLock
  <1>1. Init => Lock!Init
    BY LeaseAssumption DEF Init, Lock!Init, Leads
  <1>2. IInv /\ IInv' /\ [Next]_vars => [Lock!Next]_(Lock!vars)
    BY LockStep DEF Leading, Lock!vars
  <1>. QED
    BY <1>1, <1>2, Inductive, PTL DEF Spec, ImplementsLock, Lock!Spec

=============================================================================
