--------------------------- MODULE LeaderElection ---------------------------
(***************************************************************************)
(* The leader election of the control-plane daemon (daemon/leader.py) on   *)
(* top of the etcd client it uses (daemon/etcd_client.py) and of the       *)
(* daemon's start and shutdown (daemon/main.py, lifespan).                 *)
(*                                                                         *)
(* Every daemon runs one LeaderElector task.  etcd holds one key,          *)
(* /cluster/leader, attached to a lease; the daemon whose put_if_absent    *)
(* created the key is the leader for as long as it keeps the lease alive.  *)
(*                                                                         *)
(* pc[n]         where n's elector task is:                                *)
(*    "cycle"     at the top of run(), about to enter _cycle()             *)
(*    "grant"     the lease_grant is on its way                            *)
(*    "race"      lease granted, the put_if_absent POST is on its way      *)
(*    "won"       etcd created the key, the answer is on its way back      *)
(*    "lost"      put_if_absent returned False, get(LEADER_KEY) pending    *)
(*    "connect"   in watch_prefix(), no watch stream open                  *)
(*    "watch"     in watch_prefix(), the stream is open                    *)
(*    "hold"      in _hold_leadership()                                    *)
(*    "down"      no daemon process on the node                            *)
(* is_leader, lease_id, cooldown, stopped: the elector's attributes;       *)
(*    cooldown[n] is time.time() < _skip_race_until, stopped[n] is _stop.  *)
(* stepReq[n]    the lease whose revocation step_down() awaits             *)
(* stepAck[n]    that revocation was applied, the answer is on its way     *)
(* stopReq[n]    the lease whose revocation stop() awaits                  *)
(* wake[n]       a DELETE of the leader key is in n's open watch stream    *)
(* live          etcd: the leases that exist                               *)
(* leaderKey     etcd: the value of /cluster/leader, or NoKey              *)
(* limbo         put_if_absent requests whose sender gave up on them or    *)
(*               died, and which etcd may still execute                    *)
(* exits, drops, steps   how many daemon exits, transport failures and     *)
(*               step-down requests there have been (bounded by constants) *)
(*                                                                         *)
(* etcd never reuses a lease id.  The model recycles the ids that nothing  *)
(* refers to any more, so that a finite LeaseId admits unboundedly many    *)
(* terms.                                                                  *)
(***************************************************************************)
EXTENDS Naturals

CONSTANTS
    Node,       \* the daemons
    LeaseId,    \* lease ids etcd hands out
    NoLease,    \* None
    MaxExits,   \* bound on crashes and shutdowns
    MaxDrops,   \* bound on requests or streams that fail in transport
    MaxSteps    \* bound on /admin/step-down requests

ASSUME LeaseAssumption == NoLease \notin LeaseId
ASSUME BoundAssumption == MaxExits \in Nat /\ MaxDrops \in Nat /\ MaxSteps \in Nat

VARIABLES pc, is_leader, lease_id, cooldown, stopped,
          stepReq, stepAck, stopReq, wake,
          live, leaderKey, limbo, exits, drops, steps

elector == <<pc, is_leader, lease_id, cooldown, stopped>>
handlers == <<stepReq, stepAck, stopReq>>
etcd == <<live, leaderKey, limbo>>
budget == <<exits, drops, steps>>
vars == <<pc, is_leader, lease_id, cooldown, stopped, stepReq, stepAck,
          stopReq, wake, live, leaderKey, limbo, exits, drops, steps>>

NoKey == [node |-> NoLease, lease |-> NoLease]
Claim == [node : Node, lease : LeaseId]

PC == {"cycle", "grant", "race", "won", "lost", "connect", "watch", "hold", "down"}

TypeOK ==
    /\ pc \in [Node -> PC]
    /\ is_leader \in [Node -> BOOLEAN]
    /\ lease_id \in [Node -> LeaseId \cup {NoLease}]
    /\ cooldown \in [Node -> BOOLEAN]
    /\ stopped \in [Node -> BOOLEAN]
    /\ stepReq \in [Node -> LeaseId \cup {NoLease}]
    /\ stepAck \in [Node -> BOOLEAN]
    /\ stopReq \in [Node -> LeaseId \cup {NoLease}]
    /\ wake \in [Node -> BOOLEAN]
    /\ live \in SUBSET LeaseId
    /\ leaderKey \in Claim \cup {NoKey}
    /\ limbo \in SUBSET Claim
    /\ exits \in 0..MaxExits
    /\ drops \in 0..MaxDrops
    /\ steps \in 0..MaxSteps

Init ==
    /\ pc = [n \in Node |-> "cycle"]
    /\ is_leader = [n \in Node |-> FALSE]
    /\ lease_id = [n \in Node |-> NoLease]
    /\ cooldown = [n \in Node |-> FALSE]
    /\ stopped = [n \in Node |-> FALSE]
    /\ stepReq = [n \in Node |-> NoLease]
    /\ stepAck = [n \in Node |-> FALSE]
    /\ stopReq = [n \in Node |-> NoLease]
    /\ wake = [n \in Node |-> FALSE]
    /\ live = {}
    /\ leaderKey = NoKey
    /\ limbo = {}
    /\ exits = 0 /\ drops = 0 /\ steps = 0

-----------------------------------------------------------------------------
(* etcd, as the client uses it *)

\* A lease id that nothing in the cluster remembers.
Fresh(l) ==
    /\ l \notin live
    /\ \A n \in Node : l \notin {lease_id[n], stepReq[n], stopReq[n]}
    /\ \A c \in limbo : c.lease # l

\* Faulty variant: put instead of put_if_absent.
KeyAbsentUnchecked == TRUE

\* The comparison of put_if_absent's transaction: create_revision = 0.
KeyAbsent == leaderKey = NoKey

\* The key after the transaction.  A put under a lease that is gone is refused.
PutIfAbsent(claim) ==
    IF KeyAbsent /\ claim.lease \in live THEN claim ELSE leaderKey

\* Faulty variants: the key is no longer attached to the lease but stays; the
\* put forgets the lease, so that nothing deletes the key.
KeyWithoutDetached(l) ==
    IF leaderKey.lease = l THEN [leaderKey EXCEPT !.lease = NoLease] ELSE leaderKey
KeyWithoutKept(l) == leaderKey

\* The leader key after lease l is gone: a key attached to it is deleted.
KeyWithout(l) == IF leaderKey.lease = l THEN NoKey ELSE leaderKey

\* The open watch streams after the leader key changed: only a stream that
\* is open receives the DELETE, for a watch has no start_revision.
WakeWithout(l) ==
    [n \in Node |-> wake[n] \/ (leaderKey.lease = l /\ pc[n] = "watch")]

\* The lease expires or is revoked: it vanishes with the key attached to it.
KillLease(l) ==
    /\ live' = live \ {l}
    /\ leaderKey' = KeyWithout(l)
    /\ wake' = WakeWithout(l)

\* The network fails a daemon for longer than _post retries, or cuts a watch.
Drop ==
    /\ drops < MaxDrops
    /\ drops' = drops + 1
    /\ UNCHANGED <<exits, steps>>

\* Some elector relies on lease l: it races with it or renews it.
InUse(l) ==
    \E n \in Node : pc[n] \in {"race", "won", "hold"} /\ lease_id[n] = l

\* The TTL of lease l runs out: nobody uses it any more, or the daemon that
\* does is cut off from etcd for longer than the TTL.
Expire(l) ==
    /\ l \in live
    /\ IF InUse(l) THEN Drop ELSE UNCHANGED budget
    /\ KillLease(l)
    /\ UNCHANGED <<elector, handlers, limbo>>

\* etcd executes a transaction nobody waits for any more, or never does.
LateTxn(c) ==
    /\ c \in limbo
    /\ limbo' = limbo \ {c}
    /\ \/ leaderKey' = PutIfAbsent(c)
       \/ leaderKey' = leaderKey
    /\ UNCHANGED <<elector, handlers, wake, live, budget>>

-----------------------------------------------------------------------------
(* LeaderElector.run and _cycle *)

GoTo(n, label) == pc' = [pc EXCEPT ![n] = label]

\* _cycle outside a cooldown: a lease is asked for.
CycleBegin(n) ==
    /\ pc[n] = "cycle" /\ ~stopped[n] /\ ~cooldown[n]
    /\ GoTo(n, "grant")
    /\ UNCHANGED <<is_leader, lease_id, cooldown, stopped, handlers, wake,
                   etcd, budget>>

\* The lease is granted, and put_if_absent sent.
CycleGrant(n) ==
    /\ pc[n] = "grant"
    /\ \E l \in LeaseId :
          /\ Fresh(l)
          /\ live' = live \cup {l}
          /\ lease_id' = [lease_id EXCEPT ![n] = l]
    /\ GoTo(n, "race")
    /\ UNCHANGED <<is_leader, cooldown, stopped, handlers, wake, leaderKey,
                   limbo, budget>>

\* _cycle during the cooldown of step_down: watch without racing.
CycleCooldown(n) ==
    /\ pc[n] = "cycle" /\ ~stopped[n] /\ cooldown[n]
    /\ is_leader' = [is_leader EXCEPT ![n] = FALSE]
    /\ GoTo(n, "connect")
    /\ UNCHANGED <<lease_id, cooldown, stopped, handlers, wake, etcd, budget>>

MyClaim(n) == [node |-> n, lease |-> lease_id[n]]

\* Faulty variant: any answer of etcd counts as a success.
RaceTxnAlwaysWon(n) ==
    /\ pc[n] = "race"
    /\ leaderKey' = PutIfAbsent(MyClaim(n))
    /\ GoTo(n, "won")
    /\ UNCHANGED <<is_leader, lease_id, cooldown, stopped, handlers, wake, live,
                   limbo, budget>>

\* etcd executes n's put_if_absent: n created the key; or the key exists,
\* put_if_absent returns False and n is a follower; or the lease is gone, the
\* put is refused and the cycle ends with an exception.
RaceTxn(n) ==
    /\ pc[n] = "race"
    /\ leaderKey' = PutIfAbsent(MyClaim(n))
    /\ \/ /\ KeyAbsent /\ lease_id[n] \in live
          /\ GoTo(n, "won")
          /\ UNCHANGED is_leader
       \/ /\ KeyAbsent /\ lease_id[n] \notin live
          /\ GoTo(n, "cycle")
          /\ UNCHANGED is_leader
       \/ /\ ~KeyAbsent
          /\ GoTo(n, "lost")
          /\ is_leader' = [is_leader EXCEPT ![n] = FALSE]
    /\ UNCHANGED <<lease_id, cooldown, stopped, handlers, wake, live, limbo,
                   budget>>

\* put_if_absent returns True.
RaceWon(n) ==
    /\ pc[n] = "won"
    /\ is_leader' = [is_leader EXCEPT ![n] = TRUE]
    /\ GoTo(n, "hold")
    /\ UNCHANGED <<lease_id, cooldown, stopped, handlers, wake, etcd, budget>>

\* The answer was lost and _post sends the transaction again.  It finds the
\* key, perhaps n's own, and put_if_absent returns False; if the lease ran out
\* in the meantime and took the key along, the put is refused.
RaceRetried(n) ==
    /\ pc[n] = "won"
    /\ Drop
    /\ GoTo(n, IF leaderKey = NoKey THEN "cycle" ELSE "lost")
    /\ is_leader' = [is_leader EXCEPT ![n] = FALSE]
    /\ UNCHANGED <<lease_id, cooldown, stopped, handlers, wake, etcd>>

\* A transaction that daemon n will not hear of again.
Orphaned(n) == IF pc[n] = "race" THEN {MyClaim(n)} ELSE {}

\* _post gives up on the grant, on the transaction, or on the get that follows
\* it: the cycle ends with an exception, and run() starts another after a
\* backoff.
CycleRaise(n) ==
    /\ pc[n] \in {"grant", "race", "won", "lost"}
    /\ Drop
    /\ limbo' = limbo \cup Orphaned(n)
    /\ GoTo(n, "cycle")
    /\ UNCHANGED <<is_leader, lease_id, cooldown, stopped, handlers, wake,
                   live, leaderKey>>

\* A follower reads the leader's value, to log it.
FollowerGet(n) ==
    /\ pc[n] = "lost"
    /\ GoTo(n, "connect")
    /\ UNCHANGED <<is_leader, lease_id, cooldown, stopped, handlers, wake,
                   etcd, budget>>

-----------------------------------------------------------------------------
(* _await_leader_change, over EtcdClient.watch_prefix *)

\* The stream opens.  It delivers the events from now on.
WatchOpen(n) ==
    /\ pc[n] = "connect"
    /\ GoTo(n, "watch")
    /\ wake' = [wake EXCEPT ![n] = FALSE]
    /\ UNCHANGED <<is_leader, lease_id, cooldown, stopped, handlers, etcd,
                   budget>>

\* The stream breaks, with what it had not yet delivered; watch_prefix opens
\* another after two seconds.
WatchBreak(n) ==
    /\ pc[n] = "watch"
    /\ Drop
    /\ GoTo(n, "connect")
    /\ wake' = [wake EXCEPT ![n] = FALSE]
    /\ UNCHANGED <<is_leader, lease_id, cooldown, stopped, handlers, etcd>>

\* The DELETE of the leader key arrives: the cycle is over.
WatchDelete(n) ==
    /\ pc[n] = "watch" /\ wake[n]
    /\ GoTo(n, "cycle")
    /\ wake' = [wake EXCEPT ![n] = FALSE]
    /\ UNCHANGED <<is_leader, lease_id, cooldown, stopped, handlers, etcd,
                   budget>>

-----------------------------------------------------------------------------
(* _hold_leadership *)

ReleaseLeadership(n) ==
    /\ is_leader' = [is_leader EXCEPT ![n] = FALSE]
    /\ GoTo(n, "cycle")

\* Faulty variant: the missing TTL goes unnoticed.
KeepaliveExpiredUnnoticed(n) ==
    /\ pc[n] = "hold" /\ lease_id[n] \notin live
    /\ UNCHANGED vars

\* The keepalive finds no such lease.  (One that finds the lease renews it and
\* changes nothing.)
KeepaliveExpired(n) ==
    /\ pc[n] = "hold" /\ lease_id[n] \notin live
    /\ ReleaseLeadership(n)
    /\ UNCHANGED <<lease_id, cooldown, stopped, handlers, wake, etcd, budget>>

\* _stop is set: the loop ends, whatever became of the lease.
HoldStopped(n) ==
    /\ pc[n] = "hold" /\ stopped[n]
    /\ ReleaseLeadership(n)
    /\ UNCHANGED <<lease_id, cooldown, stopped, handlers, wake, etcd, budget>>

\* The keepalive fails in transport: n releases leadership but not the lease.
KeepaliveRaise(n) ==
    /\ pc[n] = "hold"
    /\ Drop
    /\ ReleaseLeadership(n)
    /\ UNCHANGED <<lease_id, cooldown, stopped, handlers, wake, etcd>>

-----------------------------------------------------------------------------
(* step_down, from POST /admin/step-down *)

\* The handler finds itself the leader and sends the revocation.
StepDown(n) ==
    /\ steps < MaxSteps
    /\ pc[n] # "down" /\ is_leader[n] /\ lease_id[n] # NoLease
    /\ stepReq[n] = NoLease /\ ~stepAck[n]
    /\ steps' = steps + 1
    /\ stepReq' = [stepReq EXCEPT ![n] = lease_id[n]]
    /\ UNCHANGED <<elector, stepAck, stopReq, wake, etcd, exits, drops>>

\* etcd revokes the lease.
StepDownRevoke(n) ==
    /\ stepReq[n] \in live
    /\ KillLease(stepReq[n])
    /\ stepReq' = [stepReq EXCEPT ![n] = NoLease]
    /\ stepAck' = [stepAck EXCEPT ![n] = TRUE]
    /\ UNCHANGED <<elector, stopReq, limbo, budget>>

\* lease_revoke returns: from now on n abstains.
StepDownReturn(n) ==
    /\ stepAck[n]
    /\ stepAck' = [stepAck EXCEPT ![n] = FALSE]
    /\ cooldown' = [cooldown EXCEPT ![n] = TRUE]
    /\ UNCHANGED <<pc, is_leader, lease_id, stopped, stepReq, stopReq, wake,
                   etcd, budget>>

\* lease_revoke raises and step_down returns False, with no cooldown: the
\* lease was already gone, or the answer was lost and the retry finds no
\* lease, or nothing reached etcd.
StepDownFail(n) ==
    /\ \/ /\ stepReq[n] \notin live \cup {NoLease}
          /\ UNCHANGED budget
       \/ /\ stepReq[n] # NoLease \/ stepAck[n]
          /\ Drop
    /\ stepReq' = [stepReq EXCEPT ![n] = NoLease]
    /\ stepAck' = [stepAck EXCEPT ![n] = FALSE]
    /\ UNCHANGED <<elector, stopReq, wake, etcd>>

\* _skip_race_until passes.
CooldownEnd(n) ==
    /\ cooldown[n]
    /\ cooldown' = [cooldown EXCEPT ![n] = FALSE]
    /\ UNCHANGED <<pc, is_leader, lease_id, stopped, handlers, wake, etcd,
                   budget>>

-----------------------------------------------------------------------------
(* The daemon process: lifespan's startup and shutdown, crashes *)

Exit ==
    /\ exits < MaxExits
    /\ exits' = exits + 1
    /\ UNCHANGED <<drops, steps>>

\* The process is gone, with everything it kept in memory.
ProcessGone(n) ==
    /\ GoTo(n, "down")
    /\ is_leader' = [is_leader EXCEPT ![n] = FALSE]
    /\ lease_id' = [lease_id EXCEPT ![n] = NoLease]
    /\ cooldown' = [cooldown EXCEPT ![n] = FALSE]
    /\ stopped' = [stopped EXCEPT ![n] = FALSE]
    /\ stepReq' = [stepReq EXCEPT ![n] = NoLease]
    /\ stepAck' = [stepAck EXCEPT ![n] = FALSE]
    /\ stopReq' = [stopReq EXCEPT ![n] = NoLease]
    /\ wake' = [wake EXCEPT ![n] = FALSE]
    /\ limbo' = limbo \cup Orphaned(n)
    /\ UNCHANGED <<live, leaderKey>>

\* kill -9, host crash.
Crash(n) ==
    /\ pc[n] # "down"
    /\ Exit
    /\ ProcessGone(n)

\* Shutdown begins: stop() sets _stop and sends the revocation of lease_id.
Stop(n) ==
    /\ pc[n] # "down" /\ ~stopped[n]
    /\ Exit
    /\ stopped' = [stopped EXCEPT ![n] = TRUE]
    /\ stopReq' = [stopReq EXCEPT ![n] = lease_id[n]]
    /\ UNCHANGED <<pc, is_leader, lease_id, cooldown, stepReq, stepAck, wake,
                   etcd>>

\* etcd revokes it, or there is no such lease and stop() logs the error.
StopRevoke(n) ==
    /\ stopReq[n] # NoLease
    /\ KillLease(stopReq[n])
    /\ stopReq' = [stopReq EXCEPT ![n] = NoLease]
    /\ UNCHANGED <<elector, stepReq, stepAck, limbo, budget>>

\* The revocation fails in transport; stop() logs the error.
StopFail(n) ==
    /\ stopReq[n] # NoLease
    /\ Drop
    /\ stopReq' = [stopReq EXCEPT ![n] = NoLease]
    /\ UNCHANGED <<elector, stepReq, stepAck, wake, etcd>>

\* lifespan cancels the elector task and the process ends.
Cancelled(n) ==
    /\ stopped[n] /\ stopReq[n] = NoLease
    /\ ProcessGone(n)
    /\ UNCHANGED budget

\* docker restarts the daemon.
Restart(n) ==
    /\ pc[n] = "down"
    /\ GoTo(n, "cycle")
    /\ UNCHANGED <<is_leader, lease_id, cooldown, stopped, handlers, wake,
                   etcd, budget>>

-----------------------------------------------------------------------------
\* The steps of n's elector task that happen when nothing fails.
Elect(n) ==
    \/ CycleBegin(n) \/ CycleCooldown(n) \/ CycleGrant(n) \/ RaceTxn(n)
    \/ RaceWon(n) \/ FollowerGet(n) \/ WatchOpen(n) \/ WatchDelete(n)
    \/ KeepaliveExpired(n) \/ HoldStopped(n)

\* Where a failing transport takes it.
ElectFail(n) ==
    \/ RaceRetried(n) \/ CycleRaise(n) \/ WatchBreak(n) \/ KeepaliveRaise(n)

\* The progress of a step_down() or stop() that has begun.
Handle(n) ==
    \/ StepDownRevoke(n) \/ StepDownReturn(n) \/ StepDownFail(n)
    \/ CooldownEnd(n)
    \/ StopRevoke(n) \/ StopFail(n) \/ Cancelled(n)

Next ==
    \/ \E n \in Node :
          \/ Elect(n) \/ ElectFail(n) \/ Handle(n)
          \/ StepDown(n) \/ Stop(n) \/ Crash(n) \/ Restart(n)
    \/ \E l \in LeaseId : Expire(l)
    \/ \E c \in limbo : LateTxn(c)

Spec == Init /\ [][Next]_vars

\* A task that can go on does, a cooldown ends, a lease nobody uses expires.
\* Nothing is assumed of crashes, restarts, failures and requests.
Fairness ==
    /\ \A n \in Node :
          /\ WF_vars(Elect(n))
          /\ WF_vars(StepDownRevoke(n) \/ StepDownReturn(n) \/ StepDownFail(n))
          /\ WF_vars(StopRevoke(n)) /\ WF_vars(Cancelled(n))
          /\ WF_vars(CooldownEnd(n))
    /\ \A l \in LeaseId : WF_vars(~InUse(l) /\ Expire(l))
    /\ \A c \in Claim : WF_vars(LateTxn(c))

FairSpec == Spec /\ Fairness

-----------------------------------------------------------------------------
(* Properties *)

Leads(n) == is_leader[n] /\ lease_id[n] \in live

\* Fencing by lease (leader.py 140-150, 170-179): a daemon that considers
\* itself the leader, and whose lease still exists, is the one the leader key
\* names, with that very lease - whatever requests were lost, retried or
\* executed late, whoever stepped down, stopped or crashed in between.
FencedLeader == \A n \in Node : Leads(n) => leaderKey = MyClaim(n)

\* The leader key never outlives its lease (etcd_client.py lease_revoke,
\* put_if_absent with lease_id): what /leader reports is backed by a lease.
KeyIsLive == leaderKey # NoKey => leaderKey.lease \in live

\* Handover (leader.py 140-150): leadership passes from one daemon to another
\* only through a state without a leader, and the previous leader's lease is
\* dead by then, so its next keepalive tells it so.
HandoverThroughExpiry ==
    [][ (leaderKey # NoKey /\ leaderKey' # leaderKey)
           => leaderKey' = NoKey /\ leaderKey.lease \notin live' ]_<<leaderKey, live>>

\* The abstract lock: the leader key is its owner, and the daemons that may act
\* as the leader are those whose lease exists.
Lock == INSTANCE LeaderLock
            WITH None <- NoKey, owner <- leaderKey,
                 leading <- {n \in Node : Leads(n)}

\* The election implements the lock (leader.py 1-15, 117-179): every step of a
\* daemon, of etcd or of a failing network takes a free key, begins or ends the
\* leadership of the daemon the key names, frees the key, or is invisible.
ImplementsLock == Lock!Spec

\* A leader that lost its lease stops considering itself the leader
\* (_hold_leadership, leader.py 166-179).
StaleLeaderReleases ==
    \A n \in Node : (is_leader[n] /\ lease_id[n] \notin live) ~> ~is_leader[n]

\* The key of a daemon that is gone is eventually deleted (step 3 of the
\* module docstring: the lease expires).
DeadLeaderKeyExpires ==
    \A n \in Node : (leaderKey.node = n /\ pc[n] = "down") ~> leaderKey.node # n

\* "Lease expires; another node takes over after TTL elapses" and "On DELETE,
\* race for the next term" (leader.py 7-9): while some daemon is up, a
\* cluster without a leader gets one.
Takeover ==
    (leaderKey = NoKey) ~> (leaderKey # NoKey \/ \A n \in Node : pc[n] = "down")

=============================================================================
