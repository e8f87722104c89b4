----------------------------- MODULE RemoveNode -----------------------------
(***************************************************************************)
(* The remove-node worker (daemon/workers/remove_node.py): the leader      *)
(* drains the leaving peer's MinIO pool, deletes its topology entry, waits *)
(* for the survivors, and removes its etcd member.  A step of a job ends   *)
(* where the worker awaits etcd, mc or a peer; in between, leadership may  *)
(* move, MinIO may restart, and a second removal may run.                  *)
(*                                                                         *)
(* topology, members   the entries under /cluster/topology/peers/, and the *)
(*                     members of etcd                                     *)
(* pool[n]             what MinIO's metadata says of the decommission of   *)
(*                     n's pool                                            *)
(* volumes[n], minio[n]  the pools n's MinIO was started with; "crashed"   *)
(*                     when one of them was decommissioned at its start    *)
(* pending             the daemons that have yet to handle a topology      *)
(*                     event (one stands for all a daemon has before it)   *)
(* todo[d]             the peers whose MinIO the sweep of d, which took    *)
(*                     itself for the leader, has yet to recreate          *)
(* leader, leading     the owner of /cluster/leader; the daemons with      *)
(*                     is_leader set, which may be stale                   *)
(* job[j]              a removal: where it stands, who runs it, the        *)
(*                     leaving peer, and whether mc ever left its          *)
(*                     question about the pool unanswered (blind)          *)
(* disturbed           not in the code: a removal under way or a sweep was *)
(*                     broken off, leadership moved while an event was to  *)
(*                     be handled, the removed peer had come to lead, or a *)
(*                     removed peer came back                              *)
(* faults              changes of leadership, broken-off removals, failures *)
(*                     of mc and of handlers, and returns so far           *)
(***************************************************************************)
EXTENDS Naturals, FiniteSets

CONSTANTS
    Node,
    Boot,           \* the peer that leads at first
    PulsarHost,     \* PULSAR_HOST, the same everywhere; NoNode for 2.6
    NoNode,
    Job,            \* the jobs, numbered in the order they are created
    Heirs,          \* bound on who wins a later term
    MaxFaults       \* bound on the faults

ASSUME NodeAssumption ==
    /\ Job \subseteq Nat
    /\ Boot \in Node /\ NoNode \notin Node /\ PulsarHost \in Node \cup {NoNode}
ASSUME BoundAssumption ==
    Heirs \subseteq Node /\ MaxFaults \in Nat

VARIABLES topology, members, pool, volumes, minio, pending, todo, leader, leading,
          job, disturbed, faults

store == <<pool, volumes, minio>>
sweep == <<pending, todo>>
power == <<leader, leading>>
vars == <<topology, members, store, sweep, power, job, disturbed, faults>>

\* "failed" stands for failed and for canceled, which the worker treats alike.
PoolState == {"none", "active", "complete", "failed"}

\* Where a job stands.  "refused" is an end without any effect.
Place == {"idle", "check", "preflight", "clear", "start", "poll", "delete", "settle",
          "done", "refused", "failed"}
Ended == {"done", "refused", "failed"}

TypeOK ==
    /\ topology \in SUBSET Node
    /\ members \in SUBSET Node
    /\ pool \in [Node -> PoolState]
    /\ volumes \in [Node -> SUBSET Node]
    /\ minio \in [Node -> {"up", "crashed"}]
    /\ pending \in SUBSET Node /\ todo \in [Node -> SUBSET Node]
    /\ leader \in Node /\ leading \in SUBSET Node
    /\ job \in [Job -> [at : Place, runner : Node \cup {NoNode},
                        target : Node \cup {NoNode}, blind : BOOLEAN]]
    /\ disturbed \in BOOLEAN
    /\ faults \in 0..MaxFaults

Init ==
    /\ topology = Node /\ members = Node
    /\ pool = [n \in Node |-> "none"]
    /\ volumes = [n \in Node |-> Node]
    /\ minio = [n \in Node |-> "up"]
    /\ pending = {} /\ todo = [n \in Node |-> {}]
    /\ leader = Boot /\ leading = {Boot}
    /\ job = [j \in Job |-> [at |-> "idle", runner |-> NoNode, target |-> NoNode,
                             blind |-> FALSE]]
    /\ disturbed = FALSE
    /\ faults = 0

-----------------------------------------------------------------------------
(* What happens around a removal *)

Fault == faults < MaxFaults /\ faults' = faults + 1

\* Another peer wins the next term, after step-down or an expiry.  If an event is
\* still to be handled, its sweep may fall between the old leader and the new.
LeaderMoves(n) ==
    /\ n \in (members \cap Heirs) \ {leader}
    /\ Fault
    /\ leader' = n
    /\ leading' = leading \cup {n}
    /\ disturbed' = (disturbed \/ pending # {})
    /\ UNCHANGED <<topology, members, store, sweep, job>>


\* A daemon notices that it no longer leads; a sweep it has begun goes on.
LeaderNotices(n) ==
    /\ n \in leading \ {leader}
    /\ leading' = leading \ {n}
    /\ UNCHANGED <<topology, members, store, sweep, leader, job, disturbed, faults>>

\* MinIO copies the pool, or fails at it, or somebody cancels it.
DecommissionEnds(n) ==
    /\ pool[n] = "active"
    /\ \E s \in {"complete", "failed"} : pool' = [pool EXCEPT ![n] = s]
    /\ UNCHANGED <<topology, members, volumes, minio, sweep, power, job, disturbed, faults>>

\* MinIO does not start with a decommissioned pool on its command line.
Started(pools) == IF \E p \in pools : pool[p] = "complete" THEN "crashed" ELSE "up"

\* A decommission under way may be dropped.
MinioRestarts(n) ==
    /\ n \in topology
    /\ minio' = [minio EXCEPT ![n] = Started(volumes[n])]
    /\ \/ UNCHANGED pool
       \/ \E p \in Node : pool[p] = "active" /\ pool' = [pool EXCEPT ![p] = "none"]
    /\ UNCHANGED <<topology, members, volumes, sweep, power, job, disturbed, faults>>

\* The event comes to every daemon whose etcd is a member.
Emit == pending' = members /\ UNCHANGED todo

\* The daemon of a removed peer is restarted and registers itself.
RegisterSelf(n) ==
    /\ n \in members \ topology
    /\ Fault
    /\ topology' = topology \cup {n}
    /\ disturbed' = TRUE
    /\ Emit
    /\ UNCHANGED <<members, store, power, job>>

-----------------------------------------------------------------------------
(* The topology handlers, as far as MinIO is concerned (see TopologySync) *)

\* d handles the event; if it takes itself for the leader, it is to sweep.
Dispatch(d) ==
    /\ d \in pending /\ todo[d] = {}
    /\ pending' = pending \ {d}
    /\ todo' = [todo EXCEPT ![d] = IF d \in leading THEN topology ELSE {}]
    /\ UNCHANGED <<topology, members, store, power, job, disturbed, faults>>

\* The sweep of d comes to n, d itself first: n is rendered from what etcd has
\* now, if n is part of it, and its MinIO recreated.
Recreate(d, n) ==
    /\ n \in todo[d] /\ (d \in todo[d] => n = d)
    /\ todo' = [todo EXCEPT ![d] = @ \ {n}]
    /\ volumes' = IF n \in topology THEN [volumes EXCEPT ![n] = topology] ELSE volumes
    /\ minio' = [minio EXCEPT ![n] = Started(volumes'[n])]
    /\ UNCHANGED <<topology, members, pool, pending, power, job, disturbed, faults>>

\* The event does not reach the daemon, or the rendering fails, or a call of the
\* sweep does; when a daemon exits, all it had before it fails.
HandlingFails(d) ==
    /\ \/ d \in pending /\ pending' = pending \ {d} /\ UNCHANGED todo
       \/ /\ \E n \in todo[d] : todo' = [todo EXCEPT ![d] = @ \ {n}]
          /\ UNCHANGED pending
    /\ Fault
    /\ disturbed' = TRUE
    /\ UNCHANGED <<topology, members, store, power, job>>

-----------------------------------------------------------------------------
(* run_remove_node *)

\* A job that has ended is of no daemon any more, and one without an effect
\* concerns no peer.
Goto(j, place) ==
    job' = [job EXCEPT ![j].at = place,
                       ![j].runner = IF place \in Ended THEN NoNode ELSE @,
                       ![j].target = IF place = "refused" THEN NoNode ELSE @]

\* POST /jobs is accepted by a daemon that takes itself for the leader.
Submit(j, r, t) ==
    /\ job[j].at = "idle" /\ r \in leading
    /\ \A i \in Job : i < j => job[i].at # "idle"
    /\ job' = [job EXCEPT ![j] = [at |-> "check", runner |-> r, target |-> t,
                                  blind |-> FALSE]]
    /\ UNCHANGED <<topology, members, store, sweep, power, disturbed, faults>>

\* The deployment is a 2.5 one and t has the broker, by the runner's cluster.env.
HostsPulsar(t) == t = PulsarHost

\* The topology and the leader's key are read: the peer is listed, it is not
\* the only one, nor the Pulsar host, nor the leader.
Check(j) ==
    LET t == job[j].target IN
    /\ job[j].at = "check"
    /\ Goto(j, IF /\ t \in topology /\ Cardinality(topology) > 1
                  /\ job[j].runner \in leading
                  /\ ~HostsPulsar(t) /\ t # leader
               THEN "preflight" ELSE "refused")
    /\ UNCHANGED <<topology, members, store, sweep, power, disturbed, faults>>

\* _decommission_state, asked on n: a crashed MinIO, like an unknown pool, is
\* "missing".
DecommissionState(n, t) ==
    IF minio[n] = "crashed" \/ t \notin volumes[n] THEN "missing" ELSE pool[t]

\* mc answers truly, or, seldom, not at all, which is "missing" too.
Answer(j, state) ==
    \/ /\ state = DecommissionState(job[j].runner, job[j].target)
       /\ UNCHANGED faults
    \/ state = "missing" /\ Fault

\* Faulty variant: a decommission under way is taken for one that is over.
PreflightHasty(j) ==
    /\ job[j].at = "preflight"
    /\ \E state \in PoolState \cup {"missing"} :
          /\ Answer(j, state)
          /\ Goto(j, CASE state \in {"complete", "active"} -> "delete"
                       [] state = "failed" -> "clear"
                       [] OTHER -> "start")
    /\ UNCHANGED <<topology, members, store, sweep, power, disturbed>>

\* What was left by an earlier removal decides whether to clear and start.
Preflight(j) ==
    /\ job[j].at = "preflight"
    /\ \E state \in PoolState \cup {"missing"} :
          /\ Answer(j, state)
          /\ Goto(j, CASE state \in {"complete", "active"} -> "poll"
                       [] state = "failed" -> "clear"
                       [] OTHER -> "start")
    /\ UNCHANGED <<topology, members, store, sweep, power, disturbed>>

\* Faulty variant: the cleared pool is taken off the table.
ClearDrops(j) ==
    LET t == job[j].target IN
    /\ job[j].at = "clear"
    /\ pool' = IF minio[job[j].runner] = "up" THEN [pool EXCEPT ![t] = "missing"] ELSE pool
    /\ Goto(j, "start")
    /\ UNCHANGED <<topology, members, volumes, minio, sweep, power, disturbed, faults>>

\* mc admin decommission cancel; its result is ignored.
Clear(j) ==
    LET t == job[j].target IN
    /\ job[j].at = "clear"
    /\ pool' = IF /\ minio[job[j].runner] = "up"
                  /\ pool[t] = "failed"
               THEN [pool EXCEPT ![t] = "none"] ELSE pool
    /\ Goto(j, "start")
    /\ UNCHANGED <<topology, members, volumes, minio, sweep, power, disturbed, faults>>

\* mc admin decommission start: it begins, or it is under way or over already,
\* or the pool is not there, or it is an error.
Start(j) ==
    LET t == job[j].target
        state == DecommissionState(job[j].runner, t)
    IN
    /\ job[j].at = "start"
    /\ \/ /\ state = "none"
          /\ pool' = [pool EXCEPT ![t] = "active"]
          /\ Goto(j, "poll")
       \/ /\ \/ state \in {"active", "complete"}
             \/ state = "missing" /\ minio[job[j].runner] = "up"
          /\ Goto(j, "poll")
          /\ UNCHANGED pool
       \/ /\ state \in {"failed", "missing"}
          /\ Goto(j, "failed")
          /\ UNCHANGED pool
    /\ UNCHANGED <<topology, members, volumes, minio, sweep, power, disturbed, faults>>

\* The poll goes on while the pool is active.  A pool that is missing from the
\* table is taken for drained.
Poll(j) ==
    /\ job[j].at = "poll"
    /\ \E state \in (PoolState \cup {"missing"}) \ {"active"} :
          /\ Answer(j, state)
          /\ job' = [job EXCEPT
                ![j].at = IF state \in {"complete", "missing"} THEN "delete"
                                                               ELSE "failed",
                ![j].runner = IF state \in {"complete", "missing"} THEN @ ELSE NoNode,
                ![j].blind = state = "missing"]
    /\ UNCHANGED <<topology, members, store, sweep, power, disturbed>>

\* 30 minutes have passed.
PollTimesOut(j) ==
    /\ job[j].at = "poll" /\ DecommissionState(job[j].runner, job[j].target) = "active"
    /\ Fault
    /\ Goto(j, "failed")
    /\ disturbed' = TRUE
    /\ UNCHANGED <<topology, members, store, sweep, power>>

DeleteEntry(j) ==
    /\ job[j].at = "delete"
    /\ topology' = topology \ {job[j].target}
    /\ IF job[j].target \in topology THEN Emit ELSE UNCHANGED sweep
    /\ Goto(j, "settle")
    /\ UNCHANGED <<members, store, power, disturbed, faults>>

\* _wait_minio_settled_after_remove waits until every survivor's daemon has
\* answered, or for 180 s; neither says that its MinIO was recreated.  Then the
\* etcd member is looked up and removed, if there is one; it is an error if
\* somebody removes it in between.  The peer's daemon has only its own etcd, so
\* it handles nothing from then on, also if it has come to lead.  The wait for the
\* proxies that follows is bounded and changes nothing.
RemoveMember(j) ==
    LET t == job[j].target IN
    /\ job[j].at = "settle"
    /\ members' = members \ {t}
    /\ pending' = pending \ {t}
    /\ todo' = [todo EXCEPT ![t] = {}]
    /\ disturbed' = (disturbed \/ t = leader \/ todo[t] # {})
    /\ \/ Goto(j, "done")
       \/ t \notin members /\ Goto(j, "failed")
    /\ UNCHANGED <<topology, store, power, faults>>

\* The job is cancelled, its daemon exits, or etcd does not answer.
Interrupt(j) ==
    /\ Fault
    /\ \/ /\ job[j].at \in {"check", "preflight"}
          /\ Goto(j, "refused")
          /\ UNCHANGED disturbed
       \/ /\ job[j].at \in {"clear", "start", "poll", "delete", "settle"}
          /\ Goto(j, "failed")
          /\ disturbed' = TRUE
    /\ UNCHANGED <<topology, members, store, sweep, power>>

-----------------------------------------------------------------------------
Work(j) ==
    \/ Check(j) \/ Preflight(j) \/ Clear(j) \/ Start(j) \/ Poll(j)
    \/ DeleteEntry(j) \/ RemoveMember(j)

Next ==
    \/ \E j \in Job : \/ \E r, t \in Node : Submit(j, r, t)
                      \/ Work(j) \/ PollTimesOut(j) \/ Interrupt(j)
    \/ \E n \in Node : \/ LeaderMoves(n) \/ LeaderNotices(n) \/ DecommissionEnds(n)
                       \/ MinioRestarts(n) \/ RegisterSelf(n)
                       \/ Dispatch(n) \/ HandlingFails(n)
                       \/ \E p \in Node : Recreate(n, p)

Spec == Init /\ [][Next]_vars

\* A job goes on by itself, and so do the handlers of an event and a sweep once
\* it has begun.  Nobody promises that there is a sweep, nor that MinIO ever
\* finishes a decommission.
FairSpec ==
    /\ Spec
    /\ \A j \in Job : WF_vars(Work(j))
    /\ \A d \in Node : WF_vars(Dispatch(d) \/ \E n \in Node : Recreate(d, n))

-----------------------------------------------------------------------------
(* Properties *)

\* "Required - stopping the pool's MinIO before decommission is done loses the
\* un-copied data" (remove_node.py 11-13): the entry of a peer disappears only
\* after its pool is drained, whatever earlier removals of it failed, were
\* interrupted or run at the same time, unless mc did not show the pool.
DrainedBeforeDeleted ==
    \A n \in Node \ topology :
        \/ pool[n] = "complete"
        \/ \E j \in Job : job[j].target = n /\ job[j].blind


=============================================================================
