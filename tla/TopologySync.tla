---------------------------- MODULE TopologySync ----------------------------
(***************************************************************************)
(* What a change of the topology sets off: the TopologyWatcher of every    *)
(* daemon (daemon/topology.py), the handlers it calls and the rolling      *)
(* recreation of MinIO that the leader drives (daemon/handlers.py, and     *)
(* POST /recreate-minio-self of daemon/api.py).                            *)
(*                                                                         *)
(* Peers are the numbers N of their names node-N.                          *)
(*                                                                         *)
(* topology     etcd: the peers under /cluster/topology/peers/             *)
(* leaders      the daemons whose is_leader is set                         *)
(* watcher[n]   "down" (no daemon), "seed" (get_prefix pending), "connect" *)
(*              (no stream), "open", "dead" (the task ended)               *)
(* stream[n]    the events in n's watch stream                             *)
(* mirror[n]    TopologyWatcher.peers                                      *)
(* kind[n]      the event n's handler works on, or "none"                  *)
(* queue[n]     handlers._lock: the holder, then those that wait for it;   *)
(*              the event handler, or a /recreate-minio-self request of    *)
(*              leader from (0 when the leader no longer waits)            *)
(* step[n]      the next step of the holder: "start", "ips", "names",      *)
(*              "render", "reload", "read", "up", "wait", "milvus",        *)
(*              "sweep"                                                    *)
(* fresh[n]     it is in recreate_minio_local, with a list read from etcd  *)
(* plan[n]      the list of peers it writes                                *)
(* todo[n], awaiting[n]   the peers n's sweep has still to call, and those *)
(*              whose answer it awaits                                     *)
(* ips[n], names[n]   PEER_IPS and PEER_NAMES in n's cluster.env           *)
(* rendered[n]  the peers in n's rendered/ tree                            *)
(* loaded[n]    the peers in the configuration that n's nginx, minio and   *)
(*              milvus containers run with                                 *)
(* unhealthy    the peers whose MinIO was recreated and is not healthy yet *)
(* changes, terms, exits, drops   joins and removals, changes of           *)
(*              leadership, daemon exits and failures so far               *)
(***************************************************************************)
EXTENDS Naturals, Sequences, FiniteSetsExt

CONSTANTS
    Node,       \* the peers that may exist
    Founders,   \* those of the cluster at the beginning
    MaxEvents,  \* bound on joins, removals and changes of leadership
    MaxFaults   \* bound on daemon exits, and on commands, requests and streams
                \* that fail or time out

ASSUME NodeAssumption ==
    /\ Node \subseteq Nat \ {0} /\ IsFiniteSet(Node)
    /\ Founders \subseteq Node /\ Founders # {}
ASSUME BoundAssumption ==
    MaxEvents \in Nat /\ MaxFaults \in Nat

VARIABLES topology, leaders, watcher, stream, mirror, kind, queue, step, fresh,
          plan, todo, awaiting, ips, names, rendered, loaded, unhealthy,
          changes, terms, exits, drops

vars == <<topology, leaders, watcher, stream, mirror, kind, queue, step, fresh,
          plan, todo, awaiting, ips, names, rendered, loaded, unhealthy,
          changes, terms, exits, drops>>
watching == <<watcher, stream, mirror>>
sweeping == <<todo, awaiting>>
files == <<ips, names, rendered>>
budget == <<changes, terms, exits, drops>>

Service == {"nginx", "minio", "milvus"}
Step == {"start", "ips", "names", "render", "reload", "read", "up", "wait",
         "milvus", "sweep"}
EventEntry == [by |-> "event", from |-> 0]
Request(n) == [by |-> "request", from |-> n]

TypeOK ==
    /\ topology \in SUBSET Node
    /\ leaders \in SUBSET Node
    /\ watcher \in [Node -> {"down", "seed", "connect", "open", "dead"}]
    /\ stream \in [Node -> Seq([type : {"PUT", "DELETE"}, peer : Node])]
    /\ mirror \in [Node -> SUBSET Node]
    /\ kind \in [Node -> {"none", "ADDED", "UPDATED", "REMOVED"}]
    /\ queue \in [Node -> Seq([by : {"event", "request"}, from : Node \cup {0}])]
    /\ step \in [Node -> Step]
    /\ fresh \in [Node -> BOOLEAN]
    /\ plan \in [Node -> SUBSET Node]
    /\ todo \in [Node -> SUBSET Node]
    /\ awaiting \in [Node -> SUBSET Node]
    /\ ips \in [Node -> SUBSET Node]
    /\ names \in [Node -> SUBSET Node]
    /\ rendered \in [Node -> SUBSET Node]
    /\ loaded \in [Node -> [Service -> SUBSET Node]]
    /\ unhealthy \in SUBSET Node
    /\ changes \in 0..MaxEvents /\ terms \in 0..MaxEvents
    /\ exits \in 0..MaxFaults /\ drops \in 0..MaxFaults

\* A cluster of the founders, at rest; nobody else has a cluster.env.
Init ==
    /\ topology = Founders
    /\ \E l \in Founders : leaders = {l}
    /\ watcher = [n \in Node |-> IF n \in Founders THEN "open" ELSE "down"]
    /\ stream = [n \in Node |-> <<>>]
    /\ mirror = [n \in Node |-> IF n \in Founders THEN Founders ELSE {}]
    /\ kind = [n \in Node |-> "none"]
    /\ queue = [n \in Node |-> <<>>]
    /\ step = [n \in Node |-> "start"]
    /\ fresh = [n \in Node |-> FALSE]
    /\ plan = [n \in Node |-> {}]
    /\ todo = [n \in Node |-> {}]
    /\ awaiting = [n \in Node |-> {}]
    /\ ips = [n \in Node |-> IF n \in Founders THEN Founders ELSE {}]
    /\ names = ips /\ rendered = ips
    /\ loaded = [n \in Node |-> [s \in Service |-> ips[n]]]
    /\ unhealthy = {}
    /\ changes = 0 /\ terms = 0 /\ exits = 0 /\ drops = 0

Running(n) == watcher[n] # "down"

Drop ==
    /\ exits + drops < MaxFaults
    /\ drops' = drops + 1
    /\ UNCHANGED <<changes, terms, exits>>

-----------------------------------------------------------------------------
(* The topology in etcd *)

\* An event reaches the streams that are open.
Emit(type, p) ==
    stream' = [n \in Node |->
                 IF watcher[n] = "open"
                 THEN Append(stream[n], [type |-> type, peer |-> p])
                 ELSE stream[n]]

Change ==
    /\ changes + terms < MaxEvents
    /\ changes' = changes + 1
    /\ UNCHANGED <<terms, exits, drops>>

\* A peer joins: the leader writes the entry, and the cluster.env in its
\* answer lists the peers including the new one.  There is no rendered/ yet.
JoinPeer(n) ==
    /\ n \notin topology /\ ~Running(n) /\ leaders # {}
    /\ Change
    /\ topology' = topology \cup {n}
    /\ Emit("PUT", n)
    /\ ips' = [ips EXCEPT ![n] = topology']
    /\ names' = [names EXCEPT ![n] = topology']
    /\ rendered' = [rendered EXCEPT ![n] = {}]
    /\ UNCHANGED <<leaders, watcher, mirror, kind, queue, step, fresh, plan,
                   sweeping, loaded, unhealthy>>

\* A peer that is not the leader is removed; its daemon goes on.
RemovePeer(n) ==
    /\ n \in topology \ leaders /\ leaders # {}
    /\ Change
    /\ topology' = topology \ {n}
    /\ Emit("DELETE", n)
    /\ UNCHANGED <<leaders, watcher, mirror, kind, queue, step, fresh, plan,
                   sweeping, files, loaded, unhealthy>>

-----------------------------------------------------------------------------
(* The daemon's start, and TopologyWatcher.run *)

\* Bootstrap, or docker after an exit, starts the daemon, which registers
\* itself if the topology does not have it.  The first time there is a
\* render, and the containers come up with it.
StartDaemon(n) ==
    /\ ~Running(n) /\ ips[n] # {}
    /\ watcher' = [watcher EXCEPT ![n] = "seed"]
    /\ IF n \in topology
       THEN UNCHANGED <<topology, stream>>
       ELSE topology' = topology \cup {n} /\ Emit("PUT", n)
    /\ IF rendered[n] = {}
       THEN /\ rendered' = [rendered EXCEPT ![n] = ips[n]]
            /\ loaded' = [loaded EXCEPT ![n] = [s \in Service |-> ips[n]]]
       ELSE UNCHANGED <<rendered, loaded>>
    /\ UNCHANGED <<leaders, mirror, kind, queue, step, fresh, plan, sweeping,
                   ips, names, unhealthy, budget>>

\* _seed fills the mirror; no handler is called.
Seed(n) ==
    /\ watcher[n] = "seed"
    /\ mirror' = [mirror EXCEPT ![n] = topology]
    /\ watcher' = [watcher EXCEPT ![n] = "connect"]
    /\ UNCHANGED <<topology, leaders, stream, kind, queue, step, fresh, plan,
                   sweeping, files, loaded, unhealthy, budget>>

\* The read fails after its retries: the watcher task is over.
SeedRaise(n) ==
    /\ watcher[n] = "seed"
    /\ Drop
    /\ watcher' = [watcher EXCEPT ![n] = "dead"]
    /\ UNCHANGED <<topology, leaders, stream, mirror, kind, queue, step, fresh,
                   plan, sweeping, files, loaded, unhealthy>>

\* The stream opens; it has no start_revision.
Open(n) ==
    /\ watcher[n] = "connect"
    /\ watcher' = [watcher EXCEPT ![n] = "open"]
    /\ UNCHANGED <<topology, leaders, stream, mirror, kind, queue, step, fresh,
                   plan, sweeping, files, loaded, unhealthy, budget>>

\* The stream breaks, with what was in it.
Break(n) ==
    /\ watcher[n] = "open"
    /\ Drop
    /\ watcher' = [watcher EXCEPT ![n] = "connect"]
    /\ stream' = [stream EXCEPT ![n] = <<>>]
    /\ UNCHANGED <<topology, leaders, mirror, kind, queue, step, fresh, plan,
                   sweeping, files, loaded, unhealthy>>

\* Faulty variant: the handler is called with the event's type.
ApplyRawType(n) ==
    /\ watcher[n] = "open" /\ kind[n] = "none" /\ stream[n] # <<>>
    /\ kind' = [kind EXCEPT ![n] = Head(stream[n]).type]
    /\ stream' = [stream EXCEPT ![n] = Tail(@)]
    /\ queue' = [queue EXCEPT ![n] = Append(@, EventEntry)]
    /\ UNCHANGED <<topology, leaders, watcher, mirror, step, fresh, plan,
                   sweeping, files, loaded, unhealthy, budget>>

\* _apply_event: the mirror follows, and the handler asks for the lock.
Apply(n) ==
    /\ watcher[n] = "open" /\ kind[n] = "none" /\ stream[n] # <<>>
    /\ LET ev == Head(stream[n])
       IN  IF ev.type = "DELETE"
           THEN /\ mirror' = [mirror EXCEPT ![n] = @ \ {ev.peer}]
                /\ kind' = [kind EXCEPT ![n] = "REMOVED"]
           ELSE /\ mirror' = [mirror EXCEPT ![n] = @ \cup {ev.peer}]
                /\ kind' = [kind EXCEPT ![n] =
                              IF ev.peer \in mirror[n] THEN "UPDATED" ELSE "ADDED"]
    /\ stream' = [stream EXCEPT ![n] = Tail(@)]
    /\ queue' = [queue EXCEPT ![n] = Append(@, EventEntry)]
    /\ UNCHANGED <<topology, leaders, watcher, step, fresh, plan, sweeping,
                   files, loaded, unhealthy, budget>>

-----------------------------------------------------------------------------
(* The holder of the lock *)

At(n, s) == queue[n] # <<>> /\ step[n] = s
IsEvent(n) == Head(queue[n]).by = "event"

GoTo(n, s) == step' = [step EXCEPT ![n] = s]

\* The holder is done and releases the lock; a leader that waits for the
\* answer gets it.
Finish(n) ==
    /\ queue' = [queue EXCEPT ![n] = Tail(@)]
    /\ step' = [step EXCEPT ![n] = "start"]
    /\ fresh' = [fresh EXCEPT ![n] = FALSE]
    /\ plan' = [plan EXCEPT ![n] = {}]
    /\ kind' = IF IsEvent(n) THEN [kind EXCEPT ![n] = "none"] ELSE kind
    /\ awaiting' = [l \in Node |->
                      IF l = Head(queue[n]).from THEN awaiting[l] \ {n}
                      ELSE awaiting[l]]

\* The lock is acquired: _dispatch writes the mirror, a request begins with
\* a read of etcd.
Begin(n) ==
    /\ At(n, "start")
    /\ IF IsEvent(n)
       THEN GoTo(n, "ips") /\ plan' = [plan EXCEPT ![n] = mirror[n]]
       ELSE GoTo(n, "read") /\ UNCHANGED plan
    /\ UNCHANGED <<topology, leaders, watching, kind, queue, fresh, sweeping,
                   files, loaded, unhealthy, budget>>

\* recreate_minio_local reads the topology.
ReadFresh(n) ==
    /\ At(n, "read")
    /\ plan' = [plan EXCEPT ![n] = topology]
    /\ fresh' = [fresh EXCEPT ![n] = TRUE]
    /\ GoTo(n, "ips")
    /\ UNCHANGED <<topology, leaders, watching, kind, queue, sweeping, files,
                   loaded, unhealthy, budget>>

\* The read raises: _notify logs it and the sweep is off; a request answers
\* that its MinIO is not healthy.
ReadRaise(n) ==
    /\ At(n, "read")
    /\ Drop
    /\ Finish(n)
    /\ UNCHANGED <<topology, leaders, watching, todo, files, loaded, unhealthy>>

\* The step after _sync_cluster_env_and_render returned True.
Synced(n) == GoTo(n, IF fresh[n] THEN "up" ELSE "reload")

\* An empty list, or one without this peer, is not written; that counts as a
\* success.
SkipWrite(n) ==
    /\ At(n, "ips") /\ n \notin plan[n]
    /\ Synced(n)
    /\ UNCHANGED <<topology, leaders, watching, kind, queue, fresh, plan,
                   sweeping, files, loaded, unhealthy, budget>>

\* Faulty variant: the list is written whether it has this peer or not.
WriteIpsUnguarded(n) ==
    /\ At(n, "ips")
    /\ ips' = [ips EXCEPT ![n] = plan[n]]
    /\ GoTo(n, "names")
    /\ UNCHANGED <<topology, leaders, watching, kind, queue, fresh, plan,
                   sweeping, names, rendered, loaded, unhealthy, budget>>

WriteIps(n) ==
    /\ At(n, "ips") /\ n \in plan[n]
    /\ ips' = [ips EXCEPT ![n] = plan[n]]
    /\ GoTo(n, "names")
    /\ UNCHANGED <<topology, leaders, watching, kind, queue, fresh, plan,
                   sweeping, names, rendered, loaded, unhealthy, budget>>

WriteNames(n) ==
    /\ At(n, "names")
    /\ names' = [names EXCEPT ![n] = plan[n]]
    /\ GoTo(n, "render")
    /\ UNCHANGED <<topology, leaders, watching, kind, queue, fresh, plan,
                   sweeping, ips, rendered, loaded, unhealthy, budget>>

Render(n) ==
    /\ At(n, "render")
    /\ rendered' = [rendered EXCEPT ![n] = ips[n]]
    /\ Synced(n)
    /\ UNCHANGED <<topology, leaders, watching, kind, queue, fresh, plan,
                   sweeping, ips, names, loaded, unhealthy, budget>>

\* Render fails: _dispatch gives up, recreate_minio_local ignores it.
RenderFail(n) ==
    /\ At(n, "render")
    /\ Drop
    /\ IF fresh[n]
       THEN GoTo(n, "up") /\ UNCHANGED <<kind, queue, fresh, plan, awaiting>>
       ELSE Finish(n)
    /\ UNCHANGED <<topology, leaders, watching, todo, files, loaded, unhealthy>>

\* Faulty variant: only a join is swept.
SweepsOnlyAdded(n) == kind[n] = "ADDED" /\ n \in leaders

\* Whether _dispatch goes on to the rolling recreation.
Sweeps(n) == kind[n] \in {"ADDED", "REMOVED"} /\ n \in leaders

\* nginx reloads, or does not, which is logged; a leader goes on to recreate.
Reload(n) ==
    /\ At(n, "reload")
    /\ \/ loaded' = [loaded EXCEPT ![n]["nginx"] = rendered[n]] /\ UNCHANGED budget
       \/ UNCHANGED loaded /\ Drop
    /\ IF Sweeps(n)
       THEN GoTo(n, "read") /\ UNCHANGED <<kind, queue, fresh, plan, awaiting>>
       ELSE Finish(n)
    /\ UNCHANGED <<topology, leaders, watching, todo, files, unhealthy>>

\* The end of recreate_minio_local: a leader calls its followers, those in
\* its mirror; a request answers.
Recreated(n) ==
    IF IsEvent(n)
    THEN /\ GoTo(n, "sweep")
         /\ todo' = [todo EXCEPT ![n] = mirror[n] \ {n}]
         /\ UNCHANGED <<kind, queue, fresh, plan, awaiting>>
    ELSE Finish(n) /\ UNCHANGED todo

\* docker compose up --force-recreate minio.
UpMinio(n) ==
    /\ At(n, "up")
    /\ loaded' = [loaded EXCEPT ![n]["minio"] = rendered[n]]
    /\ unhealthy' = unhealthy \cup {n}
    /\ GoTo(n, "wait")
    /\ UNCHANGED <<topology, leaders, watching, kind, queue, fresh, plan,
                   sweeping, files, budget>>

\* It fails: recreate_minio_local logs it and returns.
UpMinioFail(n) ==
    /\ At(n, "up")
    /\ Drop
    /\ Recreated(n)
    /\ UNCHANGED <<topology, leaders, watching, files, loaded, unhealthy>>

\* MinIO comes up.
MinioHealthy(n) ==
    /\ n \in unhealthy
    /\ unhealthy' = unhealthy \ {n}
    /\ UNCHANGED <<topology, leaders, watching, kind, queue, step, fresh, plan,
                   sweeping, files, loaded, budget>>

\* _wait_minio_healthy returns: True, or False after the timeout, which
\* nobody looks at.
Waited(n) ==
    /\ At(n, "wait")
    /\ IF n \in unhealthy THEN Drop ELSE UNCHANGED budget
    /\ GoTo(n, "milvus")
    /\ UNCHANGED <<topology, leaders, watching, kind, queue, fresh, plan,
                   sweeping, files, loaded, unhealthy>>

\* The milvus services are recreated, or not, which is logged.
UpMilvus(n) ==
    /\ At(n, "milvus")
    /\ \/ loaded' = [loaded EXCEPT ![n]["milvus"] = rendered[n]] /\ UNCHANGED budget
       \/ UNCHANGED loaded /\ Drop
    /\ Recreated(n)
    /\ UNCHANGED <<topology, leaders, watching, files, unhealthy>>

-----------------------------------------------------------------------------
(* _rolling_minio_recreate *)

\* Faulty variant: a removal's parallel calls, whatever the event.
MayCallParallel(n) == TRUE

\* The calls go out one at a time, except for a removal.
MayCall(n) == kind[n] = "REMOVED" \/ awaiting[n] = {}

\* The next follower is called; one without a daemon refuses the connection.
SweepCall(n) ==
    /\ At(n, "sweep") /\ todo[n] # {} /\ MayCall(n)
    /\ LET p == Min(todo[n])
       IN  /\ todo' = [todo EXCEPT ![n] = @ \ {p}]
           /\ IF Running(p)
              THEN /\ awaiting' = [awaiting EXCEPT ![n] = @ \cup {p}]
                   /\ queue' = [queue EXCEPT ![p] = Append(@, Request(n))]
              ELSE UNCHANGED <<awaiting, queue>>
    /\ UNCHANGED <<topology, leaders, watching, kind, step, fresh, plan, files,
                   loaded, unhealthy, budget>>

\* A request of n in a queue is one nobody waits for any more.
Abandon(q, n) ==
    [i \in DOMAIN q |-> IF q[i] = Request(n) THEN Request(0) ELSE q[i]]

\* p's lock is held by a sweep of its own, which waits for others.
Sweeping(p) == At(p, "sweep")

\* Faulty variant: there is no timeout.
RpcTimeoutNever(n, p) == FALSE /\ UNCHANGED vars

\* The call times out or its connection is lost; p goes on with it.
RpcTimeout(n, p) ==
    /\ p \in awaiting[n]
    /\ IF Sweeping(p) THEN UNCHANGED budget ELSE Drop
    /\ awaiting' = [awaiting EXCEPT ![n] = @ \ {p}]
    /\ queue' = [queue EXCEPT ![p] = Abandon(@, n)]
    /\ UNCHANGED <<topology, leaders, watching, kind, step, fresh, plan, todo,
                   files, loaded, unhealthy>>

SweepEnd(n) ==
    /\ At(n, "sweep") /\ todo[n] = {} /\ awaiting[n] = {}
    /\ Finish(n)
    /\ UNCHANGED <<topology, leaders, watching, todo, files, loaded, unhealthy,
                   budget>>

-----------------------------------------------------------------------------
(* Leadership and processes *)

Term ==
    /\ changes + terms < MaxEvents
    /\ terms' = terms + 1
    /\ UNCHANGED <<changes, exits, drops>>

\* Possibly while another daemon still takes itself for the leader.
BecomeLeader(n) ==
    /\ Running(n) /\ n \in topology \ leaders
    /\ Term
    /\ leaders' = leaders \cup {n}
    /\ UNCHANGED <<topology, watching, kind, queue, step, fresh, plan, sweeping,
                   files, loaded, unhealthy>>

LoseLeadership(n) ==
    /\ n \in leaders
    /\ Term
    /\ leaders' = leaders \ {n}
    /\ UNCHANGED <<topology, watching, kind, queue, step, fresh, plan, sweeping,
                   files, loaded, unhealthy>>

\* The daemon exits, with all it was doing.  Who waits for it loses the
\* connection; what it asked of others goes on.
ExitDaemon(n) ==
    /\ Running(n)
    /\ exits + drops < MaxFaults
    /\ exits' = exits + 1
    /\ leaders' = leaders \ {n}
    /\ watcher' = [watcher EXCEPT ![n] = "down"]
    /\ stream' = [stream EXCEPT ![n] = <<>>]
    /\ mirror' = [mirror EXCEPT ![n] = {}]
    /\ kind' = [kind EXCEPT ![n] = "none"]
    /\ queue' = [p \in Node |-> IF p = n THEN <<>> ELSE Abandon(queue[p], n)]
    /\ step' = [step EXCEPT ![n] = "start"]
    /\ fresh' = [fresh EXCEPT ![n] = FALSE]
    /\ plan' = [plan EXCEPT ![n] = {}]
    /\ todo' = [todo EXCEPT ![n] = {}]
    /\ awaiting' = [l \in Node |-> IF l = n THEN {} ELSE awaiting[l] \ {n}]
    /\ UNCHANGED <<topology, files, loaded, unhealthy, changes, terms, drops>>

-----------------------------------------------------------------------------
\* The watcher task of n.
Watch(n) == Seed(n) \/ Open(n) \/ Apply(n)

\* The holder of n's lock.
Handle(n) ==
    \/ Begin(n) \/ ReadFresh(n) \/ SkipWrite(n) \/ WriteIps(n) \/ WriteNames(n)
    \/ Render(n) \/ Reload(n) \/ UpMinio(n) \/ Waited(n) \/ UpMilvus(n)
    \/ SweepCall(n) \/ SweepEnd(n)

Fail(n) ==
    SeedRaise(n) \/ Break(n) \/ ReadRaise(n) \/ RenderFail(n) \/ UpMinioFail(n)

Next ==
    \/ \E n \in Node :
          \/ JoinPeer(n) \/ RemovePeer(n) \/ StartDaemon(n)
          \/ Watch(n) \/ Handle(n) \/ Fail(n) \/ MinioHealthy(n)
          \/ BecomeLeader(n) \/ LoseLeadership(n) \/ ExitDaemon(n)
    \/ \E n, p \in Node : RpcTimeout(n, p)

Spec == Init /\ [][Next]_vars

\* Tasks go on, MinIO comes up, a daemon that is gone is started again, and a
\* call that is not answered times out.
Fairness ==
    /\ \A n \in Node :
          /\ WF_vars(Watch(n)) /\ WF_vars(Handle(n))
          /\ WF_vars(MinioHealthy(n)) /\ WF_vars(StartDaemon(n))
    /\ \A n, p \in Node : WF_vars(Sweeping(p) /\ RpcTimeout(n, p))

FairSpec == Spec /\ Fairness

-----------------------------------------------------------------------------
(* Properties *)

\* A peer's cluster.env never loses the peer itself (the BUG-D guard,
\* handlers.py 161-178), though mirrors lag, streams break, daemons restart
\* and peers are removed: role_detect would fail on every command.
OwnPeerIsListed ==
    \A n \in Node : ips[n] # {} => n \in ips[n] \cap names[n]

\* "recreate every peer's MinIO sequentially so the cluster keeps quorum
\* throughout" (handlers.py 112-114): while one daemon leads and nothing
\* fails, no more than one MinIO is down, unless the parallel sweep of a
\* removal is under way (handlers.py 593-614).
OneMinioAtATime ==
    terms = 0 /\ exits = 0 /\ drops = 0
    /\ (\A n \in Node : kind[n] = "REMOVED" => step[n] # "sweep")
       => Cardinality(unhealthy) <= 1

\* Every handler comes to an end and the lock is free again, also when two
\* daemons take themselves for the leader and each, holding its own lock,
\* calls the other (handlers.py 570-591, api.py 596-599).
HandlersFinish == \A n \in Node : queue[n] # <<>> ~> queue[n] = <<>>

Current(n) ==
    /\ ips[n] = topology /\ names[n] = topology /\ rendered[n] = topology
    /\ \A s \in Service : loaded[n][s] = topology

\* "each peer keeps its local rendered/ + cluster.env + nginx config in
\* lockstep with etcd without operator intervention" (handlers.py 5-7): the
\* peers that watched from the beginning end up with the topology in their
\* files and in their containers, however joins, removals and sweeps overlap,
\* unless the leadership changes.
WatchersConverge ==
    <>[](terms > 0 \/ \A n \in Founders \cap topology : Current(n))

=============================================================================
