------------------------------- MODULE Pulsar -------------------------------
(***************************************************************************)
(* The Pulsar singleton of a 2.5 cluster: the migrate-pulsar worker        *)
(* (daemon/workers/migrate_pulsar.py), /admin/sync-pulsar-host on every    *)
(* peer (handlers.apply_pulsar_host_change), and the peer watchdog         *)
(* (daemon/watchdog.py) that submits a migration by itself when the Pulsar *)
(* host stays unreachable.                                                 *)
(*                                                                         *)
(* up          the peers that are reachable                                *)
(* leader      the peer that leads                                         *)
(* host[n]     PULSAR_HOST in n's cluster.env                              *)
(* conn[n]     the broker n's running Milvus was started with              *)
(* broker      the peers with a Pulsar container                           *)
(* misses[n][m], fired[n]  n's watchdog: _consecutive_misses, counted up   *)
(*             to Threshold, and _migrated_while_down                      *)
(* job[j]      a migration: where it stands, its runner, the new host, the *)
(*             old one as its runner knew it, force_when_old_host_dead,    *)
(*             the peers it must apply and verify, those left to apply     *)
(* tangled     not in the code: two migrations were under way at once      *)
(* outages, moves, manual  how often a peer went down, leadership moved,   *)
(*             and the operator submitted a migration                      *)
(***************************************************************************)
EXTENDS Naturals, FiniteSets, FiniteSetsExt

CONSTANTS
    Node,           \* numbered like node-1, node-2, ...
    Job,
    Threshold,      \* auto_migrate_pulsar_threshold
    MaxOutages, MaxMoves, MaxManual     \* bounds on what happens from outside

ASSUME NodeAssumption == Node \subseteq Nat \ {0} /\ Cardinality(Node) > 1 /\ 1 \in Node
ASSUME BoundAssumption ==
    /\ Threshold \in Nat \ {0}
    /\ MaxOutages \in Nat /\ MaxMoves \in Nat /\ MaxManual \in Nat

VARIABLES up, leader, host, conn, broker, misses, fired, job, tangled,
          outages, moves, manual

config == <<host, conn, broker>>
watch == <<misses, fired>>
bounds == <<outages, moves, manual>>
vars == <<up, leader, config, watch, job, tangled, bounds>>

Place == {"idle", "start", "preflight", "apply", "recreate", "verify", "done", "failed"}
Free == {"idle", "done"}
Live == Place \ {"idle", "done", "failed"}

TypeOK ==
    /\ up \in SUBSET Node /\ leader \in Node
    /\ host \in [Node -> Node] /\ conn \in [Node -> Node] /\ broker \in SUBSET Node
    /\ misses \in [Node -> [Node -> 0..Threshold]]
    /\ fired \in [Node -> SUBSET Node]
    /\ job \in [Job -> [at : Place, runner : Node \cup {0}, to : Node \cup {0},
                        old : Node \cup {0}, force : BOOLEAN,
                        peers : SUBSET Node, todo : SUBSET Node]]
    /\ tangled \in BOOLEAN
    /\ outages \in 0..MaxOutages /\ moves \in 0..MaxMoves /\ manual \in 0..MaxManual

NoJob == [at |-> "idle", runner |-> 0, to |-> 0, old |-> 0, force |-> FALSE,
          peers |-> {}, todo |-> {}]

Init ==
    /\ up = Node /\ leader \in Node
    /\ host = [n \in Node |-> 1] /\ conn = [n \in Node |-> 1] /\ broker = {1}
    /\ misses = [n \in Node |-> [m \in Node |-> 0]]
    /\ fired = [n \in Node |-> {}]
    /\ job = [j \in Job |-> NoJob]
    /\ tangled = FALSE
    /\ outages = 0 /\ moves = 0 /\ manual = 0

-----------------------------------------------------------------------------
(* Jobs *)

Goto(j, place) ==
    job' = [job EXCEPT ![j] = IF place = "done" THEN [NoJob EXCEPT !.at = "done"]
                              ELSE IF place = "failed" THEN [NoJob EXCEPT !.at = "failed"]
                              ELSE [@ EXCEPT !.at = place]]

\* jobs_mgr.create on runner r.
Create(j, r, to, force) ==
    /\ job[j].at \in Free
    /\ \A i \in Job : job[i].at \in Free => i >= j
    /\ job' = [job EXCEPT ![j] = [NoJob EXCEPT !.at = "start", !.runner = r, !.to = to,
                                               !.force = force]]
    /\ tangled' = (tangled \/ \E i \in Job : job[i].at \in Live)

-----------------------------------------------------------------------------
(* Outages and leadership *)

\* A peer's machine goes down, with the jobs of its daemon and what its
\* watchdog had counted; its containers come back with it.
PeerDown(n) ==
    /\ up = Node /\ outages < MaxOutages
    /\ up' = up \ {n}
    /\ outages' = outages + 1
    /\ misses' = [misses EXCEPT ![n] = [m \in Node |-> 0]]
    /\ fired' = [fired EXCEPT ![n] = {}]
    /\ job' = [j \in Job |-> IF job[j].at \in Live /\ job[j].runner = n
                             THEN [NoJob EXCEPT !.at = "failed"] ELSE job[j]]
    /\ UNCHANGED <<leader, config, tangled, moves, manual>>

PeerUp(n) ==
    /\ n \in Node \ up
    /\ up' = up \cup {n}
    /\ UNCHANGED <<leader, config, watch, job, tangled, bounds>>

\* Leadership moves off a peer that is down, or for any other reason.
LeaderMoves(n) ==
    /\ n \in up \ {leader}
    /\ \/ leader \notin up /\ UNCHANGED moves
       \/ leader \in up /\ moves < MaxMoves /\ moves' = moves + 1
    /\ leader' = n
    /\ UNCHANGED <<up, config, watch, job, tangled, outages, manual>>

-----------------------------------------------------------------------------
(* PeerReachabilityWatchdog *)

\* A probe that succeeds: the peer is back.
ProbeOk(n, m) ==
    /\ n \in up /\ m \in up \ {n}
    /\ misses[n][m] > 0
    /\ misses' = [misses EXCEPT ![n][m] = 0]
    /\ fired' = [fired EXCEPT ![n] = @ \ {m}]
    /\ UNCHANGED <<up, leader, config, job, tangled, bounds>>

\* Faulty variant: the count goes on.
MissedOn(n, m) == misses[n][m] + 1

\* A probe that fails, and whether it is the one that makes n migrate.
Missed(n, m) == IF misses[n][m] < Threshold THEN misses[n][m] + 1 ELSE Threshold
Gate(n, m) ==
    /\ n = leader /\ m \notin fired[n]
    /\ Missed(n, m) >= Threshold
    /\ host[n] = m

ProbeFails(n, m) ==
    /\ n \in up /\ m \in Node \ up
    /\ ~Gate(n, m) /\ misses[n][m] < Threshold
    /\ misses' = [misses EXCEPT ![n][m] = Missed(n, m)]
    /\ UNCHANGED <<up, leader, config, fired, job, tangled, bounds>>

\* Faulty variant: the peer is marked before the gate looks at PULSAR_HOST.
AutoMigrateEager(n, m) ==
    /\ n \in up /\ m \in Node \ up
    /\ n = leader /\ m \notin fired[n]
    /\ misses' = [misses EXCEPT ![n][m] = Missed(n, m)]
    /\ fired' = [fired EXCEPT ![n] = @ \cup {m}]
    /\ \/ /\ Gate(n, m)
          /\ \E j \in Job : Create(j, n, Min(Node \ {m}), TRUE)
       \/ /\ ~Gate(n, m)
          /\ UNCHANGED <<job, tangled>>
    /\ UNCHANGED <<up, leader, config, bounds>>

\* _maybe_auto_migrate_pulsar: the first survivor becomes the new host.  (When
\* the job cannot be created the mark is taken back: a probe like any other.)
AutoMigrate(n, m) ==
    /\ n \in up /\ m \in Node \ up
    /\ Gate(n, m)
    /\ misses' = [misses EXCEPT ![n][m] = Missed(n, m)]
    /\ fired' = [fired EXCEPT ![n] = @ \cup {m}]
    /\ \E j \in Job : Create(j, n, Min(Node \ {m}), TRUE)
    /\ UNCHANGED <<up, leader, config, bounds>>

\* The operator's migrate-pulsar, sent on to the leader.
Submit(to) ==
    /\ leader \in up /\ manual < MaxManual
    /\ manual' = manual + 1
    /\ \E j \in Job : Create(j, leader, to, FALSE)
    /\ UNCHANGED <<up, leader, config, watch, outages, moves>>

-----------------------------------------------------------------------------
(* run_migrate_pulsar *)

\* The runner must lead; PULSAR_HOST of its own cluster.env is the old host.
Start(j) ==
    LET r == job[j].runner IN
    /\ job[j].at = "start"
    /\ \/ /\ r # leader
          /\ Goto(j, "failed")
       \/ /\ r = leader /\ host[r] = job[j].to
          /\ Goto(j, "done")
       \/ /\ r = leader /\ host[r] # job[j].to
          /\ job' = [job EXCEPT ![j].at = "preflight", ![j].old = host[r]]
    /\ UNCHANGED <<up, leader, config, watch, tangled, bounds>>

\* _preflight_peers_reachable: the peers whose /health does not answer.
Unreachable == Node \ up

\* Every peer must answer, but for the old host of a forced migration.
Preflight(j) ==
    /\ job[j].at = "preflight"
    /\ \/ /\ Unreachable = {}
          /\ job' = [job EXCEPT ![j].at = "apply", ![j].peers = Node, ![j].todo = Node]
       \/ /\ job[j].force /\ Unreachable = {job[j].old}
          /\ job' = [job EXCEPT ![j].at = "apply", ![j].peers = up, ![j].todo = up]
       \/ /\ Unreachable # {} /\ ~(job[j].force /\ Unreachable = {job[j].old})
          /\ Goto(j, "failed")
    /\ UNCHANGED <<up, leader, config, watch, tangled, bounds>>

\* Faulty variant: the old host is not kept for the end.
TurnSorted(j) == Min(job[j].todo)

\* The new host first, the old one last, the others by number.
Turn(j) ==
    LET others == job[j].todo \ {job[j].old} IN
    IF job[j].to \in job[j].todo THEN job[j].to
    ELSE IF others # {} THEN Min(others) ELSE job[j].old

\* The next peer writes PULSAR_HOST to its cluster.env.
ApplyWrite(j) ==
    /\ job[j].at = "apply" /\ job[j].todo # {}
    /\ Turn(j) \in up
    /\ host' = [host EXCEPT ![Turn(j)] = job[j].to]
    /\ Goto(j, "recreate")
    /\ UNCHANGED <<up, leader, conn, broker, watch, tangled, bounds>>

\* It renders and recreates Milvus and Pulsar from what its file says by now.
ApplyRecreate(j) ==
    LET n == Turn(j) IN
    /\ job[j].at = "recreate" /\ n \in up
    /\ conn' = [conn EXCEPT ![n] = host[n]]
    /\ broker' = IF host[n] = n THEN broker \cup {n} ELSE broker \ {n}
    /\ job' = [job EXCEPT ![j].at = "apply", ![j].todo = @ \ {n}]
    /\ UNCHANGED <<up, leader, host, watch, tangled, bounds>>

\* The peer is down, or render or compose fails there: the migration stops.
ApplyFails(j) ==
    /\ job[j].at \in {"apply", "recreate"} /\ job[j].todo # {}
    /\ Goto(j, "failed")
    /\ UNCHANGED <<up, leader, config, watch, tangled, bounds>>

BeginVerify(j) ==
    /\ job[j].at = "apply" /\ job[j].todo = {}
    /\ Goto(j, "verify")
    /\ UNCHANGED <<up, leader, config, watch, tangled, bounds>>

\* _verify_pulsar_host_everywhere: who does not answer with the new host when
\* asked for the PULSAR_HOST of its cluster.env.
Mismatches(j) == {n \in job[j].peers : n \notin up \/ host[n] # job[j].to}

Verify(j) ==
    /\ job[j].at = "verify"
    /\ Goto(j, IF Mismatches(j) = {} THEN "done" ELSE "failed")
    /\ UNCHANGED <<up, leader, config, watch, tangled, bounds>>

-----------------------------------------------------------------------------
Work(j) ==
    \/ Start(j) \/ Preflight(j) \/ ApplyWrite(j) \/ ApplyRecreate(j) \/ ApplyFails(j)
    \/ BeginVerify(j) \/ Verify(j)

Probe(n, m) == ProbeOk(n, m) \/ ProbeFails(n, m) \/ AutoMigrate(n, m)

Next ==
    \/ \E j \in Job : Work(j)
    \/ \E n, m \in Node : Probe(n, m)
    \/ \E n \in Node : PeerDown(n) \/ PeerUp(n) \/ LeaderMoves(n) \/ Submit(n)

Spec == Init /\ [][Next]_vars

\* Watchdogs tick, jobs go on, and a dead leader is replaced.
FairSpec ==
    /\ Spec
    /\ \A j \in Job : WF_vars(Work(j))
    /\ \A n, m \in Node : WF_vars(Probe(n, m))
    /\ WF_vars(leader \notin up /\ \E n \in Node : LeaderMoves(n))

-----------------------------------------------------------------------------
(* Properties *)

Failed == \E j \in Job : job[j].at = "failed"

\* Peer n waits for its turn in a migration that takes another peer than n's
\* broker for the old host: the runner's PULSAR_HOST was out of date.
Misled(n) == \E j \in Job : n \in job[j].todo /\ conn[n] # job[j].old

\* "Order matters: bring up Pulsar on the new host BEFORE pointing any Milvus
\* at it; tear down old Pulsar LAST" (migrate_pulsar.py 155-156): at every step
\* of a migration every Milvus is connected to a peer that has a broker, also
\* when hosts go down and come back in the middle and the next migration starts
\* from there.  Two migrations at once, or one that failed, may break it, and a
\* migration run by a former host that came back breaks it for those misled.
BrokerFirst ==
    tangled \/ Failed \/ \A n \in up : conn[n] \in broker \/ Misled(n)

\* "Optionally auto-migrates the 2.5 Pulsar singleton off a persistently-down
\* host" (watchdog.py 226-229): after the leader's Pulsar host went down, every
\* peer that is up is connected to a peer that is up again, unless a migration
\* fails.  Flaps, a new leader that submits the same once more, and a manual
\* migration at the same time do not prevent it.
OutageIsMigrated ==
    (leader \in up /\ host[leader] \notin up)
        ~> (Failed \/ \A n \in up : conn[n] \in up)

=============================================================================
