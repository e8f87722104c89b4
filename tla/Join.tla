-------------------------------- MODULE Join --------------------------------
(***************************************************************************)
(* Growing the cluster and shrinking it: POST /join on the leader          *)
(* (daemon/joining.py behind post_join of daemon/api.py), the joiner's     *)
(* side of it (lib/cmd_join.sh), the self-registration of every daemon     *)
(* that starts (daemon/main.py), and what a remove-node job does to the    *)
(* topology and to etcd's membership (daemon/workers/remove_node.py).      *)
(*                                                                         *)
(* The leader allocates a node-N name, writes the topology entry, adds the *)
(* joiner to etcd's members and answers with the joiner's cluster.env.     *)
(* The joiner then starts an etcd, which comes up only if it is a member,  *)
(* and a daemon.  Leadership is checked once, before the request waits for *)
(* the join lock and for the cluster to be healthy; a request goes on when *)
(* its joiner has given up waiting for the answer.                         *)
(*                                                                         *)
(* A removal finds the peer's name, drains the peer, deletes the entry of  *)
(* that name, lets the peers settle and removes the member.  The removed   *)
(* host keeps its cluster.env, and a daemon that restarts on it registers  *)
(* it again, until the operator tears it down.                             *)
(*                                                                         *)
(* topology[k] the IP under /cluster/topology/node-k, or NoIp              *)
(* members     the IPs in etcd's membership; started: those whose etcd is  *)
(*             up (etcd knows their name)                                  *)
(* alloc[ip]   the name in the cluster.env the host holds, or NoName       *)
(* asking[ip]  the daemon from which the joiner awaits an answer, or NoIp  *)
(* booted      the hosts that were brought up and not torn down since      *)
(* removed     the hosts whose entry a removal has deleted and that were   *)
(*             not torn down since                                         *)
(* queue[n]    the requests that wait for n's _join_lock, in their order   *)
(* phase[n]    where the join that holds n's _join_lock is: "idle", "wait" *)
(*             (for healthy members), "read" (the topology), "write" (the  *)
(*             entry), "add" (the member), "rollback" (the entry)          *)
(* ipOf[n], nameOf[n]   the joiner it is for, the name it allocated        *)
(* removal[j]  a remove-node job: the peer's IP, the name it resolved it   *)
(*             to, and where it is: "none", "drain", "member" (the entry   *)
(*             is gone), "done"                                            *)
(* leaders     the daemons whose is_leader is set; see LeaderElection      *)
(* terms, exits, drops, returns   elections, daemon exits, failed requests *)
(*             and entries that a daemon wrote for itself, so far          *)
(***************************************************************************)
EXTENDS Naturals, Sequences, FiniteSetsExt, Functions

CONSTANTS
    Node,       \* the peers of the cluster; their daemons may lead
    Joiner,     \* the IPs that want to join
    NoIp,       \* no entry
    MaxName,    \* names are node-1 .. node-MaxName
    MaxTerms,   \* bound on elections
    MaxFaults,  \* bound on daemon exits and failed requests together
    MaxRemovals,\* bound on remove-node jobs
    MaxReturns  \* bound on hosts that register themselves again

NoName == 0
Name == 1..MaxName
Ip == Node \cup Joiner
Removal == 1..MaxRemovals

ASSUME IpAssumption ==
    IsFiniteSet(Node) /\ Node \cap Joiner = {} /\ NoIp \notin Ip
ASSUME BoundAssumption ==
    /\ MaxName \in Nat \ {0} /\ Cardinality(Node) <= MaxName
    /\ MaxTerms \in Nat /\ MaxFaults \in Nat
    /\ MaxRemovals \in Nat /\ MaxReturns \in Nat

VARIABLES topology, members, started, alloc, asking, booted, removed, queue,
          phase, ipOf, nameOf, removal, leaders, terms, exits, drops, returns

vars == <<topology, members, started, alloc, asking, booted, removed, queue,
          phase, ipOf, nameOf, removal, leaders, terms, exits, drops, returns>>
etcd == <<topology, members, started>>
joiner == <<alloc, asking>>
handler == <<phase, ipOf, nameOf>>
leaving == <<booted, removed, removal, returns>>
budget == <<terms, exits, drops>>

Phase == {"idle", "wait", "read", "write", "add", "rollback"}

TypeOK ==
    /\ topology \in [Name -> Ip \cup {NoIp}]
    /\ members \in SUBSET Ip
    /\ started \in SUBSET Ip
    /\ alloc \in [Ip -> Name \cup {NoName}]
    /\ asking \in [Ip -> Node \cup {NoIp}]
    /\ booted \in SUBSET Ip
    /\ removed \in SUBSET Ip
    /\ queue \in [Node -> Seq(Joiner)]
    /\ phase \in [Node -> Phase]
    /\ ipOf \in [Node -> Ip \cup {NoIp}]
    /\ nameOf \in [Node -> Name \cup {NoName}]
    /\ removal \in [Removal -> [at : {"none", "drain", "member", "done"},
                               ip : Ip \cup {NoIp}, name : Name \cup {NoName}]]
    /\ leaders \in SUBSET Node
    /\ terms \in 0..MaxTerms
    /\ exits \in 0..MaxFaults
    /\ drops \in 0..MaxFaults
    /\ returns \in 0..MaxReturns

\* The peers the cluster has are node-1 .. node-N.
Init ==
    /\ \E f \in Bijection(Node, 1..Cardinality(Node)) :
          /\ alloc = [ip \in Ip |-> IF ip \in Node THEN f[ip] ELSE NoName]
          /\ topology = [k \in Name |->
                           IF k <= Cardinality(Node) THEN Inverse(f, Node, Name)[k] ELSE NoIp]
    /\ members = Node /\ started = Node /\ booted = Node /\ removed = {}
    /\ asking = [ip \in Ip |-> NoIp]
    /\ queue = [n \in Node |-> <<>>]
    /\ phase = [n \in Node |-> "idle"]
    /\ ipOf = [n \in Node |-> NoIp]
    /\ nameOf = [n \in Node |-> NoName]
    /\ removal = [j \in Removal |-> [at |-> "none", ip |-> NoIp, name |-> NoName]]
    /\ leaders = {}
    /\ terms = 0 /\ exits = 0 /\ drops = 0 /\ returns = 0

Drop ==
    /\ exits + drops < MaxFaults
    /\ drops' = drops + 1
    /\ UNCHANGED <<terms, exits>>

\* Faulty variant: put instead of put_if_absent.
PutIfAbsentBlind(k, ip) == [topology EXCEPT ![k] = ip]

\* put_if_absent of a topology entry.
PutIfAbsent(k, ip) ==
    IF topology[k] = NoIp THEN [topology EXCEPT ![k] = ip] ELSE topology

\* _allocate_next_name: the smallest unused suffix.
AllocateNextName == Min({k \in Name : topology[k] = NoIp})

\* The handler of daemon n ends with an answer and releases the lock.
Release(n) ==
    /\ phase' = [phase EXCEPT ![n] = "idle"]
    /\ ipOf' = [ipOf EXCEPT ![n] = NoIp]
    /\ nameOf' = [nameOf EXCEPT ![n] = NoName]

\* Faulty variant: the answer's IP is taken for its name.
ReplyWrongField(n, k) ==
    /\ Release(n)
    /\ alloc' = [alloc EXCEPT ![ipOf[n]] = ipOf[n]]
    /\ asking' = [asking EXCEPT ![ipOf[n]] = NoIp]

\* Somebody awaits the answer: n's requests are handled in their order, and a
\* joiner asks again only after it has given up, so it awaits its last one.
Awaited(n) == asking[ipOf[n]] = n /\ ipOf[n] \notin Range(queue[n])

\* The answer is name k; a joiner that still waits for it takes it.
Reply(n, k) ==
    /\ Release(n)
    /\ IF Awaited(n)
       THEN /\ alloc' = [alloc EXCEPT ![ipOf[n]] = k]
            /\ asking' = [asking EXCEPT ![ipOf[n]] = NoIp]
       ELSE UNCHANGED joiner

\* The answer is an error.
Refuse(n) ==
    /\ Release(n)
    /\ asking' = [asking EXCEPT ![ipOf[n]] = IF Awaited(n) THEN NoIp ELSE @]
    /\ UNCHANGED alloc

GoTo(n, p) == phase' = [phase EXCEPT ![n] = p] /\ UNCHANGED <<ipOf, nameOf>>

-----------------------------------------------------------------------------
(* post_join and _do_join on daemon n *)

\* A joiner without an allocation asks, for the first time or again, and the
\* daemon that it reached takes itself for the leader.
Ask(n, ip) ==
    /\ n \in leaders
    /\ alloc[ip] = NoName /\ asking[ip] = NoIp
    /\ asking' = [asking EXCEPT ![ip] = n]
    /\ queue' = [queue EXCEPT ![n] = Append(@, ip)]
    /\ UNCHANGED <<etcd, alloc, handler, leaders, leaving, budget>>

\* curl's --max-time passes or the connection is lost.
GiveUp(ip) ==
    /\ asking[ip] # NoIp
    /\ Drop
    /\ asking' = [asking EXCEPT ![ip] = NoIp]
    /\ UNCHANGED <<etcd, alloc, queue, handler, leaders, leaving>>

\* The next request gets the lock; nobody looks at is_leader again.
Acquire(n) ==
    /\ phase[n] = "idle" /\ queue[n] # <<>>
    /\ phase' = [phase EXCEPT ![n] = "wait"]
    /\ ipOf' = [ipOf EXCEPT ![n] = Head(queue[n])]
    /\ queue' = [queue EXCEPT ![n] = Tail(@)]
    /\ UNCHANGED <<etcd, joiner, nameOf, leaders, leaving, budget>>

\* Faulty variant: the joiner's own etcd is waited for as well.
HealthyWithJoiner(n) ==
    /\ phase[n] = "wait" /\ members \cup {ipOf[n]} = started
    /\ GoTo(n, "read")
    /\ UNCHANGED <<etcd, joiner, queue, leaders, leaving, budget>>

\* _wait_cluster_healthy: every member has started.
Healthy(n) ==
    /\ phase[n] = "wait" /\ members = started
    /\ GoTo(n, "read")
    /\ UNCHANGED <<etcd, joiner, queue, leaders, leaving, budget>>

\* It did not happen in time: JoinError.
WaitTimeout(n) ==
    /\ phase[n] = "wait" /\ members # started
    /\ Refuse(n)
    /\ UNCHANGED <<etcd, queue, leaders, leaving, budget>>

\* Faulty variant: the first entry is taken for the joiner's.
ReadKnownFirst(n) ==
    /\ phase[n] = "read"
    /\ \E k \in Name : topology[k] # NoIp /\ Reply(n, k)
    /\ UNCHANGED <<etcd, queue, leaders, leaving, budget>>

\* The topology knows this IP: answer with the name it has.
ReadKnown(n) ==
    /\ phase[n] = "read"
    /\ \E k \in Name : topology[k] = ipOf[n] /\ Reply(n, k)
    /\ UNCHANGED <<etcd, queue, leaders, leaving, budget>>

\* Faulty variant: the topology is not searched for the IP.
ReadNewUnsearched(n) ==
    /\ phase[n] = "read"
    /\ nameOf' = [nameOf EXCEPT ![n] = AllocateNextName]
    /\ phase' = [phase EXCEPT ![n] = "write"]
    /\ UNCHANGED <<etcd, joiner, queue, ipOf, leaders, leaving, budget>>

\* It does not: allocate a name, of which the bound has left one.
ReadNew(n) ==
    /\ phase[n] = "read"
    /\ \A k \in Name : topology[k] # ipOf[n]
    /\ \E k \in Name : topology[k] = NoIp
    /\ nameOf' = [nameOf EXCEPT ![n] = AllocateNextName]
    /\ phase' = [phase EXCEPT ![n] = "write"]
    /\ UNCHANGED <<etcd, joiner, queue, ipOf, leaders, leaving, budget>>

\* Faulty variant: the entry is left to the joiner's own daemon.
WriteLeftToJoiner(n) ==
    /\ phase[n] = "write"
    /\ GoTo(n, "add")
    /\ UNCHANGED <<etcd, joiner, queue, leaders, leaving, budget>>

\* The entry is written.  One that exists already only earns a warning.
Write(n) ==
    /\ phase[n] = "write"
    /\ topology' = PutIfAbsent(nameOf[n], ipOf[n])
    /\ GoTo(n, "add")
    /\ UNCHANGED <<members, started, joiner, queue, leaders, leaving, budget>>

\* The read or the write raises, or cluster.env cannot be read after it:
\* there is no rollback before member_add, and the write may have been applied.
WriteRaise(n) ==
    /\ phase[n] \in {"read", "write"}
    /\ Drop
    /\ \/ UNCHANGED topology
       \/ phase[n] = "write" /\ topology' = PutIfAbsent(nameOf[n], ipOf[n])
    /\ Refuse(n)
    /\ UNCHANGED <<members, started, queue, leaders, leaving>>

\* etcd adds the member, and the reply goes out.  strict-reconfig-check wants
\* the members it has to be up.
Add(n) ==
    /\ phase[n] = "add" /\ ipOf[n] \notin members /\ members = started
    /\ members' = members \cup {ipOf[n]}
    /\ Reply(n, nameOf[n])
    /\ UNCHANGED <<topology, started, queue, leaders, leaving, budget>>

\* etcd refuses: the member exists, or another one has not started yet.
AddRefused(n) ==
    /\ phase[n] = "add"
    /\ ipOf[n] \in members \/ members # started
    /\ GoTo(n, "rollback")
    /\ UNCHANGED <<etcd, joiner, queue, leaders, leaving, budget>>

\* The request does not get through, or it does and its answer is lost: the
\* retry is then refused because the member exists.
AddRaise(n) ==
    /\ phase[n] = "add"
    /\ Drop
    /\ members' \in {members, members \cup {ipOf[n]}}
    /\ GoTo(n, "rollback")
    /\ UNCHANGED <<topology, started, joiner, queue, leaders, leaving>>

\* Delete the entry under the allocated name; JoinError.
Rollback(n) ==
    /\ phase[n] = "rollback"
    /\ topology' = [topology EXCEPT ![nameOf[n]] = NoIp]
    /\ Refuse(n)
    /\ UNCHANGED <<members, started, queue, leaders, leaving, budget>>

\* The delete fails and is logged; JoinError.
RollbackRaise(n) ==
    /\ phase[n] = "rollback"
    /\ Drop
    /\ Refuse(n)
    /\ UNCHANGED <<etcd, queue, leaders, leaving>>

-----------------------------------------------------------------------------
(* The hosts *)

\* _register_self_if_absent, of the daemon that starts on ip.
RegisterSelf(ip) ==
    /\ topology' = PutIfAbsent(alloc[ip], ip)
    /\ IF topology' = topology
       THEN UNCHANGED returns
       ELSE returns < MaxReturns /\ returns' = returns + 1

\* Bootstrap with the cluster.env received: the host's etcd comes up if etcd's
\* membership has it, and then its daemon.
StartPeer(ip) ==
    /\ alloc[ip] # NoName /\ ip \in members \ started /\ ip \notin booted
    /\ started' = started \cup {ip}
    /\ booted' = booted \cup {ip}
    /\ RegisterSelf(ip)
    /\ UNCHANGED <<members, joiner, removed, queue, handler, removal, leaders, budget>>

\* A daemon that restarts while its etcd, the only one it asks, is still a member
\* finds the entry of its name gone; it leads nothing and handles no join yet.
RestartDaemon(ip) ==
    /\ ip \in booted \cap started /\ topology[alloc[ip]] = NoIp
    /\ ip \in Node => ip \notin leaders /\ phase[ip] = "idle" /\ queue[ip] = <<>>
    /\ RegisterSelf(ip)
    /\ UNCHANGED <<members, started, joiner, booted, removed, queue, handler,
                   removal, leaders, budget>>

\* teardown --full on a host that was removed, when no removal of it is at work
\* any more.  Only then does `join` accept the host again.
Teardown(ip) ==
    /\ ip \in removed \ members /\ alloc[ip] # NoName
    /\ \A k \in Name : topology[k] # ip
    /\ \A j \in Removal : removal[j].ip = ip => removal[j].at = "done"
    /\ alloc' = [alloc EXCEPT ![ip] = NoName]
    /\ removed' = removed \ {ip} /\ booted' = booted \ {ip}
    /\ UNCHANGED <<etcd, asking, queue, handler, removal, returns, leaders, budget>>

-----------------------------------------------------------------------------
(* remove-node jobs *)

\* The job starts on a leader: the IP has an entry, is not the only one, and is
\* not the leader's.
Remove(j, ip) ==
    /\ removal[j].at = "none" /\ leaders \ {ip} # {}
    /\ \E k, m \in Name :
          /\ topology[k] = ip /\ topology[m] \notin {ip, NoIp}
          /\ removal' = [removal EXCEPT ![j] = [at |-> "drain", ip |-> ip, name |-> k]]
    /\ UNCHANGED <<etcd, joiner, booted, removed, queue, handler, leaders, budget, returns>>

\* The pool is drained (see RemoveNode): the entry of the name is deleted,
\* whosever it is by now.
Unlist(j) ==
    /\ removal[j].at = "drain"
    /\ removal' = [removal EXCEPT ![j].at = "member"]
    /\ topology' = [topology EXCEPT ![removal[j].name] = NoIp]
    /\ removed' = removed \cup ({topology[removal[j].name]} \ {NoIp})
    /\ UNCHANGED <<members, started, joiner, booted, queue, handler, leaders, budget, returns>>

\* Up to three minutes later: the member with the IP is removed, if there is one.
RemoveMember(j) ==
    /\ removal[j].at = "member"
    /\ removal' = [removal EXCEPT ![j].at = "done"]
    /\ members' = members \ {removal[j].ip} /\ started' = started \ {removal[j].ip}
    /\ UNCHANGED <<topology, joiner, booted, removed, queue, handler, leaders, budget, returns>>

\* The drain fails or is cancelled, etcd refuses, or the daemon exits: the job
\* does not go on.
BreakOff(j) ==
    /\ removal[j].at \in {"drain", "member"}
    /\ removal' = [removal EXCEPT ![j].at = "done"]
    /\ UNCHANGED <<etcd, joiner, booted, removed, queue, handler, leaders, budget, returns>>

-----------------------------------------------------------------------------
(* Leadership and processes *)

\* Possibly while another daemon still takes itself for the leader.
BecomeLeader(n) ==
    /\ n \notin leaders
    /\ terms < MaxTerms
    /\ terms' = terms + 1
    /\ leaders' = leaders \cup {n}
    /\ UNCHANGED <<etcd, joiner, queue, handler, leaving, exits, drops>>

\* The joins in progress, and those that wait for the lock, go on.
LoseLeadership(n) ==
    /\ n \in leaders /\ terms < MaxTerms
    /\ leaders' = leaders \ {n}
    /\ UNCHANGED <<etcd, joiner, queue, handler, leaving, budget>>

\* The daemon exits, and with it the joins it handles.
ExitDaemon(n) ==
    /\ exits + drops < MaxFaults
    /\ exits' = exits + 1
    /\ leaders' = leaders \ {n}
    /\ Release(n)
    /\ queue' = [queue EXCEPT ![n] = <<>>]
    /\ asking' = [ip \in Ip |-> IF asking[ip] = n THEN NoIp ELSE asking[ip]]
    /\ UNCHANGED <<etcd, alloc, leaving, terms, drops>>

Handle(n) ==
    \/ Acquire(n) \/ Healthy(n) \/ WaitTimeout(n) \/ ReadKnown(n) \/ ReadNew(n)
    \/ Write(n) \/ Add(n) \/ AddRefused(n) \/ Rollback(n)

Next ==
    \/ \E n \in Node :
          \/ Handle(n) \/ WriteRaise(n) \/ AddRaise(n) \/ RollbackRaise(n)
          \/ BecomeLeader(n) \/ LoseLeadership(n) \/ ExitDaemon(n)
    \/ \E n \in Node, ip \in Joiner : Ask(n, ip)
    \/ \E ip \in Joiner : GiveUp(ip) \/ StartPeer(ip) \/ Teardown(ip)
    \/ \E ip \in Ip : RestartDaemon(ip)
    \/ \E j \in Removal :
          \/ \E ip \in Ip : Remove(j, ip)
          \/ Unlist(j) \/ RemoveMember(j) \/ BreakOff(j)

Spec == Init /\ [][Next]_vars

\* Handlers go on, a joiner that holds a cluster.env bootstraps, and one that
\* was turned away asks again.
Fairness ==
    /\ \A n \in Node : WF_vars(Handle(n))
    /\ \A ip \in Joiner :
          /\ WF_vars(StartPeer(ip))
          /\ WF_vars(\E n \in Node : Ask(n, ip))
    /\ WF_vars(leaders = {} /\ \E n \in Node : BecomeLeader(n))

FairSpec == Spec /\ Fairness

-----------------------------------------------------------------------------
(* Properties *)

\* No two hosts hold one name, those aside that were removed and not torn down.
NamesUnique ==
    \A a, b \in Ip \ removed : alloc[a] = alloc[b] /\ alloc[a] # NoName => a = b

Idle == \A n \in Node : phase[n] = "idle"

\* One term, and no removed host has registered itself again.
OneTerm == terms <= 1 /\ returns = 0

\* Within one leader's term the lock makes the allocation atomic (joining.py
\* 93-94, 114-182): no two hosts of the cluster hold the same name, whatever
\* requests and replies are lost, retried or rolled back, and although a removal
\* frees a name at any moment of a join.
NamesUniqueInOneTerm == OneTerm => NamesUnique

\* Within one term no IP is registered under two names (the re-join by IP,
\* joining.py 123-155), however often it asks and whoever is removed meanwhile.
OneNamePerIp ==
    OneTerm =>
       \A k, m \in Name : topology[k] = topology[m] /\ topology[k] # NoIp => k = m

\* put_if_absent protects the entry of a peer: no join gives its name to
\* another IP without a deletion in between (joining.py 176-182).
EntryNeverOverwritten ==
    [][ \A k \in Name :
          topology[k] # NoIp => topology'[k] \in {topology[k], NoIp} ]_vars

\* In one leader's term (joining.py 166-222, remove_node.py 253-307): a host that
\* is up is registered, whatever failed, was retried or was rolled back while it
\* joined, unless a removal has deleted its entry; and while nothing has failed,
\* the topology and etcd's membership agree on every host that is not being
\* removed whenever no join is in progress.
TopologyIsMembership ==
    LET registered == {topology[k] : k \in Name} \ {NoIp}
    IN  OneTerm =>
           /\ booted \subseteq registered \cup removed
           /\ exits = 0 /\ drops = 0 /\ Idle => registered \ removed = members \ removed

\* "parallel `./milvus-onprem join` runs are serialised by
\* joiner-bootstrap-time but all succeed" (joining.py 110-111), as long as one
\* daemon leads, no request is lost and nobody is removed.
EveryJoinerGetsIn ==
    \A ip \in Joiner :
       <>(\/ ip \in started \/ terms > 1 \/ exits > 0 \/ drops > 0
          \/ \E j \in Removal : removal[j].at # "none")

=============================================================================
