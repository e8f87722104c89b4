------------------------- MODULE TopologySyncProofs -------------------------
(***************************************************************************)
(* Theorems about TopologySync, for any finite set of peers and any number *)
(* of joins, removals, changes of leadership, exits and failures.          *)
(*                                                                         *)
(* OwnPeerIsListed takes that a peer has a cluster.env before its daemon   *)
(* runs and before anybody holds its lock (Listed).  OneMinioAtATime takes *)
(* the whole protocol of the rolling recreation: while one daemon leads    *)
(* and nothing times out, a follower recreates its MinIO only for a        *)
(* request its leader awaits, the leader recreates its own before it calls *)
(* anybody, and it awaits one answer at a time (Ordered).                  *)
(***************************************************************************)
EXTENDS TopologySync, TLAPS, FiniteSetTheorems, WellFoundedInduction

\* A daemon runs, and its lock is held, only where there is a cluster.env; and
\* who is about to write PEER_NAMES has a list with the peer itself.
Listed ==
    \A n \in Node :
       /\ Running(n) => ips[n] # {}
       /\ queue[n] # <<>> => Running(n)
       /\ step[n] = "names" => n \in plan[n]

\* Nobody is in the middle of anything while the lock is free.
FreeIsIdle ==
    \A n \in Node : queue[n] = <<>> => step[n] = "start" /\ ~fresh[n]

\* An entry of a queue is that of the event n works on, or the request of leader
\* l, which awaits it.
Entry(l, n, e) ==
    \/ e = EventEntry /\ kind[n] # "none"
    \/ e = Request(l) /\ n # l /\ n \in awaiting[l]

Entered(l) == \A n \in Node : \A i \in DOMAIN queue[n] : Entry(l, n, queue[n][i])

\* No entry is twice in a queue.
Once == \A n \in Node : \A i, k \in DOMAIN queue[n] : queue[n][i] = queue[n][k] => i = k

\* A daemon that does not lead awaits nobody, and recreates its MinIO only for
\* the leader.
Follows(l) ==
    \A n \in Node \ {l} :
       /\ awaiting[n] = {} /\ step[n] # "sweep"
       /\ step[n] \in {"read", "up", "wait", "milvus"} \/ fresh[n]
             => Head(queue[n]) = Request(l)

\* The leader calls others, each once, after it recreated its own MinIO, and one
\* at a time unless a peer was removed.
Calls(l) ==
    /\ l \notin todo[l] \cup awaiting[l] /\ todo[l] \cap awaiting[l] = {}
    /\ awaiting[l] # {} => step[l] = "sweep"
    /\ kind[l] # "REMOVED" => \A p, q \in awaiting[l] : p = q

\* A MinIO that is down is one its peer waits for.
Attended == \A n \in unhealthy : step[n] = "wait"

\* What l, the only daemon that ever led, and the others are doing.
Ordered(l) ==
    leaders = {l} /\ Entered(l) /\ Once /\ Follows(l) /\ Calls(l) /\ Attended

\* The first leader still leads, and no daemon has exited.
FirstTerm == terms = 0 /\ exits = 0

Calm == FirstTerm /\ drops = 0

InOrder == \E l \in Node : Ordered(l)

\* The leader gives up on the answer of a follower, or a peer on its MinIO.
TimesOut ==
    \/ \E n \in Node : n \in unhealthy /\ Waited(n)
    \/ \E n, p \in Node : RpcTimeout(n, p)

\* At most one MinIO is down, but for the parallel sweep of a removal.
OneIsDown ==
    (\A n \in Node : kind[n] = "REMOVED" => step[n] # "sweep")
       => Cardinality(unhealthy) <= 1

IInv == TypeOK /\ OwnPeerIsListed /\ Listed /\ FreeIsIdle /\ (Calm => InOrder)

-----------------------------------------------------------------------------
(* Type correctness, by groups of variables *)

EventType == [type : {"PUT", "DELETE"}, peer : Node]
EntryType == [by : {"event", "request"}, from : Node \cup {0}]

BudgetType ==
    /\ changes \in 0..MaxEvents /\ terms \in 0..MaxEvents
    /\ exits \in 0..MaxFaults /\ drops \in 0..MaxFaults

SystemType ==
    /\ topology \in SUBSET Node
    /\ leaders \in SUBSET Node
    /\ unhealthy \in SUBSET Node
    /\ watcher \in [Node -> {"down", "seed", "connect", "open", "dead"}]
    /\ stream \in [Node -> Seq(EventType)]
    /\ mirror \in [Node -> SUBSET Node]

LockType ==
    /\ queue \in [Node -> Seq(EntryType)]
    /\ step \in [Node -> Step]
    /\ fresh \in [Node -> BOOLEAN]
    /\ kind \in [Node -> {"none", "ADDED", "UPDATED", "REMOVED"}]
    /\ plan \in [Node -> SUBSET Node]
    /\ todo \in [Node -> SUBSET Node]
    /\ awaiting \in [Node -> SUBSET Node]

FilesType ==
    /\ ips \in [Node -> SUBSET Node]
    /\ names \in [Node -> SUBSET Node]
    /\ rendered \in [Node -> SUBSET Node]
    /\ loaded \in [Node -> [Service -> SUBSET Node]]

\* TypeOK is the four groups together.
LEMMA TypeParts == TypeOK <=> SystemType /\ LockType /\ FilesType /\ BudgetType
  BY DEF TypeOK, SystemType, LockType, FilesType, BudgetType, EventType, EntryType

\* An event makes the open streams longer.
LEMMA EmitTyped ==
    ASSUME NEW type \in {"PUT", "DELETE"}, NEW p \in Node, Emit(type, p),
           stream \in [Node -> Seq(EventType)]
    PROVE  stream' \in [Node -> Seq(EventType)]
  <1>. DEFINE e == [type |-> type, peer |-> p]
  <1>1. e \in EventType
    BY DEF EventType
  <1>. HIDE DEF e
  <1>2. \A n \in Node : Append(stream[n], e) \in Seq(EventType)
    BY <1>1
  <1>3. stream' = [n \in Node |-> IF watcher[n] = "open" THEN Append(stream[n], e)
                                  ELSE stream[n]]
    BY DEF Emit, e
  <1>. QED  BY <1>2, <1>3

\* What a step does to the counters.
Spent ==
    \/ UNCHANGED budget
    \/ Drop \/ Change \/ Term
    \/ /\ exits + drops < MaxFaults /\ exits' = exits + 1
       /\ UNCHANGED <<changes, terms, drops>>

\* Spending stays within the bounds.
LEMMA SpentTyped == BudgetType /\ Spent => BudgetType'
  BY BoundAssumption DEF BudgetType, Spent, Drop, Change, Term, budget

\* A peer's set of peers is replaced by another.
LEMMA SetReplaced ==
    ASSUME NEW f \in [Node -> SUBSET Node], NEW n \in Node, NEW S \in SUBSET Node
    PROVE  [f EXCEPT ![n] = S] \in [Node -> SUBSET Node]
  OBVIOUS

\* Every step spends at most one of them.
LEMMA BudgetStep ==
    ASSUME [Next]_vars
    PROVE  Spent
  <1>. USE DEF Spent
  <1>1. CASE UNCHANGED vars
    BY <1>1 DEF vars, budget
  <1>2. ASSUME NEW n \in Node,
               \/ Seed(n) \/ Open(n) \/ Apply(n) \/ Begin(n)
               \/ ReadFresh(n) \/ SkipWrite(n) \/ WriteIps(n)
               \/ WriteNames(n) \/ Render(n) \/ UpMinio(n)
               \/ SweepCall(n) \/ SweepEnd(n) \/ MinioHealthy(n)
               \/ StartDaemon(n)
        PROVE  Spent
    BY <1>2 DEF Seed, Open, Apply, Begin, ReadFresh, SkipWrite, WriteIps,
                WriteNames, Render, UpMinio, SweepCall, SweepEnd,
                MinioHealthy, StartDaemon
  <1>3. ASSUME NEW n \in Node, JoinPeer(n)
        PROVE  Spent
    BY <1>3 DEF JoinPeer
  <1>4. ASSUME NEW n \in Node, RemovePeer(n)
        PROVE  Spent
    BY <1>4 DEF RemovePeer
  <1>5. ASSUME NEW n \in Node, Reload(n)
        PROVE  Spent
    BY <1>5 DEF Reload
  <1>6. ASSUME NEW n \in Node, Waited(n)
        PROVE  Spent
    BY <1>6 DEF Waited
  <1>7. ASSUME NEW n \in Node, UpMilvus(n)
        PROVE  Spent
    BY <1>7 DEF UpMilvus
  <1>8. ASSUME NEW n \in Node, SeedRaise(n)
        PROVE  Spent
    BY <1>8 DEF SeedRaise
  <1>9. ASSUME NEW n \in Node, Break(n)
        PROVE  Spent
    BY <1>9 DEF Break
  <1>10. ASSUME NEW n \in Node, ReadRaise(n)
        PROVE  Spent
    BY <1>10 DEF ReadRaise
  <1>11. ASSUME NEW n \in Node, RenderFail(n)
        PROVE  Spent
    BY <1>11 DEF RenderFail
  <1>12. ASSUME NEW n \in Node, UpMinioFail(n)
        PROVE  Spent
    BY <1>12 DEF UpMinioFail
  <1>13. ASSUME NEW n \in Node, BecomeLeader(n)
        PROVE  Spent
    BY <1>13 DEF BecomeLeader
  <1>14. ASSUME NEW n \in Node, LoseLeadership(n)
        PROVE  Spent
    BY <1>14 DEF LoseLeadership
  <1>15. ASSUME NEW n \in Node, ExitDaemon(n)
        PROVE  Spent
    BY <1>15 DEF ExitDaemon
  <1>16. ASSUME NEW n \in Node, NEW p \in Node, RpcTimeout(n, p)
        PROVE  Spent
    BY <1>16 DEF RpcTimeout
  <1>. QED  BY <1>1, <1>2, <1>3, <1>4, <1>5, <1>6, <1>7, <1>8, <1>9, <1>10,
               <1>11, <1>12, <1>13, <1>14, <1>15, <1>16
        DEF Next, Watch, Handle, Fail

\* The topology, the leaders and the watchers keep their types.
LEMMA SystemTyped ==
    ASSUME SystemType, [Next]_vars
    PROVE  SystemType'
  <1>. USE DEF SystemType
  <1>1. CASE UNCHANGED vars
    BY <1>1 DEF vars
  <1>2. ASSUME NEW n \in Node,
               \/ Begin(n) \/ ReadFresh(n) \/ SkipWrite(n)
               \/ WriteIps(n) \/ WriteNames(n) \/ Render(n) \/ Reload(n)
               \/ UpMinio(n) \/ Waited(n) \/ UpMilvus(n) \/ SweepCall(n)
               \/ SweepEnd(n) \/ ReadRaise(n) \/ RenderFail(n)
               \/ UpMinioFail(n) \/ MinioHealthy(n) \/ BecomeLeader(n)
               \/ LoseLeadership(n)
               \/ (\E p \in Node : RpcTimeout(n, p))
        PROVE  SystemType'
    BY <1>2 DEF Begin, ReadFresh, SkipWrite, WriteIps, WriteNames, Render,
                Reload, UpMinio, Waited, UpMilvus, SweepCall, SweepEnd,
                ReadRaise, RenderFail, UpMinioFail, MinioHealthy,
                BecomeLeader, LoseLeadership, RpcTimeout, watching
  <1>3. ASSUME NEW n \in Node, JoinPeer(n)
        PROVE  SystemType'
    BY <1>3, EmitTyped DEF JoinPeer
  <1>4. ASSUME NEW n \in Node, RemovePeer(n)
        PROVE  SystemType'
    BY <1>4, EmitTyped DEF RemovePeer
  <1>5. ASSUME NEW n \in Node, StartDaemon(n)
        PROVE  SystemType'
    <2>1. topology' \in SUBSET Node /\ stream' \in [Node -> Seq(EventType)]
      BY <1>5, EmitTyped DEF StartDaemon
    <2>. QED  BY <1>5, <2>1 DEF StartDaemon
  <1>6. ASSUME NEW n \in Node, Seed(n)
        PROVE  SystemType'
    BY <1>6 DEF Seed
  <1>7. ASSUME NEW n \in Node, Open(n)
        PROVE  SystemType'
    BY <1>7 DEF Open
  <1>8. ASSUME NEW n \in Node, SeedRaise(n)
        PROVE  SystemType'
    BY <1>8 DEF SeedRaise
  <1>9. ASSUME NEW n \in Node, Break(n)
        PROVE  SystemType'
    BY <1>9 DEF Break
  <1>10. ASSUME NEW n \in Node, Apply(n)
        PROVE  SystemType'
    <2>1. Head(stream[n]).peer \in Node /\ Tail(stream[n]) \in Seq(EventType)
      <3>1. stream[n] \in Seq(EventType) /\ stream[n] # <<>>
        BY <1>10 DEF Apply
      <3>2. Head(stream[n]) \in EventType /\ Tail(stream[n]) \in Seq(EventType)
        BY <3>1
      <3>. QED  BY <3>2 DEF EventType
    <2>. DEFINE p == Head(stream[n]).peer
    <2>2. mirror' \in [Node -> SUBSET Node]
      <3>1. \/ mirror' = [mirror EXCEPT ![n] = mirror[n] \ {p}]
            \/ mirror' = [mirror EXCEPT ![n] = mirror[n] \cup {p}]
        BY <1>10 DEF Apply
      <3>. HIDE DEF p
      <3>2. mirror[n] \ {p} \in SUBSET Node /\ mirror[n] \cup {p} \in SUBSET Node
        BY <2>1 DEF p
      <3>. QED  BY <3>1, <3>2, SetReplaced
    <2>3. stream' \in [Node -> Seq(EventType)]
      BY <1>10, <2>1 DEF Apply
    <2>. QED  BY <1>10, <2>2, <2>3 DEF Apply
  <1>11. ASSUME NEW n \in Node, ExitDaemon(n)
        PROVE  SystemType'
    BY <1>11 DEF ExitDaemon
  <1>. QED  BY <1>1, <1>2, <1>3, <1>4, <1>5, <1>6, <1>7, <1>8, <1>9, <1>10,
               <1>11 DEF Next, Watch, Handle, Fail

\* A set of peers has a minimum, and Min is it.
LEMMA MinInSet ==
    ASSUME NEW S \in SUBSET Nat, S # {}
    PROVE  Min(S) \in S
  <1>1. PICK m \in S : \A x \in S : ~(<<x, m>> \in OpToRel(<, Nat))
    BY WFMin, NatLessThanWellFounded
  <1>2. \A x \in S : m <= x
    <2> SUFFICES ASSUME NEW x \in S PROVE ~(x < m)
      OBVIOUS
    <2>1. x < m => <<x, m>> \in OpToRel(<, Nat)
      BY Zenon DEF OpToRel
    <2>. QED  BY <1>1, <2>1
  <1>. QED  BY <1>2 DEF Min

\* The next follower of a sweep is one of those that are left.
LEMMA NextToCall ==
    ASSUME LockType, NEW n \in Node, todo[n] # {}
    PROVE  Min(todo[n]) \in todo[n] /\ Min(todo[n]) \in Node
  BY MinInSet, NodeAssumption DEF LockType

\* What is queued is an entry.
LEMMA EntriesTyped ==
    EventEntry \in EntryType /\ \A n \in Node \cup {0} : Request(n) \in EntryType
  BY DEF EventEntry, EntryType, Request

\* A queue somebody has joined is not empty.
LEMMA AppendNonempty ==
    ASSUME NEW q \in Seq(EntryType), NEW e \in EntryType
    PROVE  Append(q, e) # <<>>
  <1>1. Len(Append(q, e)) = Len(q) + 1 /\ Len(q) \in Nat /\ Len(<<>>) = 0
    OBVIOUS
  <1>. QED  BY <1>1

\* An abandoned queue is as long as it was, and differs from it only in the
\* requests of n.
LEMMA Abandoned ==
    ASSUME NEW q \in Seq(EntryType), NEW n \in Node
    PROVE  /\ Abandon(q, n) \in Seq(EntryType)
           /\ DOMAIN Abandon(q, n) = DOMAIN q
           /\ q = <<>> <=> Abandon(q, n) = <<>>
  <1>1. \A i \in 1..Len(q) : q[i] \in EntryType
    OBVIOUS
  <1>2. Request(0) \in EntryType
    BY EntriesTyped
  <1>3. Abandon(q, n) = [i \in 1..Len(q) |-> IF q[i] = Request(n) THEN Request(0) ELSE q[i]]
    BY DEF Abandon
  <1>4. Abandon(q, n) \in Seq(EntryType) /\ Len(Abandon(q, n)) = Len(q)
    <2>. DEFINE f(i) == IF q[i] = Request(n) THEN Request(0) ELSE q[i]
    <2>1. \A i \in 1..Len(q) : f(i) \in EntryType
      BY <1>1, <1>2
    <2>2. Abandon(q, n) = [i \in 1..Len(q) |-> f(i)]
      BY <1>3
    <2>. HIDE DEF f
    <2>. QED  BY <2>1, <2>2
  <1>. QED  BY <1>3, <1>4

\* What the end of the holder's work changes.
LEMMA FinishTyped ==
    ASSUME LockType, NEW n \in Node, queue[n] # <<>>, Finish(n)
    PROVE  /\ queue' \in [Node -> Seq(EntryType)] /\ step' \in [Node -> Step]
           /\ fresh' \in [Node -> BOOLEAN] /\ plan' \in [Node -> SUBSET Node]
           /\ kind' \in [Node -> {"none", "ADDED", "UPDATED", "REMOVED"}]
           /\ awaiting' \in [Node -> SUBSET Node]
  <1>1. Tail(queue[n]) \in Seq(EntryType)
    BY DEF LockType
  <1>. QED  BY <1>1 DEF LockType, Finish, Step

\* What the end of recreate_minio_local changes.
LEMMA RecreatedTyped ==
    ASSUME LockType, SystemType, NEW n \in Node, queue[n] # <<>>, Recreated(n)
    PROVE  LockType'
  <1>1. CASE IsEvent(n)
    <2>1. step' \in [Node -> Step]
      BY <1>1 DEF Recreated, GoTo, LockType, Step
    <2>2. todo' \in [Node -> SUBSET Node]
      <3>1. mirror[n] \ {n} \in SUBSET Node
        BY DEF SystemType
      <3>. QED  BY <1>1, <3>1, SetReplaced DEF Recreated, LockType
    <2>. QED  BY <1>1, <2>1, <2>2 DEF Recreated, LockType
  <1>2. CASE ~IsEvent(n)
    BY <1>2, FinishTyped DEF Recreated, LockType
  <1>. QED  BY <1>1, <1>2

\* The locks, their holders and the sweeps keep their types.
LEMMA LockTyped ==
    ASSUME LockType, SystemType, [Next]_vars
    PROVE  LockType'
  <1>. USE DEF At
  <1>1. CASE UNCHANGED vars
    BY <1>1 DEF vars, LockType
  <1>2. ASSUME NEW n \in Node,
               \/ JoinPeer(n) \/ RemovePeer(n) \/ StartDaemon(n)
               \/ Seed(n) \/ Open(n) \/ SeedRaise(n) \/ Break(n)
               \/ MinioHealthy(n) \/ BecomeLeader(n)
               \/ LoseLeadership(n)
        PROVE  LockType'
    BY <1>2 DEF JoinPeer, RemovePeer, StartDaemon, Seed, Open, SeedRaise,
                Break, MinioHealthy, BecomeLeader, LoseLeadership, LockType,
                sweeping
  <1>3. ASSUME NEW n \in Node, Apply(n)
        PROVE  LockType'
    <2>1. queue' \in [Node -> Seq(EntryType)]
      BY <1>3, EntriesTyped DEF Apply, LockType
    <2>2. kind' \in [Node -> {"none", "ADDED", "UPDATED", "REMOVED"}]
      BY <1>3 DEF Apply, LockType
    <2>. QED  BY <1>3, <2>1, <2>2 DEF Apply, LockType, sweeping
  <1>4. ASSUME NEW n \in Node, ReadFresh(n)
        PROVE  LockType'
    BY <1>4 DEF ReadFresh, GoTo, Synced, LockType, SystemType, Step, sweeping
  <1>5. ASSUME NEW n \in Node, SkipWrite(n)
        PROVE  LockType'
    BY <1>5 DEF SkipWrite, GoTo, Synced, LockType, SystemType, Step, sweeping
  <1>6. ASSUME NEW n \in Node, WriteIps(n)
        PROVE  LockType'
    BY <1>6 DEF WriteIps, GoTo, Synced, LockType, SystemType, Step, sweeping
  <1>7. ASSUME NEW n \in Node, WriteNames(n)
        PROVE  LockType'
    BY <1>7 DEF WriteNames, GoTo, Synced, LockType, SystemType, Step, sweeping
  <1>8. ASSUME NEW n \in Node, Render(n)
        PROVE  LockType'
    BY <1>8 DEF Render, GoTo, Synced, LockType, SystemType, Step, sweeping
  <1>9. ASSUME NEW n \in Node, UpMinio(n)
        PROVE  LockType'
    BY <1>9 DEF UpMinio, GoTo, Synced, LockType, SystemType, Step, sweeping
  <1>10. ASSUME NEW n \in Node, Waited(n)
        PROVE  LockType'
    BY <1>10 DEF Waited, GoTo, Synced, LockType, SystemType, Step, sweeping
  <1>11. ASSUME NEW n \in Node, Reload(n)
        PROVE  LockType'
    <2>1. CASE Sweeps(n)
      BY <1>11, <2>1 DEF Reload, GoTo, LockType, Step
    <2>2. CASE ~Sweeps(n)
      BY <1>11, <2>2, FinishTyped DEF Reload, LockType
    <2>. QED  BY <2>1, <2>2
  <1>12. ASSUME NEW n \in Node, RenderFail(n)
        PROVE  LockType'
    <2>1. CASE fresh[n]
      BY <1>12, <2>1 DEF RenderFail, GoTo, LockType, Step
    <2>2. CASE ~fresh[n]
      BY <1>12, <2>2, FinishTyped DEF RenderFail, LockType
    <2>. QED  BY <2>1, <2>2
  <1>13. ASSUME NEW n \in Node, Begin(n)
        PROVE  LockType'
    <2>1. step' \in [Node -> Step]
      BY <1>13 DEF Begin, GoTo, LockType, Step
    <2>2. plan' \in [Node -> SUBSET Node]
      <3>1. mirror[n] \in SUBSET Node
        BY DEF SystemType
      <3>. QED  BY <1>13, <3>1, SetReplaced DEF Begin, LockType
    <2>. QED  BY <1>13, <2>1, <2>2 DEF Begin, LockType, sweeping
  <1>14. ASSUME NEW n \in Node, UpMilvus(n)
        PROVE  LockType'
    BY <1>14, RecreatedTyped DEF UpMilvus
  <1>15. ASSUME NEW n \in Node, UpMinioFail(n)
        PROVE  LockType'
    BY <1>15, RecreatedTyped DEF UpMinioFail
  <1>16. ASSUME NEW n \in Node, ReadRaise(n)
        PROVE  LockType'
    BY <1>16, FinishTyped DEF ReadRaise, LockType
  <1>17. ASSUME NEW n \in Node, SweepEnd(n)
        PROVE  LockType'
    BY <1>17, FinishTyped DEF SweepEnd, LockType
  <1>18. ASSUME NEW n \in Node, SweepCall(n)
        PROVE  LockType'
    <2>. DEFINE p == Min(todo[n])
    <2>1. p \in Node /\ Request(n) \in EntryType
      BY <1>18, NextToCall, EntriesTyped DEF SweepCall
    <2>2. todo' = [todo EXCEPT ![n] = todo[n] \ {p}]
      BY <1>18 DEF SweepCall
    <2>5. \/ awaiting' = awaiting /\ queue' = queue
          \/ /\ awaiting' = [awaiting EXCEPT ![n] = awaiting[n] \cup {p}]
             /\ queue' = [queue EXCEPT ![p] = Append(queue[p], Request(n))]
      BY <1>18 DEF SweepCall
    <2>. HIDE DEF p
    <2>3. todo' \in [Node -> SUBSET Node] /\ awaiting' \in [Node -> SUBSET Node]
      <3>1. todo[n] \ {p} \in SUBSET Node /\ awaiting[n] \cup {p} \in SUBSET Node
        BY <2>1 DEF LockType
      <3>2. todo \in [Node -> SUBSET Node] /\ awaiting \in [Node -> SUBSET Node]
        BY DEF LockType
      <3>3. todo' \in [Node -> SUBSET Node]
        BY <2>2, <3>1, <3>2, SetReplaced
      <3>4. awaiting' \in [Node -> SUBSET Node]
        BY <2>5, <3>1, <3>2, SetReplaced
      <3>. QED  BY <3>3, <3>4
    <2>4. queue' \in [Node -> Seq(EntryType)]
      <3>1. queue \in [Node -> Seq(EntryType)]
        BY DEF LockType
      <3>2. Append(queue[p], Request(n)) \in Seq(EntryType)
        BY <2>1, <3>1
      <3>. QED  BY <2>1, <2>5, <3>1, <3>2
    <2>. QED  BY <1>18, <2>3, <2>4 DEF SweepCall, LockType
  <1>19. ASSUME NEW n \in Node, ExitDaemon(n)
        PROVE  LockType'
    <2>1. queue' \in [Node -> Seq(EntryType)]
      <3>1. \A p \in Node : Abandon(queue[p], n) \in Seq(EntryType)
        BY Abandoned DEF LockType
      <3>. QED  BY <1>19, <3>1 DEF ExitDaemon
    <2>2. awaiting' \in [Node -> SUBSET Node]
      BY <1>19 DEF ExitDaemon, LockType
    <2>. QED  BY <1>19, <2>1, <2>2 DEF ExitDaemon, LockType, Step
  <1>20. ASSUME NEW n \in Node, NEW p \in Node, RpcTimeout(n, p)
        PROVE  LockType'
    <2>1. Abandon(queue[p], n) \in Seq(EntryType)
      BY Abandoned DEF LockType
    <2>2. queue' \in [Node -> Seq(EntryType)]
      BY <1>20, <2>1 DEF RpcTimeout, LockType
    <2>. QED  BY <1>20, <2>2 DEF RpcTimeout, LockType
  <1>. QED  BY <1>1, <1>2, <1>3, <1>4, <1>5, <1>6, <1>7, <1>8, <1>9, <1>10,
               <1>11, <1>12, <1>13, <1>14, <1>15, <1>16, <1>17, <1>18, <1>19,
               <1>20 DEF Next, Watch, Handle, Fail

\* The files and what the containers run with keep their types.
LEMMA FilesTyped ==
    ASSUME TypeOK, [Next]_vars
    PROVE  FilesType'
  <1>. USE TypeParts DEF FilesType
  <1>1. CASE UNCHANGED vars
    BY <1>1 DEF vars
  <1>2. ASSUME NEW n \in Node,
               \/ RemovePeer(n) \/ Seed(n) \/ Open(n) \/ Apply(n)
               \/ Begin(n) \/ ReadFresh(n) \/ SkipWrite(n) \/ Waited(n)
               \/ SweepCall(n) \/ SweepEnd(n) \/ SeedRaise(n)
               \/ Break(n) \/ ReadRaise(n) \/ RenderFail(n)
               \/ UpMinioFail(n) \/ MinioHealthy(n) \/ BecomeLeader(n)
               \/ LoseLeadership(n) \/ ExitDaemon(n)
               \/ (\E p \in Node : RpcTimeout(n, p))
        PROVE  FilesType'
    BY <1>2 DEF RemovePeer, Seed, Open, Apply, Begin, ReadFresh, SkipWrite,
                Waited, SweepCall, SweepEnd, SeedRaise, Break, ReadRaise,
                RenderFail, UpMinioFail, MinioHealthy, BecomeLeader,
                LoseLeadership, ExitDaemon, RpcTimeout, files
  <1>3. ASSUME NEW n \in Node, JoinPeer(n)
        PROVE  FilesType'
    BY <1>3 DEF JoinPeer, SystemType
  <1>4. ASSUME NEW n \in Node, StartDaemon(n)
        PROVE  FilesType'
    <2>1. CASE rendered[n] = {}
      <3>1. ips[n] \in SUBSET Node /\ [s \in Service |-> ips[n]] \in [Service -> SUBSET Node]
        OBVIOUS
      <3>2. rendered' = [rendered EXCEPT ![n] = ips[n]]
        BY <1>4, <2>1 DEF StartDaemon
      <3>3. loaded' = [loaded EXCEPT ![n] = [s \in Service |-> ips[n]]]
        BY <1>4, <2>1 DEF StartDaemon
      <3>4. rendered' \in [Node -> SUBSET Node]
        BY <3>1, <3>2, SetReplaced
      <3>5. loaded' \in [Node -> [Service -> SUBSET Node]]
        BY <3>1, <3>3
      <3>. QED  BY <1>4, <3>4, <3>5 DEF StartDaemon
    <2>2. CASE rendered[n] # {}
      BY <1>4, <2>2 DEF StartDaemon
    <2>. QED  BY <2>1, <2>2
  <1>5. ASSUME NEW n \in Node, WriteIps(n)
        PROVE  FilesType'
    BY <1>5 DEF WriteIps, LockType
  <1>6. ASSUME NEW n \in Node, WriteNames(n)
        PROVE  FilesType'
    BY <1>6 DEF WriteNames, LockType
  <1>7. ASSUME NEW n \in Node, Render(n)
        PROVE  FilesType'
    BY <1>7 DEF Render
  <1>8. ASSUME NEW n \in Node, Reload(n)
        PROVE  FilesType'
    <2>1. loaded' \in [Node -> [Service -> SUBSET Node]]
      <3>1. CASE loaded' = [loaded EXCEPT ![n]["nginx"] = rendered[n]]
        BY <3>1 DEF Service
      <3>. QED  BY <1>8, <3>1 DEF Reload
    <2>. QED  BY <1>8, <2>1 DEF Reload, files
  <1>9. ASSUME NEW n \in Node, UpMinio(n)
        PROVE  FilesType'
    BY <1>9 DEF UpMinio, Service, files
  <1>10. ASSUME NEW n \in Node, UpMilvus(n)
        PROVE  FilesType'
    <2>1. loaded' \in [Node -> [Service -> SUBSET Node]]
      <3>1. CASE loaded' = [loaded EXCEPT ![n]["milvus"] = rendered[n]]
        BY <3>1 DEF Service
      <3>. QED  BY <1>10, <3>1 DEF UpMilvus
    <2>. QED  BY <1>10, <2>1 DEF UpMilvus, files
  <1>. QED  BY <1>1, <1>2, <1>3, <1>4, <1>5, <1>6, <1>7, <1>8, <1>9, <1>10
        DEF Next, Watch, Handle, Fail

\* Every step keeps the types.
LEMMA TypeStep == TypeOK /\ [Next]_vars => TypeOK'
  <1>1. TypeOK' <=> SystemType' /\ LockType' /\ FilesType' /\ BudgetType'
    BY TypeParts DEF TypeOK, SystemType, LockType, FilesType, BudgetType, EventType,
                     EntryType
  <1>. QED  BY <1>1, TypeParts, SystemTyped, LockTyped, FilesTyped, BudgetStep, SpentTyped

-----------------------------------------------------------------------------
(* The effect of the operators several actions share *)

\* The holder releases n's lock: nothing changes at the other locks.
LEMMA FinishEffect ==
    ASSUME LockType, NEW n \in Node, queue[n] # <<>>, Finish(n)
    PROVE  /\ queue'[n] = Tail(queue[n]) /\ step'[n] = "start" /\ ~fresh'[n]
           /\ IsEvent(n) => kind'[n] = "none"
           /\ ~IsEvent(n) => kind'[n] = kind[n]
           /\ \A m \in Node \ {n} :
                 /\ queue'[m] = queue[m] /\ step'[m] = step[m]
                 /\ fresh'[m] = fresh[m] /\ plan'[m] = plan[m]
                 /\ kind'[m] = kind[m]
           /\ \A m \in Node : awaiting'[m] = IF m = Head(queue[n]).from
                                            THEN awaiting[m] \ {n} ELSE awaiting[m]
  BY DEF LockType, Finish

\* The holder goes on to step s.
LEMMA GoToEffect ==
    ASSUME LockType, NEW n \in Node, NEW s \in Step, GoTo(n, s)
    PROVE  step'[n] = s /\ \A m \in Node \ {n} : step'[m] = step[m]
  BY DEF LockType, GoTo

\* recreate_minio_local ends: a leader's sweep begins, or the lock is released.
LEMMA RecreatedEffect ==
    ASSUME LockType, SystemType, NEW n \in Node, queue[n] # <<>>, Recreated(n)
    PROVE  \/ /\ IsEvent(n)
              /\ step'[n] = "sweep" /\ todo'[n] = mirror[n] \ {n}
              /\ \A m \in Node \ {n} : step'[m] = step[m] /\ todo'[m] = todo[m]
              /\ UNCHANGED <<kind, queue, fresh, plan, awaiting>>
           \/ ~IsEvent(n) /\ Finish(n) /\ UNCHANGED todo
  BY DEF LockType, SystemType, Recreated, GoTo

-----------------------------------------------------------------------------
(* A peer stays in its own cluster.env *)

\* Releasing n's lock keeps Listed.
LEMMA FinishListed ==
    ASSUME LockType, Listed, NEW n \in Node, queue[n] # <<>>, Finish(n),
           UNCHANGED <<watcher, ips>>
    PROVE  Listed'
  <1>. SUFFICES ASSUME NEW m \in Node
                PROVE  /\ Running(m)' => ips'[m] # {}
                       /\ queue'[m] # <<>> => Running(m)'
                       /\ step'[m] = "names" => m \in plan'[m]
    BY DEF Listed
  <1>1. CASE m = n
    BY <1>1, FinishEffect DEF Listed, Running
  <1>2. CASE m # n
    BY <1>2, FinishEffect DEF Listed, Running
  <1>. QED  BY <1>1, <1>2

\* A list is written only when it has the peer itself, and PEER_NAMES after
\* PEER_IPS with the same one.
LEMMA OwnStep ==
    ASSUME TypeOK, OwnPeerIsListed, Listed, [Next]_vars
    PROVE  OwnPeerIsListed'
  <1>. USE TypeParts DEF OwnPeerIsListed
  <1>1. CASE UNCHANGED vars
    BY <1>1 DEF vars
  <1>2. ASSUME NEW n \in Node,
               \/ RemovePeer(n) \/ StartDaemon(n) \/ Seed(n) \/ Open(n)
               \/ Apply(n) \/ Begin(n) \/ ReadFresh(n) \/ SkipWrite(n)
               \/ Render(n) \/ Reload(n) \/ UpMinio(n) \/ Waited(n)
               \/ UpMilvus(n) \/ SweepCall(n) \/ SweepEnd(n)
               \/ SeedRaise(n) \/ Break(n) \/ ReadRaise(n)
               \/ RenderFail(n) \/ UpMinioFail(n) \/ MinioHealthy(n)
               \/ BecomeLeader(n) \/ LoseLeadership(n) \/ ExitDaemon(n)
               \/ (\E p \in Node : RpcTimeout(n, p))
        PROVE  OwnPeerIsListed'
    BY <1>2 DEF RemovePeer, StartDaemon, Seed, Open, Apply, Begin, ReadFresh,
                SkipWrite, Render, Reload, UpMinio, Waited, UpMilvus,
                SweepCall, SweepEnd, SeedRaise, Break, ReadRaise, RenderFail,
                UpMinioFail, MinioHealthy, BecomeLeader, LoseLeadership,
                ExitDaemon, RpcTimeout, files
  <1>3. ASSUME NEW n \in Node, JoinPeer(n)
        PROVE  OwnPeerIsListed'
    BY <1>3 DEF JoinPeer, FilesType, SystemType
  <1>4. ASSUME NEW n \in Node, WriteIps(n)
        PROVE  OwnPeerIsListed'
    <2>1. n \in names[n] /\ n \in plan[n]
      BY <1>4 DEF WriteIps, At, Listed
    <2>. QED  BY <1>4, <2>1 DEF WriteIps, FilesType
  <1>5. ASSUME NEW n \in Node, WriteNames(n)
        PROVE  OwnPeerIsListed'
    <2>1. n \in plan[n]
      BY <1>5 DEF WriteNames, At, Listed
    <2>. QED  BY <1>5, <2>1 DEF WriteNames, FilesType
  <1>. QED  BY <1>1, <1>2, <1>3, <1>4, <1>5 DEF Next, Watch, Handle, Fail

\* A lock is held only while its daemon runs.
LEMMA ListedStep ==
    ASSUME TypeOK, OwnPeerIsListed, Listed, [Next]_vars
    PROVE  Listed'
  <1>. USE TypeParts DEF Listed, Running, At
  <1>1. CASE UNCHANGED vars
    BY <1>1 DEF vars
  <1>2. ASSUME NEW n \in Node,
               \/ RemovePeer(n) \/ MinioHealthy(n) \/ BecomeLeader(n)
               \/ LoseLeadership(n)
        PROVE  Listed'
    BY <1>2 DEF RemovePeer, MinioHealthy, BecomeLeader, LoseLeadership, files,
                watching
  <1>3. ASSUME NEW n \in Node, JoinPeer(n)
        PROVE  Listed'
    BY <1>3 DEF JoinPeer, FilesType
  <1>4. ASSUME NEW n \in Node, StartDaemon(n)
        PROVE  Listed'
    BY <1>4 DEF StartDaemon, SystemType
  <1>5. ASSUME NEW n \in Node, Seed(n)
        PROVE  Listed'
    BY <1>5 DEF Seed, SystemType, files
  <1>6. ASSUME NEW n \in Node, Open(n)
        PROVE  Listed'
    BY <1>6 DEF Open, SystemType, files
  <1>7. ASSUME NEW n \in Node, SeedRaise(n)
        PROVE  Listed'
    BY <1>7 DEF SeedRaise, SystemType, files
  <1>8. ASSUME NEW n \in Node, Break(n)
        PROVE  Listed'
    BY <1>8 DEF Break, SystemType, files
  <1>9. ASSUME NEW n \in Node, Apply(n)
        PROVE  Listed'
    BY <1>9 DEF Apply, LockType, files, watching, sweeping
  <1>10. ASSUME NEW n \in Node, WriteIps(n)
        PROVE  Listed'
    BY <1>10, GoToEffect DEF WriteIps, FilesType, watching, Step
  <1>11. ASSUME NEW n \in Node, Begin(n)
        PROVE  Listed'
    BY <1>11, GoToEffect DEF Begin, LockType, Synced, Step, files, watching
  <1>12. ASSUME NEW n \in Node, ReadFresh(n)
        PROVE  Listed'
    BY <1>12, GoToEffect DEF ReadFresh, LockType, Synced, Step, files, watching
  <1>13. ASSUME NEW n \in Node, SkipWrite(n)
        PROVE  Listed'
    BY <1>13, GoToEffect DEF SkipWrite, LockType, Synced, Step, files, watching
  <1>14. ASSUME NEW n \in Node, WriteNames(n)
        PROVE  Listed'
    BY <1>14, GoToEffect DEF WriteNames, LockType, Synced, Step, files, watching
  <1>15. ASSUME NEW n \in Node, Render(n)
        PROVE  Listed'
    BY <1>15, GoToEffect DEF Render, LockType, Synced, Step, files, watching
  <1>16. ASSUME NEW n \in Node, UpMinio(n)
        PROVE  Listed'
    BY <1>16, GoToEffect DEF UpMinio, LockType, Synced, Step, files, watching
  <1>17. ASSUME NEW n \in Node, Waited(n)
        PROVE  Listed'
    BY <1>17, GoToEffect DEF Waited, LockType, Synced, Step, files, watching
  <1>18. ASSUME NEW n \in Node, ReadRaise(n)
        PROVE  Listed'
    BY <1>18, FinishListed DEF ReadRaise, files, watching
  <1>19. ASSUME NEW n \in Node, SweepEnd(n)
        PROVE  Listed'
    BY <1>19, FinishListed DEF SweepEnd, files, watching
  <1>20. ASSUME NEW n \in Node, RenderFail(n)
        PROVE  Listed'
    <2>1. CASE fresh[n]
      BY <1>20, <2>1, GoToEffect DEF RenderFail, Step, files, watching
    <2>2. CASE ~fresh[n]
      BY <1>20, <2>2, FinishListed DEF RenderFail, Listed, files, watching
    <2>. QED  BY <2>1, <2>2
  <1>21. ASSUME NEW n \in Node, Reload(n)
        PROVE  Listed'
    <2>1. CASE Sweeps(n)
      BY <1>21, <2>1, GoToEffect DEF Reload, Step, files, watching
    <2>2. CASE ~Sweeps(n)
      BY <1>21, <2>2, FinishListed DEF Reload, Listed, files, watching
    <2>. QED  BY <2>1, <2>2
  <1>22. ASSUME NEW n \in Node, UpMinioFail(n)
        PROVE  Listed'
    <2>1. CASE Finish(n)
      BY <1>22, <2>1, FinishListed DEF UpMinioFail, files, watching
    <2>2. CASE ~Finish(n)
      BY <1>22, <2>2, RecreatedEffect DEF UpMinioFail, files, watching
    <2>. QED  BY <2>1, <2>2
  <1>23. ASSUME NEW n \in Node, UpMilvus(n)
        PROVE  Listed'
    <2>1. CASE Finish(n)
      BY <1>23, <2>1, FinishListed DEF UpMilvus, files, watching
    <2>2. CASE ~Finish(n)
      BY <1>23, <2>2, RecreatedEffect DEF UpMilvus, files, watching
    <2>. QED  BY <2>1, <2>2
  <1>24. ASSUME NEW n \in Node, SweepCall(n)
        PROVE  Listed'
    <2>. DEFINE p == Min(todo[n])
    <2>1. p \in Node
      BY <1>24, NextToCall DEF SweepCall
    <2>2. \/ queue' = queue
          \/ Running(p) /\ queue' = [queue EXCEPT ![p] = Append(queue[p], Request(n))]
      BY <1>24 DEF SweepCall
    <2>. HIDE DEF p
    <2>3. \A m \in Node : queue'[m] # <<>> => Running(m)
      BY <2>1, <2>2 DEF LockType
    <2>. QED  BY <1>24, <2>3 DEF SweepCall, files, watching
  <1>25. ASSUME NEW n \in Node, ExitDaemon(n)
        PROVE  Listed'
    <2>1. \A m \in Node : queue'[m] # <<>> => queue[m] # <<>> /\ m # n
      BY <1>25, Abandoned DEF ExitDaemon, LockType
    <2>2. \A m \in Node : watcher'[m] = IF m = n THEN "down" ELSE watcher[m]
      BY <1>25 DEF ExitDaemon, SystemType
    <2>3. \A m \in Node : /\ step'[m] = IF m = n THEN "start" ELSE step[m]
                         /\ plan'[m] = IF m = n THEN {} ELSE plan[m]
      BY <1>25 DEF ExitDaemon, LockType
    <2>. QED  BY <1>25, <2>1, <2>2, <2>3 DEF ExitDaemon, files
  <1>26. ASSUME NEW n \in Node, NEW p \in Node, RpcTimeout(n, p)
        PROVE  Listed'
    <2>1. \A m \in Node : queue'[m] # <<>> => queue[m] # <<>>
      BY <1>26, Abandoned DEF RpcTimeout, LockType
    <2>. QED  BY <1>26, <2>1 DEF RpcTimeout, files, watching
  <1>. QED  BY <1>1, <1>2, <1>3, <1>4, <1>5, <1>6, <1>7, <1>8, <1>9, <1>10,
               <1>11, <1>12, <1>13, <1>14, <1>15, <1>16, <1>17, <1>18, <1>19,
               <1>20, <1>21, <1>22, <1>23, <1>24, <1>25, <1>26
        DEF Next, Watch, Handle, Fail

\* Who releases a lock leaves nothing behind.
LEMMA IdleStep ==
    ASSUME TypeOK, FreeIsIdle, [Next]_vars
    PROVE  FreeIsIdle'
  <1>. USE TypeParts DEF FreeIsIdle, At
  <1>1. CASE UNCHANGED vars
    BY <1>1 DEF vars
  <1>2. ASSUME NEW n \in Node,
               \/ RemovePeer(n) \/ MinioHealthy(n) \/ BecomeLeader(n)
               \/ LoseLeadership(n) \/ JoinPeer(n) \/ StartDaemon(n)
               \/ Seed(n) \/ Open(n) \/ SeedRaise(n) \/ Break(n)
        PROVE  FreeIsIdle'
    BY <1>2 DEF RemovePeer, MinioHealthy, BecomeLeader, LoseLeadership,
                JoinPeer, StartDaemon, Seed, Open, SeedRaise, Break
  <1>3. ASSUME NEW n \in Node, Apply(n)
        PROVE  FreeIsIdle'
    <2>1. \A m \in Node : queue'[m] = <<>> => queue[m] = <<>>
      <3>1. Append(queue[n], EventEntry) # <<>>
        BY EntriesTyped, AppendNonempty DEF LockType
      <3>. QED  BY <1>3, <3>1 DEF Apply, LockType
    <2>. QED  BY <1>3, <2>1 DEF Apply
  <1>4. ASSUME NEW n \in Node, Begin(n)
        PROVE  FreeIsIdle'
    BY <1>4, GoToEffect DEF Begin, LockType, Synced, Step
  <1>5. ASSUME NEW n \in Node, ReadFresh(n)
        PROVE  FreeIsIdle'
    BY <1>5, GoToEffect DEF ReadFresh, LockType, Synced, Step
  <1>6. ASSUME NEW n \in Node, SkipWrite(n)
        PROVE  FreeIsIdle'
    BY <1>6, GoToEffect DEF SkipWrite, LockType, Synced, Step
  <1>7. ASSUME NEW n \in Node, WriteIps(n)
        PROVE  FreeIsIdle'
    BY <1>7, GoToEffect DEF WriteIps, LockType, Synced, Step
  <1>8. ASSUME NEW n \in Node, WriteNames(n)
        PROVE  FreeIsIdle'
    BY <1>8, GoToEffect DEF WriteNames, LockType, Synced, Step
  <1>9. ASSUME NEW n \in Node, Render(n)
        PROVE  FreeIsIdle'
    BY <1>9, GoToEffect DEF Render, LockType, Synced, Step
  <1>10. ASSUME NEW n \in Node, UpMinio(n)
        PROVE  FreeIsIdle'
    BY <1>10, GoToEffect DEF UpMinio, LockType, Synced, Step
  <1>11. ASSUME NEW n \in Node, Waited(n)
        PROVE  FreeIsIdle'
    BY <1>11, GoToEffect DEF Waited, LockType, Synced, Step
  <1>12. ASSUME NEW n \in Node, ReadRaise(n)
        PROVE  FreeIsIdle'
    BY <1>12, FinishEffect, GoToEffect DEF ReadRaise, LockType, Step
  <1>13. ASSUME NEW n \in Node, RenderFail(n)
        PROVE  FreeIsIdle'
    BY <1>13, FinishEffect, GoToEffect DEF RenderFail, LockType, Step
  <1>14. ASSUME NEW n \in Node, Reload(n)
        PROVE  FreeIsIdle'
    BY <1>14, FinishEffect, GoToEffect DEF Reload, LockType, Step
  <1>15. ASSUME NEW n \in Node, SweepEnd(n)
        PROVE  FreeIsIdle'
    BY <1>15, FinishEffect, GoToEffect DEF SweepEnd, LockType, Step
  <1>16. ASSUME NEW n \in Node, UpMinioFail(n)
        PROVE  FreeIsIdle'
    BY <1>16, FinishEffect, RecreatedEffect DEF UpMinioFail, LockType
  <1>17. ASSUME NEW n \in Node, UpMilvus(n)
        PROVE  FreeIsIdle'
    BY <1>17, FinishEffect, RecreatedEffect DEF UpMilvus, LockType
  <1>18. ASSUME NEW n \in Node, SweepCall(n)
        PROVE  FreeIsIdle'
    <2>. DEFINE p == Min(todo[n])
    <2>1. p \in Node
      BY <1>18, NextToCall DEF SweepCall
    <2>2. \/ queue' = queue
          \/ queue' = [queue EXCEPT ![p] = Append(queue[p], Request(n))]
      BY <1>18 DEF SweepCall
    <2>. HIDE DEF p
    <2>3. \A m \in Node : queue'[m] = <<>> => queue[m] = <<>>
      BY <2>1, <2>2 DEF LockType
    <2>. QED  BY <1>18, <2>3 DEF SweepCall
  <1>19. ASSUME NEW n \in Node, ExitDaemon(n)
        PROVE  FreeIsIdle'
    <2>1. \A m \in Node : queue'[m] = <<>> => queue[m] = <<>> \/ m = n
      BY <1>19, Abandoned DEF ExitDaemon, LockType
    <2>2. \A m \in Node : /\ step'[m] = IF m = n THEN "start" ELSE step[m]
                         /\ fresh'[m] = IF m = n THEN FALSE ELSE fresh[m]
      BY <1>19 DEF ExitDaemon, LockType
    <2>. QED  BY <1>19, <2>1, <2>2
  <1>20. ASSUME NEW n \in Node, NEW p \in Node, RpcTimeout(n, p)
        PROVE  FreeIsIdle'
    <2>1. \A m \in Node : queue'[m] = <<>> => queue[m] = <<>>
      BY <1>20, Abandoned DEF RpcTimeout, LockType
    <2>. QED  BY <1>20, <2>1 DEF RpcTimeout
  <1>. QED  BY <1>1, <1>2, <1>3, <1>4, <1>5, <1>6, <1>7, <1>8, <1>9, <1>10,
               <1>11, <1>12, <1>13, <1>14, <1>15, <1>16, <1>17, <1>18, <1>19,
               <1>20 DEF Next, Watch, Handle, Fail

-----------------------------------------------------------------------------
(* One MinIO at a time *)

\* Events and requests are told apart, and an event is nobody's request.
LEMMA EntriesDiffer ==
    \A l \in Node : EventEntry # Request(l) /\ EventEntry.from \notin Node
                    /\ Request(l).from = l /\ Request(l).by # "event"
                    /\ EventEntry.by = "event"
  BY NodeAssumption DEF EventEntry, Request

\* What is left of a queue when its first entry goes.
LEMMA TailEntries ==
    ASSUME NEW q \in Seq(EntryType), q # <<>>
    PROVE  /\ 1 \in DOMAIN q /\ Head(q) = q[1]
           /\ \A i \in DOMAIN Tail(q) :
                 /\ i \in Nat /\ i + 1 \in DOMAIN q /\ i + 1 # 1
                 /\ Tail(q)[i] = q[i + 1]
  OBVIOUS

\* What a queue has when an entry joins it.
LEMMA LongerEntries ==
    ASSUME NEW q \in Seq(EntryType), NEW e \in EntryType
    PROVE  /\ DOMAIN Append(q, e) = DOMAIN q \cup {Len(q) + 1}
           /\ \A i \in DOMAIN q : Append(q, e)[i] = q[i]
           /\ Append(q, e)[Len(q) + 1] = e
           /\ q # <<>> => Head(Append(q, e)) = Head(q)
  OBVIOUS

\* Entry e, which is not in m's queue, joins it.
LEMMA Queued ==
    ASSUME LockType, NEW l \in Node, NEW m \in Node, NEW e \in EntryType,
           Entered(l), Once,
           queue' = [queue EXCEPT ![m] = Append(queue[m], e)],
           \A i \in DOMAIN queue[m] : queue[m][i] # e,
           Entry(l, m, e)',
           \A n \in Node : \A i \in DOMAIN queue[n] :
              Entry(l, n, queue[n][i]) => (kind'[n] # "none" \/ kind'[n] = kind[n])
                                          /\ awaiting[l] \subseteq awaiting'[l]
    PROVE  /\ Entered(l)' /\ Once'
           /\ \A n \in Node : queue[n] # <<>> => Head(queue'[n]) = Head(queue[n])
  <1>1. queue \in [Node -> Seq(EntryType)] /\ queue[m] \in Seq(EntryType)
    BY DEF LockType
  <1>2. /\ DOMAIN Append(queue[m], e) = DOMAIN queue[m] \cup {Len(queue[m]) + 1}
        /\ \A i \in DOMAIN queue[m] : Append(queue[m], e)[i] = queue[m][i]
        /\ Append(queue[m], e)[Len(queue[m]) + 1] = e
        /\ queue[m] # <<>> => Head(Append(queue[m], e)) = Head(queue[m])
    BY <1>1, LongerEntries
  <1>3. queue'[m] = Append(queue[m], e) /\ \A n \in Node \ {m} : queue'[n] = queue[n]
    BY <1>1
  <1>4. ASSUME NEW n \in Node, NEW i \in DOMAIN queue[n]
        PROVE  Entry(l, n, queue[n][i])'
    BY <1>2, <1>3, <1>4 DEF Entered, Entry, EventEntry, Request
  <1>5. Entered(l)'
    BY <1>2, <1>3, <1>4 DEF Entered
  <1>6. Once'
    BY <1>2, <1>3 DEF Once
  <1>. QED  BY <1>2, <1>3, <1>5, <1>6

\* The lock is released by a holder whose MinIO is not awaited, and by the
\* leader only when nobody owes it an answer: the leader's request is out of the
\* queue and is no longer awaited, or the event is out of it and handled.
LEMMA FinishOrdered ==
    ASSUME LockType, SystemType, NEW l \in Node, NEW n \in Node, Ordered(l),
           queue[n] # <<>>, Finish(n), step[n] # "wait", n = l => awaiting[l] = {},
           UNCHANGED <<leaders, todo, unhealthy>>
    PROVE  Ordered(l)'
  <1>. USE DEF Ordered
  <1>1. queue[n] \in Seq(EntryType) /\ queue[n] # <<>>
    BY DEF LockType
  <1>2. /\ 1 \in DOMAIN queue[n] /\ Head(queue[n]) = queue[n][1]
        /\ \A i \in DOMAIN Tail(queue[n]) :
              /\ i \in Nat /\ i + 1 \in DOMAIN queue[n] /\ i + 1 # 1
              /\ Tail(queue[n])[i] = queue[n][i + 1]
    BY <1>1, TailEntries
  <1>3. Entry(l, n, Head(queue[n]))
    BY <1>2 DEF Entered
  <1>4. \/ /\ Head(queue[n]) = EventEntry /\ IsEvent(n)
           /\ awaiting'[l] = awaiting[l] /\ kind'[n] = "none"
        \/ /\ Head(queue[n]) = Request(l) /\ ~IsEvent(n) /\ n # l
           /\ awaiting'[l] = awaiting[l] \ {n} /\ kind'[n] = kind[n]
    <2>1. CASE Head(queue[n]) = EventEntry
      <3>1. IsEvent(n) /\ Head(queue[n]).from # l
        BY <2>1, EntriesDiffer DEF IsEvent
      <3>. QED  BY <2>1, <3>1, FinishEffect
    <2>2. CASE Head(queue[n]) = Request(l) /\ n # l
      <3>1. ~IsEvent(n) /\ Head(queue[n]).from = l
        BY <2>2, EntriesDiffer DEF IsEvent
      <3>. QED  BY <2>2, <3>1, FinishEffect
    <2>. QED  BY <1>3, <2>1, <2>2 DEF Entry
  <1>5. \A i \in DOMAIN Tail(queue[n]) : Tail(queue[n])[i] # Head(queue[n])
    BY <1>2 DEF Once
  <1>6. /\ queue'[n] = Tail(queue[n])
        /\ \A m \in Node \ {n} : queue'[m] = queue[m] /\ kind'[m] = kind[m]
    BY FinishEffect
  <1>7. Entered(l)'
    <2>. SUFFICES ASSUME NEW m \in Node, NEW i \in DOMAIN queue'[m]
                  PROVE  Entry(l, m, queue[m][i])'
      BY DEF Entered
    <2>1. CASE m = n
      <3>1. Entry(l, n, Tail(queue[n])[i])
        BY <1>2, <1>6, <2>1 DEF Entered
      <3>2. Tail(queue[n])[i] # Head(queue[n])
        BY <1>5, <1>6, <2>1
      <3>. QED  BY <1>4, <1>6, <2>1, <3>1, <3>2 DEF Entry, EventEntry, Request
    <2>2. CASE m # n
      <3>1. Entry(l, m, queue[m][i])
        BY <1>6, <2>2 DEF Entered
      <3>. QED  BY <1>4, <1>6, <2>2, <3>1 DEF Entry, EventEntry, Request
    <2>. QED  BY <2>1, <2>2
  <1>8. Once'
    <2>. SUFFICES ASSUME NEW m \in Node, NEW i \in DOMAIN queue'[m],
                         NEW k \in DOMAIN queue'[m], queue'[m][i] = queue'[m][k]
                  PROVE  i = k
      BY DEF Once
    <2>1. CASE m = n
      <3>1. /\ i \in Nat /\ i + 1 \in DOMAIN queue[n] /\ queue'[m][i] = queue[n][i + 1]
            /\ k \in Nat /\ k + 1 \in DOMAIN queue[n] /\ queue'[m][k] = queue[n][k + 1]
        BY <1>2, <1>6, <2>1
      <3>2. i + 1 = k + 1
        BY <3>1 DEF Once
      <3>. QED  BY <3>1, <3>2
    <2>2. CASE m # n
      BY <1>6, <2>2 DEF Once
    <2>. QED  BY <2>1, <2>2
  <1>9. \A m \in Node : awaiting'[m] \subseteq awaiting[m]
    BY FinishEffect
  <1>10. Follows(l)'
    BY <1>9, FinishEffect DEF Follows, Request
  <1>11. Calls(l)'
    <2>1. todo' = todo /\ (n # l => step'[l] = step[l] /\ kind'[l] = kind[l])
      BY FinishEffect
    <2>. QED  BY <1>9, <2>1 DEF Calls
  <1>12. Attended'
    <2>1. \A m \in unhealthy : m \in Node \ {n} /\ step[m] = "wait"
      BY DEF Attended, SystemType
    <2>2. \A m \in Node \ {n} : step'[m] = step[m]
      BY FinishEffect
    <2>. QED  BY <2>1, <2>2 DEF Attended
  <1>. QED  BY <1>7, <1>8, <1>10, <1>11, <1>12

\* In the first term nobody has become the leader, lost it or exited; in a calm
\* step nothing fails.
LEMMA FirstTermStep ==
    ASSUME BudgetType, FirstTerm', [Next]_vars
    PROVE  /\ FirstTerm /\ ~Term /\ ~(exits' = exits + 1)
           /\ drops' = 0 => drops = 0 /\ ~Drop
  BY BudgetStep, BoundAssumption
  DEF BudgetType, FirstTerm, Spent, Drop, Term, Change, budget

\* Who holds a lock works on the event of its peer or on the leader's request.
LEMMA HolderIs ==
    ASSUME LockType, NEW l \in Node, NEW n \in Node, Ordered(l), queue[n] # <<>>
    PROVE  /\ IsEvent(n) => Head(queue[n]) = EventEntry
           /\ ~IsEvent(n) => Head(queue[n]) = Request(l) /\ n # l
  <1>1. Entry(l, n, Head(queue[n]))
    <2>1. 1 \in DOMAIN queue[n] /\ Head(queue[n]) = queue[n][1]
      BY TailEntries DEF LockType
    <2>. QED  BY <2>1 DEF Ordered, Entered
  <1>. QED  BY <1>1, EntriesDiffer DEF Entry, IsEvent

\* The holder of n's lock goes on: a follower comes near its MinIO only for the
\* leader, and nobody but the leader comes to a sweep.
LEMMA MoveOrdered ==
    ASSUME LockType, SystemType, NEW l \in Node, NEW n \in Node, Ordered(l),
           UNCHANGED <<queue, kind, awaiting, todo, leaders>>,
           \A m \in Node \ {n} : step'[m] = step[m] /\ fresh'[m] = fresh[m],
           step[n] # "sweep",
           n # l => step'[n] # "sweep",
           n # l /\ (step'[n] \in {"read", "up", "wait", "milvus"} \/ fresh'[n])
              => Head(queue[n]) = Request(l),
           unhealthy' \subseteq unhealthy \cup {n},
           n \in unhealthy' => step'[n] = "wait"
    PROVE  Ordered(l)'
  <1>. USE DEF Ordered
  <1>1. Entered(l)' /\ Once'
    BY DEF Entered, Entry, Once, EventEntry, Request
  <1>2. Follows(l)'
    BY DEF Follows, Request
  <1>3. Calls(l)'
    BY DEF Calls
  <1>4. Attended'
    <2>1. \A m \in unhealthy' : m # n => m \in Node \ {n} /\ m \in unhealthy
      BY DEF SystemType
    <2>. QED  BY <2>1 DEF Attended
  <1>. QED  BY <1>1, <1>2, <1>3, <1>4

\* recreate_minio_local ends, with or without a MinIO that came up: the leader
\* goes on to its followers, a follower answers.
LEMMA RecreatedOrdered ==
    ASSUME LockType, SystemType, NEW l \in Node, NEW n \in Node, Ordered(l),
           queue[n] # <<>>, step[n] \in {"up", "milvus"}, Recreated(n),
           UNCHANGED <<leaders, unhealthy>>
    PROVE  Ordered(l)'
  <1>1. CASE ~IsEvent(n)
    <2>1. Finish(n) /\ todo' = todo
      BY <1>1, RecreatedEffect
    <2>. QED  BY <2>1, FinishOrdered DEF Ordered, Calls
  <1>2. CASE IsEvent(n)
    <2>1. n = l
      BY <1>2, HolderIs, EntriesDiffer DEF Ordered, Follows
    <2>2. /\ step'[n] = "sweep" /\ todo'[n] = mirror[n] \ {n}
          /\ \A m \in Node \ {n} : step'[m] = step[m] /\ todo'[m] = todo[m]
          /\ queue' = queue /\ kind' = kind /\ awaiting' = awaiting /\ fresh' = fresh
      BY <1>2, RecreatedEffect
    <2>3. awaiting[l] = {}
      BY <2>1 DEF Ordered, Calls
    <2>4. Entered(l)' /\ Once'
      BY <2>2 DEF Ordered, Entered, Entry, Once, EventEntry, Request
    <2>5. Follows(l)'
      BY <2>1, <2>2 DEF Ordered, Follows, Request
    <2>6. Calls(l)'
      BY <2>1, <2>2, <2>3 DEF Calls
    <2>7. Attended'
      BY <2>2 DEF Ordered, Attended, SystemType
    <2>. QED  BY <2>4, <2>5, <2>6, <2>7 DEF Ordered
  <1>. QED  BY <1>1, <1>2

\* While one daemon leads and nothing times out, every step keeps its rolling
\* recreation in order, also one that fails.
LEMMA OrderedStep ==
    ASSUME TypeOK, FreeIsIdle, FirstTerm', ~TimesOut,
           NEW l \in Node, Ordered(l), [Next]_vars
    PROVE  Ordered(l)'
  <1>. USE TypeParts
  <1>term. ~Term /\ ~(exits' = exits + 1)
    BY FirstTermStep
  <1>1. CASE UNCHANGED vars
    BY <1>1 DEF vars, Ordered, Entered, Entry, Once, Follows, Calls, Attended,
                EventEntry, Request
  <1>2. ASSUME NEW n \in Node,
               \/ JoinPeer(n) \/ RemovePeer(n) \/ StartDaemon(n) \/ Seed(n) \/ Open(n)
               \/ SeedRaise(n) \/ Break(n)
        PROVE  Ordered(l)'
    <2>1. UNCHANGED <<leaders, queue, kind, awaiting, todo, step, fresh, unhealthy>>
      BY <1>2 DEF JoinPeer, RemovePeer, StartDaemon, Seed, Open, SeedRaise, Break,
                  sweeping
    <2>. QED  BY <2>1 DEF Ordered, Entered, Entry, Once, Follows, Calls, Attended,
                          EventEntry, Request
  <1>gone. ASSUME NEW n \in Node,
                  BecomeLeader(n) \/ LoseLeadership(n) \/ ExitDaemon(n)
           PROVE  Ordered(l)'
    BY <1>gone, <1>term DEF BecomeLeader, LoseLeadership, ExitDaemon
  <1>3. ASSUME NEW n \in Node, Apply(n)
        PROVE  Ordered(l)'
    <2>1. kind[n] = "none" /\ queue' = [queue EXCEPT ![n] = Append(queue[n], EventEntry)]
      BY <1>3 DEF Apply
    <2>2. kind'[n] # "none" /\ \A m \in Node \ {n} : kind'[m] = kind[m]
      BY <1>3 DEF Apply, LockType
    <2>3. /\ awaiting' = awaiting /\ todo' = todo /\ step' = step /\ fresh' = fresh
          /\ leaders' = leaders /\ unhealthy' = unhealthy
      BY <1>3 DEF Apply, sweeping
    <2>4. \A i \in DOMAIN queue[n] : queue[n][i] # EventEntry
      BY <2>1, EntriesDiffer DEF Ordered, Entered, Entry
    <2>5. EventEntry \in EntryType
      BY EntriesTyped
    <2>6. Entry(l, n, EventEntry)'
      BY <2>2 DEF Entry, EventEntry, Request
    <2>7. /\ Entered(l)' /\ Once'
          /\ \A m \in Node : queue[m] # <<>> => Head(queue'[m]) = Head(queue[m])
      <3>1. \A m \in Node : (kind'[m] # "none" \/ kind'[m] = kind[m])
        BY <2>2
      <3>. QED  BY <2>1, <2>3, <2>4, <2>5, <2>6, <3>1, Queued DEF Ordered
    <2>8. Follows(l)'
      BY <2>3, <2>7 DEF Ordered, Follows, FreeIsIdle, Request
    <2>9. Calls(l)'
      BY <2>1, <2>2, <2>3 DEF Ordered, Calls
    <2>. QED  BY <2>3, <2>7, <2>8, <2>9 DEF Ordered, Attended
  <1>4. ASSUME NEW n \in Node, Begin(n)
        PROVE  Ordered(l)'
    <2>1. /\ queue' = queue /\ kind' = kind /\ awaiting' = awaiting /\ todo' = todo
          /\ leaders' = leaders /\ unhealthy' = unhealthy /\ fresh' = fresh
      BY <1>4 DEF Begin, sweeping
    <2>2. \A m \in Node \ {n} : step'[m] = step[m] /\ fresh'[m] = fresh[m]
      BY <1>4, GoToEffect DEF Begin, Synced, Step, LockType
    <2>3. /\ step[n] = "start" /\ step'[n] \in {"ips", "read"}
          /\ step'[n] = "read" => Head(queue[n]) = Request(l)
      BY <1>4, GoToEffect, HolderIs DEF Begin, At, IsEvent, Synced, Step
    <2>. QED  BY <2>1, <2>2, <2>3, MoveOrdered DEF Ordered, Follows, Attended
  <1>5. ASSUME NEW n \in Node, ReadFresh(n)
        PROVE  Ordered(l)'
    <2>1. /\ queue' = queue /\ kind' = kind /\ awaiting' = awaiting /\ todo' = todo
          /\ leaders' = leaders /\ unhealthy' = unhealthy
      BY <1>5 DEF ReadFresh, sweeping
    <2>2. \A m \in Node \ {n} : step'[m] = step[m] /\ fresh'[m] = fresh[m]
      BY <1>5, GoToEffect DEF ReadFresh, Synced, Step, LockType
    <2>3. step[n] = "read" /\ step'[n] = "ips"
      BY <1>5, GoToEffect DEF ReadFresh, At, IsEvent, Synced, Step
    <2>. QED  BY <2>1, <2>2, <2>3, MoveOrdered DEF Ordered, Follows, Attended
  <1>6. ASSUME NEW n \in Node, SkipWrite(n)
        PROVE  Ordered(l)'
    <2>1. /\ queue' = queue /\ kind' = kind /\ awaiting' = awaiting /\ todo' = todo
          /\ leaders' = leaders /\ unhealthy' = unhealthy /\ fresh' = fresh
      BY <1>6 DEF SkipWrite, sweeping
    <2>2. \A m \in Node \ {n} : step'[m] = step[m] /\ fresh'[m] = fresh[m]
      BY <1>6, GoToEffect DEF SkipWrite, Synced, Step, LockType
    <2>3. /\ step[n] = "ips" /\ step'[n] \in {"up", "reload"}
          /\ step'[n] = "up" => fresh[n]
      BY <1>6, GoToEffect DEF SkipWrite, At, IsEvent, Synced, Step
    <2>. QED  BY <2>1, <2>2, <2>3, MoveOrdered DEF Ordered, Follows, Attended
  <1>7. ASSUME NEW n \in Node, Render(n)
        PROVE  Ordered(l)'
    <2>1. /\ queue' = queue /\ kind' = kind /\ awaiting' = awaiting /\ todo' = todo
          /\ leaders' = leaders /\ unhealthy' = unhealthy /\ fresh' = fresh
      BY <1>7 DEF Render, sweeping
    <2>2. \A m \in Node \ {n} : step'[m] = step[m] /\ fresh'[m] = fresh[m]
      BY <1>7, GoToEffect DEF Render, Synced, Step, LockType
    <2>3. /\ step[n] = "render" /\ step'[n] \in {"up", "reload"}
          /\ step'[n] = "up" => fresh[n]
      BY <1>7, GoToEffect DEF Render, At, IsEvent, Synced, Step
    <2>. QED  BY <2>1, <2>2, <2>3, MoveOrdered DEF Ordered, Follows, Attended
  <1>8. ASSUME NEW n \in Node, WriteIps(n)
        PROVE  Ordered(l)'
    <2>1. /\ queue' = queue /\ kind' = kind /\ awaiting' = awaiting /\ todo' = todo
          /\ leaders' = leaders /\ unhealthy' = unhealthy /\ fresh' = fresh
      BY <1>8 DEF WriteIps, sweeping
    <2>2. \A m \in Node \ {n} : step'[m] = step[m] /\ fresh'[m] = fresh[m]
      BY <1>8, GoToEffect DEF WriteIps, Synced, Step, LockType
    <2>3. step[n] = "ips" /\ step'[n] = "names"
      BY <1>8, GoToEffect DEF WriteIps, At, IsEvent, Synced, Step
    <2>. QED  BY <2>1, <2>2, <2>3, MoveOrdered DEF Ordered, Follows, Attended
  <1>9. ASSUME NEW n \in Node, WriteNames(n)
        PROVE  Ordered(l)'
    <2>1. /\ queue' = queue /\ kind' = kind /\ awaiting' = awaiting /\ todo' = todo
          /\ leaders' = leaders /\ unhealthy' = unhealthy /\ fresh' = fresh
      BY <1>9 DEF WriteNames, sweeping
    <2>2. \A m \in Node \ {n} : step'[m] = step[m] /\ fresh'[m] = fresh[m]
      BY <1>9, GoToEffect DEF WriteNames, Synced, Step, LockType
    <2>3. step[n] = "names" /\ step'[n] = "render"
      BY <1>9, GoToEffect DEF WriteNames, At, IsEvent, Synced, Step
    <2>. QED  BY <2>1, <2>2, <2>3, MoveOrdered DEF Ordered, Follows, Attended
  <1>10. ASSUME NEW n \in Node, UpMinio(n)
        PROVE  Ordered(l)'
    <2>1. /\ queue' = queue /\ kind' = kind /\ awaiting' = awaiting /\ todo' = todo
          /\ leaders' = leaders /\ fresh' = fresh
      BY <1>10 DEF UpMinio, sweeping
    <2>2. \A m \in Node \ {n} : step'[m] = step[m] /\ fresh'[m] = fresh[m]
      BY <1>10, GoToEffect DEF UpMinio, Synced, Step, LockType
    <2>3. /\ step[n] = "up" /\ step'[n] = "wait"
          /\ unhealthy' = unhealthy \cup {n}
      BY <1>10, GoToEffect DEF UpMinio, At, IsEvent, Synced, Step
    <2>. QED  BY <2>1, <2>2, <2>3, MoveOrdered DEF Ordered, Follows, Attended
  <1>11. ASSUME NEW n \in Node, Waited(n)
        PROVE  Ordered(l)'
    <2>1. /\ queue' = queue /\ kind' = kind /\ awaiting' = awaiting /\ todo' = todo
          /\ leaders' = leaders /\ unhealthy' = unhealthy /\ fresh' = fresh
      BY <1>11 DEF Waited, sweeping
    <2>2. \A m \in Node \ {n} : step'[m] = step[m] /\ fresh'[m] = fresh[m]
      BY <1>11, GoToEffect DEF Waited, Synced, Step, LockType
    <2>3. step[n] = "wait" /\ step'[n] = "milvus" /\ n \notin unhealthy
      BY <1>11, GoToEffect DEF TimesOut, Waited, At, IsEvent, Synced, Step
    <2>. QED  BY <2>1, <2>2, <2>3, MoveOrdered DEF Ordered, Follows, Attended
  <1>12. ASSUME NEW n \in Node, Reload(n)
        PROVE  Ordered(l)'
    <2>1. CASE Sweeps(n)
      <3>1. n = l
        BY <2>1 DEF Sweeps, Ordered
      <3>2. /\ queue' = queue /\ kind' = kind /\ awaiting' = awaiting /\ todo' = todo
            /\ leaders' = leaders /\ unhealthy' = unhealthy /\ fresh' = fresh
        BY <1>12, <2>1 DEF Reload
      <3>3. /\ step[n] = "reload" /\ step'[n] = "read"
            /\ \A m \in Node \ {n} : step'[m] = step[m]
        BY <1>12, <2>1, GoToEffect DEF Reload, At, Step
      <3>. QED  BY <3>1, <3>2, <3>3, MoveOrdered DEF Ordered, Attended
    <2>2. CASE ~Sweeps(n)
      <3>1. Finish(n) /\ queue[n] # <<>> /\ step[n] = "reload"
        BY <1>12, <2>2 DEF Reload, At
      <3>2. UNCHANGED <<leaders, todo, unhealthy>>
        BY <1>12 DEF Reload
      <3>. QED  BY <3>1, <3>2, FinishOrdered DEF Ordered, Calls
    <2>. QED  BY <2>1, <2>2
  <1>13. ASSUME NEW n \in Node, SweepEnd(n)
        PROVE  Ordered(l)'
    <2>1. Finish(n) /\ queue[n] # <<>> /\ step[n] = "sweep" /\ awaiting[n] = {}
      BY <1>13 DEF SweepEnd, At
    <2>2. UNCHANGED <<leaders, todo, unhealthy>>
      BY <1>13 DEF SweepEnd
    <2>. QED  BY <2>1, <2>2, FinishOrdered
  <1>14. ASSUME NEW n \in Node, MinioHealthy(n)
        PROVE  Ordered(l)'
    <2>1. /\ queue' = queue /\ kind' = kind /\ awaiting' = awaiting /\ todo' = todo
          /\ leaders' = leaders /\ fresh' = fresh /\ step' = step
          /\ unhealthy' = unhealthy \ {n}
      BY <1>14 DEF MinioHealthy, sweeping
    <2>. QED  BY <2>1 DEF Ordered, Entered, Entry, Once, Follows, Calls,
                          Attended, EventEntry, Request
  <1>15. ASSUME NEW n \in Node, UpMilvus(n)
        PROVE  Ordered(l)'
    <2>1. queue[n] # <<>> /\ step[n] = "milvus" /\ Recreated(n)
      BY <1>15 DEF UpMilvus, At
    <2>2. leaders' = leaders /\ unhealthy' = unhealthy
      BY <1>15 DEF UpMilvus
    <2>. QED  BY <2>1, <2>2, RecreatedOrdered
  <1>16. ASSUME NEW n \in Node, SweepCall(n)
        PROVE  Ordered(l)'
    <2>0. PICK p \in Node : p = Min(todo[n])
      BY <1>16, NextToCall DEF SweepCall
    <2>1. step[n] = "sweep" /\ (kind[n] = "REMOVED" \/ awaiting[n] = {})
      BY <1>16 DEF SweepCall, At, MayCall
    <2>2. n = l /\ p \in todo[l] /\ p \in Node
      BY <1>16, <2>0, <2>1, NextToCall DEF SweepCall, Ordered, Follows
    <2>3. p # l /\ p \notin awaiting[l]
      BY <2>2 DEF Ordered, Calls
    <2>4. /\ leaders' = leaders /\ unhealthy' = unhealthy /\ step' = step
          /\ fresh' = fresh /\ kind' = kind
      BY <1>16 DEF SweepCall
    <2>5. todo' = [todo EXCEPT ![l] = todo[l] \ {p}]
      BY <1>16, <2>0, <2>2 DEF SweepCall
    <2>6. \/ awaiting' = awaiting /\ queue' = queue
          \/ /\ awaiting' = [awaiting EXCEPT ![l] = awaiting[l] \cup {p}]
             /\ queue' = [queue EXCEPT ![p] = Append(queue[p], Request(l))]
      BY <1>16, <2>0, <2>2 DEF SweepCall
    <2>7. /\ todo'[l] = todo[l] \ {p}
          /\ \A m \in Node \ {l} : awaiting'[m] = awaiting[m]
      BY <2>5, <2>6 DEF LockType
    <2>8. awaiting'[l] = awaiting[l] \/ awaiting'[l] = awaiting[l] \cup {p}
      BY <2>6 DEF LockType
    <2>9. Calls(l)'
      BY <2>1, <2>2, <2>3, <2>4, <2>7, <2>8 DEF Ordered, Calls
    <2>10. Attended'
      BY <2>4 DEF Ordered, Attended
    <2>11. /\ Entered(l)' /\ Once'
           /\ \A m \in Node : queue[m] # <<>> => Head(queue'[m]) = Head(queue[m])
      <3>1. CASE awaiting' = awaiting /\ queue' = queue
        BY <2>4, <3>1 DEF Ordered, Entered, Entry, Once, EventEntry, Request
      <3>2. CASE /\ awaiting' = [awaiting EXCEPT ![l] = awaiting[l] \cup {p}]
                 /\ queue' = [queue EXCEPT ![p] = Append(queue[p], Request(l))]
        <4>1. awaiting'[l] = awaiting[l] \cup {p}
          BY <3>2 DEF LockType
        <4>2. \A i \in DOMAIN queue[p] : queue[p][i] # Request(l)
          BY <2>2, <2>3, EntriesDiffer DEF Ordered, Entered, Entry
        <4>3. Entry(l, p, Request(l))'
          BY <2>3, <4>1 DEF Entry, EventEntry, Request
        <4>4. Request(l) \in EntryType
          BY EntriesTyped
        <4>. QED  BY <2>2, <2>4, <3>2, <4>1, <4>2, <4>3, <4>4, Queued DEF Ordered
      <3>. QED  BY <2>6, <3>1, <3>2
    <2>12. Follows(l)'
      BY <2>4, <2>7, <2>11 DEF Ordered, Follows, FreeIsIdle, Request
    <2>. QED  BY <2>4, <2>9, <2>10, <2>11, <2>12 DEF Ordered
  <1>17. ASSUME NEW n \in Node, UpMinioFail(n)
        PROVE  Ordered(l)'
    <2>1. queue[n] # <<>> /\ step[n] = "up" /\ Recreated(n)
      BY <1>17 DEF UpMinioFail, At
    <2>2. leaders' = leaders /\ unhealthy' = unhealthy
      BY <1>17 DEF UpMinioFail
    <2>. QED  BY <2>1, <2>2, RecreatedOrdered
  <1>18. ASSUME NEW n \in Node, ReadRaise(n)
        PROVE  Ordered(l)'
    <2>1. Finish(n) /\ queue[n] # <<>> /\ step[n] = "read"
      BY <1>18 DEF ReadRaise, At
    <2>2. UNCHANGED <<leaders, todo, unhealthy>>
      BY <1>18 DEF ReadRaise
    <2>. QED  BY <2>1, <2>2, FinishOrdered DEF Ordered, Calls
  <1>19. ASSUME NEW n \in Node, RenderFail(n)
        PROVE  Ordered(l)'
    <2>1. queue[n] # <<>> /\ step[n] = "render"
      BY <1>19 DEF RenderFail, At
    <2>2. UNCHANGED <<leaders, todo, unhealthy>>
      BY <1>19 DEF RenderFail
    <2>3. CASE fresh[n]
      <3>1. UNCHANGED <<queue, kind, awaiting, fresh>>
        BY <1>19, <2>3 DEF RenderFail
      <3>2. step'[n] = "up" /\ \A m \in Node \ {n} : step'[m] = step[m]
        BY <1>19, <2>3, GoToEffect DEF RenderFail, Step
      <3>. QED  BY <2>1, <2>2, <2>3, <3>1, <3>2, MoveOrdered
                DEF Ordered, Follows, Attended
    <2>4. CASE ~fresh[n]
      <3>1. Finish(n)
        BY <1>19, <2>4 DEF RenderFail
      <3>. QED  BY <2>1, <2>2, <3>1, FinishOrdered DEF Ordered, Calls
    <2>. QED  BY <2>3, <2>4
  <1>20. ASSUME NEW n \in Node, NEW p \in Node, RpcTimeout(n, p)
        PROVE  Ordered(l)'
    BY <1>20 DEF TimesOut
  <1>. QED  BY <1>1, <1>2, <1>gone, <1>3, <1>4, <1>5, <1>6, <1>7, <1>8, <1>9, <1>10,
               <1>11, <1>12, <1>13, <1>14, <1>15, <1>16, <1>17, <1>18, <1>19, <1>20
        DEF Next, Watch, Handle, Fail

\* While nothing has failed nothing times out: the leader alone awaits answers,
\* and none of its followers holds its lock for a sweep of its own.
LEMMA CalmIsPatient ==
    ASSUME TypeOK, Calm', NEW l \in Node, Ordered(l), [Next]_vars
    PROVE  ~TimesOut
  <1>. USE TypeParts
  <1>1. ~Drop
    BY FirstTermStep DEF Calm, FirstTerm
  <1>2. ASSUME NEW n \in Node, n \in unhealthy, Waited(n)
        PROVE  FALSE
    BY <1>1, <1>2 DEF Waited
  <1>3. ASSUME NEW n \in Node, NEW p \in Node, RpcTimeout(n, p)
        PROVE  FALSE
    <2>1. n = l /\ p # l
      BY <1>3 DEF RpcTimeout, Ordered, Follows, Calls
    <2>2. step[p] # "sweep"
      BY <2>1 DEF Ordered, Follows
    <2>. QED  BY <1>1, <1>3, <2>2 DEF RpcTimeout, Sweeping, At
  <1>. QED  BY <1>2, <1>3 DEF TimesOut

\* A MinIO that is down is the leader's own, or that of the one follower whose
\* answer the leader awaits.
LEMMA OrderGivesOne ==
    ASSUME TypeOK, FreeIsIdle, InOrder
    PROVE  OneIsDown
  <1>. SUFFICES ASSUME \A n \in Node : kind[n] = "REMOVED" => step[n] # "sweep"
                PROVE  Cardinality(unhealthy) <= 1
    BY DEF OneIsDown
  <1>. USE TypeParts
  <1>1. PICK l \in Node : Ordered(l)
    BY DEF InOrder
  <1>2. ASSUME NEW a \in unhealthy, a # l
        PROVE  a \in awaiting[l]
    <2>1. a \in Node /\ step[a] = "wait" /\ queue[a] # <<>>
      BY <1>1 DEF Ordered, Attended, SystemType, FreeIsIdle
    <2>2. Head(queue[a]) = Request(l)
      BY <1>1, <1>2, <2>1 DEF Ordered, Follows
    <2>3. ~IsEvent(a)
      BY <2>2, EntriesDiffer DEF IsEvent
    <2>4. 1 \in DOMAIN queue[a] /\ Head(queue[a]) = queue[a][1]
      BY <2>1, TailEntries DEF LockType
    <2>5. Entry(l, a, Head(queue[a]))
      BY <1>1, <2>1, <2>4 DEF Ordered, Entered
    <2>. QED  BY <2>2, <2>5, EntriesDiffer DEF Entry
  <1>3. \A a, b \in unhealthy : a = b
    <2>. SUFFICES ASSUME NEW a \in unhealthy, NEW b \in unhealthy, a # l
                  PROVE  a = b
      OBVIOUS
    <2>1. a \in awaiting[l] /\ step[l] = "sweep"
      BY <1>1, <1>2 DEF Ordered, Calls
    <2>2. b # l
      BY <1>1, <2>1 DEF Ordered, Attended
    <2>3. kind[l] # "REMOVED" /\ b \in awaiting[l]
      BY <1>2, <2>1, <2>2
    <2>. QED  BY <1>1, <2>1, <2>3 DEF Ordered, Calls
  <1>4. CASE unhealthy = {}
    BY <1>4, FS_EmptySet
  <1>5. ASSUME NEW a \in unhealthy
        PROVE  Cardinality(unhealthy) <= 1
    <2>1. unhealthy = {a}
      BY <1>3
    <2>2. Cardinality({a}) = 1
      BY FS_Singleton
    <2>. QED  BY <2>1, <2>2
  <1>. QED  BY <1>4, <1>5

-----------------------------------------------------------------------------
(* The invariant and the theorems *)

\* The cluster of the founders at rest satisfies the invariant.
LEMMA IInvInit == Init => IInv
  <1>. SUFFICES ASSUME Init PROVE IInv
    OBVIOUS
  <1>. USE NodeAssumption, BoundAssumption
  <1>1. BudgetType
    BY DEF Init, BudgetType
  <1>2. SystemType
    <2>1. stream \in [Node -> Seq(EventType)]
      BY DEF Init
    <2>. QED  BY <2>1 DEF Init, SystemType
  <1>3. LockType
    <2>1. queue \in [Node -> Seq(EntryType)]
      BY DEF Init
    <2>2. step \in [Node -> Step] /\ fresh \in [Node -> BOOLEAN]
      BY DEF Init, Step
    <2>. QED  BY <2>1, <2>2 DEF Init, LockType
  <1>4. FilesType
    <2>1. ips \in [Node -> SUBSET Node]
      BY DEF Init
    <2>2. loaded \in [Node -> [Service -> SUBSET Node]]
      BY <2>1 DEF Init
    <2>. QED  BY <2>1, <2>2 DEF Init, FilesType
  <1>5. OwnPeerIsListed
    BY DEF Init, OwnPeerIsListed
  <1>6. Listed /\ FreeIsIdle
    BY DEF Init, Listed, FreeIsIdle, Running
  <1>7. InOrder
    <2>1. PICK l \in Founders : leaders = {l}
      BY DEF Init
    <2>2. \A n \in Node : DOMAIN queue[n] = {}
      BY DEF Init
    <2>3. Entered(l) /\ Once
      BY <2>2 DEF Entered, Once
    <2>4. Follows(l) /\ Calls(l) /\ Attended
      BY <2>1 DEF Init, Follows, Calls, Attended
    <2>. QED  BY <2>1, <2>3, <2>4 DEF InOrder, Ordered
  <1>. QED  BY <1>1, <1>2, <1>3, <1>4, <1>5, <1>6, <1>7, TypeParts DEF IInv

\* Every step keeps it.
LEMMA IInvStep == IInv /\ [Next]_vars => IInv'
  <1>. SUFFICES ASSUME IInv, [Next]_vars PROVE IInv'
    OBVIOUS
  <1>1. TypeOK' /\ OwnPeerIsListed' /\ Listed' /\ FreeIsIdle'
    BY TypeStep, OwnStep, ListedStep, IdleStep DEF IInv
  <1>2. ASSUME Calm' PROVE InOrder'
    <2>1. Calm
      BY <1>2, FirstTermStep, TypeParts DEF IInv, Calm, FirstTerm
    <2>2. PICK l \in Node : Ordered(l)
      BY <2>1 DEF IInv, InOrder
    <2>3. ~TimesOut
      BY <1>2, <2>2, CalmIsPatient DEF IInv
    <2>4. Ordered(l)'
      BY <1>2, <2>2, <2>3, OrderedStep DEF IInv, Calm
    <2>. QED  BY <2>4 DEF InOrder
  <1>. QED  BY <1>1, <1>2 DEF IInv

\* So it holds in every reachable state.
LEMMA IInvHolds == Spec => []IInv
  BY IInvInit, IInvStep, PTL DEF Spec

\* Every variable of the watchers, the locks and the files keeps its type.
THEOREM TypeCorrect == Spec => []TypeOK
  <1>1. IInv => TypeOK
    BY DEF IInv
  <1>. QED  BY <1>1, IInvHolds, PTL

\* The guard of _sync_cluster_env_and_render does what it is there for: whatever
\* a mirror or a read of etcd says, a peer's PEER_IPS and PEER_NAMES have the
\* peer itself from the join on (handlers.py 161-178).
THEOREM OwnPeerStays == Spec => []OwnPeerIsListed
  <1>1. IInv => OwnPeerIsListed
    BY DEF IInv
  <1>. QED  BY <1>1, IInvHolds, PTL

\* The rolling recreation rolls: while one daemon leads and nothing fails, at
\* most one MinIO is down, however many peers there are and however joins and
\* removals overlap with it, but for the sweep of a removal (handlers.py 570-614).
THEOREM OneAtATime == Spec => []OneMinioAtATime
  <1>1. IInv => OneMinioAtATime
    BY OrderGivesOne DEF IInv, OneMinioAtATime, OneIsDown, Calm, FirstTerm
  <1>. QED  BY <1>1, IInvHolds, PTL

\* What it takes is patience, not luck: in the first term the order survives
\* every failure but a timeout.  A read of etcd that raises, a render, a reload
\* or a docker command that fails, a stream that breaks, never bring a second
\* MinIO down; a call of the sweep that is given up, or a wait for a MinIO that
\* runs out, may, since the sweep goes on after it (handlers.py 271, 570-591).
THEOREM OnlyTimeoutsOverlap ==
    Spec /\ [][~TimesOut]_vars => [](FirstTerm => OneIsDown)
  <1>. DEFINE Inv == FirstTerm => InOrder
  <1>1. Init => Inv
    BY IInvInit DEF IInv, Init, Calm, FirstTerm
  <1>2. ASSUME IInv, Inv, [Next]_vars, [~TimesOut]_vars PROVE Inv'
    <2>. SUFFICES ASSUME FirstTerm' PROVE InOrder'
      OBVIOUS
    <2>1. FirstTerm
      BY <1>2, FirstTermStep, TypeParts DEF IInv
    <2>2. PICK l \in Node : Ordered(l)
      BY <1>2, <2>1 DEF InOrder
    <2>3. CASE ~TimesOut
      BY <1>2, <2>2, <2>3, OrderedStep DEF IInv, InOrder
    <2>4. CASE UNCHANGED vars
      <3>1. Ordered(l)'
        BY <2>2, <2>4 DEF vars, Ordered, Entered, Entry, Once, Follows, Calls,
                          Attended, EventEntry, Request
      <3>. QED  BY <3>1 DEF InOrder
    <2>. QED  BY <1>2, <2>3, <2>4
  <1>3. IInv /\ Inv => (FirstTerm => OneIsDown)
    BY OrderGivesOne DEF IInv
  <1>. HIDE DEF Inv
  <1>. QED  BY <1>1, <1>2, <1>3, IInvHolds, PTL DEF Spec

=============================================================================
