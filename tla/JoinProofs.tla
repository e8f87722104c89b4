----------------------------- MODULE JoinProofs -----------------------------
(***************************************************************************)
(* Theorems about Join, for any number of peers, joiners, terms, faults,   *)
(* removals and returns of removed hosts.                                  *)
(*                                                                         *)
(* _join_lock is a lock of one daemon, not of the cluster.  The argument   *)
(* is that no two daemons are past their wait for healthy members at once  *)
(* (OneCritical): between a handler's reading of the topology and its      *)
(* writing nobody else takes the name or registers the IP, so that a       *)
(* joiner that holds a cluster.env has its entry, until a removal deletes  *)
(* it, and does not register a second time when it starts (Serial).  In    *)
(* the first term that is a consequence, because one daemon has all the    *)
(* requests (OneHandler); in later terms it is the hypothesis of           *)
(* OnlyOverlapAndReturn.  A removal may take any of its steps between any  *)
(* two steps of a join; what it must not do is come back: a removed host   *)
(* that registers itself again ends what Serial says (returns).            *)
(***************************************************************************)
EXTENDS Join, TLAPS, FiniteSetTheorems, WellFoundedInduction

\* The handler has allocated a name.
Named == {"write", "add", "rollback"}

\* A daemon that has a part in the joins.
Active(n) == n \in leaders \/ queue[n] # <<>> \/ phase[n] # "idle"

\* A handler under way has a joiner, and a name once it has allocated one; a
\* removal under way has a peer and a name.
Handling ==
    /\ \A n \in Node : /\ phase[n] # "idle" => ipOf[n] \in Joiner
                       /\ phase[n] \in Named => nameOf[n] \in Name
    /\ \A j \in Removal :
          removal[j].at # "none" => removal[j].ip \in Ip /\ removal[j].name \in Name

\* Whoever is up holds a cluster.env, and whoever awaits an answer does not.
Holding == /\ \A ip \in booted : alloc[ip] # NoName
           /\ \A ip \in Ip : asking[ip] # NoIp => alloc[ip] = NoName

\* In the first term one daemon has all the requests.
OneHandler ==
    /\ terms = 0 => \A n \in Node : ~Active(n)
    /\ terms <= 1 => \A n, m \in Node : Active(n) /\ Active(m) => n = m

\* While nothing has failed, every request is awaited, and there is one of a joiner.
Requests ==
    exits = 0 /\ drops = 0 =>
       \A n \in Node :
          /\ phase[n] # "idle" => Awaited(n)
          /\ \A i \in DOMAIN queue[n] : asking[queue[n][i]] = n
          /\ \A i, k \in DOMAIN queue[n] : queue[n][i] = queue[n][k] => i = k

\* What holds however many daemons handle joins.
Shape == TypeOK /\ Handling /\ Holding /\ OneHandler /\ Requests

\* The handler is past its wait: it reads the topology, or acts on what it read.
Critical(n) == phase[n] = "read" \/ phase[n] \in Named

\* No two daemons are there at once.
OneCritical == \A n, m \in Node : Critical(n) /\ Critical(m) => n = m

\* A host that holds a cluster.env has the entry of its name, if no removal has
\* deleted it.
AllocIsRegistered ==
    \A ip \in Ip \ removed : alloc[ip] # NoName => topology[alloc[ip]] = ip

\* No IP is registered under two names.
IpsUnique ==
    \A k, m \in Name : topology[k] = topology[m] /\ topology[k] # NoIp => k = m

\* Nobody has taken the name that a handler allocated, nor registered its
\* joiner, until it writes the entry itself; after that only a removal deletes it.
\* Its joiner has no answer yet, or has been removed since.
AllocationIsAtomic ==
    \A n \in Node :
       /\ phase[n] = "write" => topology[nameOf[n]] = NoIp
       /\ phase[n] = "write" => \A k \in Name : topology[k] # ipOf[n]
       /\ phase[n] \in {"add", "rollback"} => topology[nameOf[n]] \in {ipOf[n], NoIp}
       /\ phase[n] \in {"add", "rollback"} /\ topology[nameOf[n]] = NoIp =>
             ipOf[n] \in removed \/ ~Awaited(n)
       /\ phase[n] \in Named => alloc[ipOf[n]] = NoName \/ ipOf[n] \in removed

\* While nothing has failed: members hold a cluster.env, all of them are up while
\* a handler is past its wait, no handler rolls back, who is registered and not
\* removed is a member or is about to become one, and a removal deletes the member
\* after the entry.
MembersAgree ==
    exits = 0 /\ drops = 0 =>
       /\ \A ip \in members : alloc[ip] # NoName
       /\ \A n \in Node : phase[n] # "rollback" /\ (Critical(n) => members = started)
       /\ \A k \in Name :
             \/ topology[k] \in members \cup removed \cup {NoIp}
             \/ \E n \in Node : phase[n] = "add" /\ nameOf[n] = k
       /\ \A j \in Removal :
             /\ removal[j].at = "drain" =>
                   topology[removal[j].name] = removal[j].ip \/ removal[j].ip \in removed
             /\ removal[j].at = "member" => removal[j].ip \in removed

\* What holds as long as no two daemons are past their wait at once and no removed
\* host has registered itself.
Serial == AllocIsRegistered /\ IpsUnique /\ AllocationIsAtomic /\ MembersAgree

\* What one term promises, without regard to the term.
JoinsAreSound ==
    LET registered == {topology[k] : k \in Name} \ {NoIp}
    IN  /\ NamesUnique /\ IpsUnique
        /\ booted \subseteq registered \cup removed
        /\ exits = 0 /\ drops = 0 /\ Idle => registered \ removed = members \ removed

-----------------------------------------------------------------------------
(* Names *)

\* A set of names that is not empty has a least one, which Min is.
LEMMA MinInSet ==
    ASSUME NEW S \in SUBSET Nat, S # {}
    PROVE  Min(S) \in S
  <1>1. IsWellFoundedOn(OpToRel(<, Nat), Nat)
    BY NatLessThanWellFounded
  <1>2. PICK x \in S : \A y \in S : ~ (<<y, x>> \in OpToRel(<, Nat))
    BY <1>1, WFMin
  <1>3. \A y \in S : x <= y
    <2>. TAKE y \in S
    <2>1. ~(y < x)
      <3>1. y < x => <<y, x>> \in OpToRel(<, Nat)
        BY Zenon DEF OpToRel
      <3>. QED  BY <1>2, <3>1
    <2>. QED  BY <2>1
  <1>. QED  BY <1>3 DEF Min

\* _allocate_next_name returns a name, one that is free, as long as there is one.
LEMMA AllocatedIsFree ==
    ASSUME \E k \in Name : topology[k] = NoIp
    PROVE  AllocateNextName \in Name /\ topology[AllocateNextName] = NoIp
  <1>. DEFINE S == {k \in Name : topology[k] = NoIp}
  <1>1. S \in SUBSET Nat /\ S # {}
    BY BoundAssumption DEF Name
  <1>2. Min(S) \in S
    BY <1>1, MinInSet
  <1>. QED  BY <1>2 DEF AllocateNextName

-----------------------------------------------------------------------------
(* One step of the specification, for each part of the invariant *)

\* What the answer of a handler with a joiner does to the joiners and to the daemon.
LEMMA ReplyEffect ==
    ASSUME TypeOK, NEW n \in Node, NEW k \in Name, ipOf[n] \in Joiner, Reply(n, k)
    PROVE  /\ alloc' \in [Ip -> Name \cup {NoName}] /\ asking' \in [Ip -> Node \cup {NoIp}]
           /\ phase' \in [Node -> Phase] /\ ipOf' \in [Node -> Ip \cup {NoIp}]
           /\ nameOf' \in [Node -> Name \cup {NoName}]
           /\ alloc'[ipOf[n]] \in {alloc[ipOf[n]], k}
           /\ \A a \in Ip \ {ipOf[n]} : alloc'[a] = alloc[a]
           /\ Awaited(n) => alloc'[ipOf[n]] = k /\ asking'[ipOf[n]] = NoIp
           /\ ~Awaited(n) => UNCHANGED joiner
           /\ phase'[n] = "idle"
           /\ \A m \in Node \ {n} : /\ phase'[m] = phase[m] /\ ipOf'[m] = ipOf[m]
                                     /\ nameOf'[m] = nameOf[m]
  <1>1. phase' \in [Node -> Phase] /\ phase'[n] = "idle"
    BY DEF TypeOK, Reply, Release, Phase
  <1>2. ipOf' \in [Node -> Ip \cup {NoIp}] /\ nameOf' \in [Node -> Name \cup {NoName}]
    BY DEF TypeOK, Reply, Release
  <1>3. \A m \in Node \ {n} : /\ phase'[m] = phase[m] /\ ipOf'[m] = ipOf[m]
                                /\ nameOf'[m] = nameOf[m]
    BY DEF TypeOK, Reply, Release
  <1>4. alloc' \in [Ip -> Name \cup {NoName}] /\ asking' \in [Ip -> Node \cup {NoIp}]
    BY DEF TypeOK, Reply, joiner
  <1>5. /\ alloc'[ipOf[n]] \in {alloc[ipOf[n]], k}
        /\ \A a \in Ip \ {ipOf[n]} : alloc'[a] = alloc[a]
        /\ Awaited(n) => alloc'[ipOf[n]] = k /\ asking'[ipOf[n]] = NoIp
        /\ ~Awaited(n) => UNCHANGED joiner
    BY DEF TypeOK, Reply, joiner, Ip
  <1>. QED  BY <1>1, <1>2, <1>3, <1>4, <1>5

\* A removal goes on.
LEMMA JobMoves ==
    ASSUME TypeOK, NEW j \in Removal, NEW p \in {"member", "done"},
           removal' = [removal EXCEPT ![j].at = p]
    PROVE  removal' \in [Removal -> [at : {"none", "drain", "member", "done"},
                                     ip : Ip \cup {NoIp}, name : Name \cup {NoName}]]
  <1>1. [removal[j] EXCEPT !.at = p] \in
           [at : {"none", "drain", "member", "done"},
            ip : Ip \cup {NoIp}, name : Name \cup {NoName}]
    BY DEF TypeOK
  <1>. QED  BY <1>1 DEF TypeOK

\* The types, for which a handler must have a joiner and a name.
LEMMA TypeStep == Shape /\ [Next]_vars => TypeOK'
  <1> SUFFICES ASSUME Shape, [Next]_vars
               PROVE  TypeOK'
    OBVIOUS
  <1> USE IpAssumption, BoundAssumption DEF Shape, TypeOK, Handling, Holding,
     Ip, NoName, Phase, Named, Removal
  <1>1. ASSUME NEW n \in Node, Acquire(n) PROVE TypeOK'
    BY <1>1 DEF Acquire, Awaited, etcd, joiner, handler, leaving, budget
  <1>2. ASSUME NEW n \in Node, Healthy(n) PROVE TypeOK'
    BY <1>2 DEF Healthy, GoTo, etcd, joiner, handler, leaving, budget
  <1>3. ASSUME NEW n \in Node, WaitTimeout(n) PROVE TypeOK'
    BY <1>3 DEF WaitTimeout, Refuse, Release, etcd, joiner, handler, leaving,
       budget
  <1>4. ASSUME NEW n \in Node, ReadKnown(n) PROVE TypeOK'
    <2>1. PICK k \in Name : topology[k] = ipOf[n] /\ Reply(n, k)
      BY <1>4 DEF ReadKnown
    <2>2. ipOf[n] \in Joiner
      BY <1>4 DEF Shape, Handling, ReadKnown
    <2>. QED
      BY <1>4, <2>1, <2>2, ReplyEffect
         DEF Shape, TypeOK, ReadKnown, etcd, leaving, budget
  <1>5. ASSUME NEW n \in Node, ReadNew(n) PROVE TypeOK'
    BY <1>5, AllocatedIsFree DEF ReadNew, etcd, joiner, handler, leaving, budget
  <1>6. ASSUME NEW n \in Node, Write(n) PROVE TypeOK'
    BY <1>6 DEF Write, GoTo, PutIfAbsent, etcd, joiner, handler, leaving, budget
  <1>7. ASSUME NEW n \in Node, Add(n) PROVE TypeOK'
    <2>1. ipOf[n] \in Joiner /\ nameOf[n] \in Name /\ Reply(n, nameOf[n])
      BY <1>7 DEF Shape, Handling, Named, Add
    <2>. QED
      BY <1>7, <2>1, ReplyEffect DEF Shape, TypeOK, Add, leaving, budget, Ip
  <1>8. ASSUME NEW n \in Node, AddRefused(n) PROVE TypeOK'
    BY <1>8 DEF AddRefused, GoTo, etcd, joiner, handler, leaving, budget
  <1>9. ASSUME NEW n \in Node, Rollback(n) PROVE TypeOK'
    BY <1>9 DEF Rollback, Refuse, Release, etcd, joiner, handler, leaving,
       budget
  <1>10. ASSUME NEW n \in Node, WriteRaise(n) PROVE TypeOK'
    <2>1. ipOf[n] \in Joiner /\ (phase[n] = "write" => nameOf[n] \in Name)
      BY <1>10 DEF Shape, Handling, Named, WriteRaise
    <2>2. topology' \in [Name -> Ip \cup {NoIp}]
      <3>1. \/ topology' = topology
            \/ nameOf[n] \in Name
               /\ topology' = [topology EXCEPT ![nameOf[n]] = ipOf[n]]
        BY <1>10, <2>1 DEF WriteRaise, PutIfAbsent
      <3>2. topology \in [Name -> Ip \cup {NoIp}] /\ ipOf[n] \in Ip \cup {NoIp}
        BY <2>1 DEF Shape, TypeOK, Ip
      <3>. QED  BY <3>1, <3>2
    <2>3. asking' \in [Ip -> Node \cup {NoIp}] /\ UNCHANGED alloc
      BY <1>10, <2>1 DEF Shape, TypeOK, WriteRaise, Refuse, Ip
    <2>4. /\ phase' \in [Node -> Phase] /\ ipOf' \in [Node -> Ip \cup {NoIp}]
          /\ nameOf' \in [Node -> Name \cup {NoName}]
      BY <1>10 DEF Shape, TypeOK, WriteRaise, Refuse, Release, Phase
    <2>. QED
      BY <1>10, <2>2, <2>3, <2>4 DEF Shape, TypeOK, WriteRaise, Drop, leaving
  <1>11. ASSUME NEW n \in Node, AddRaise(n) PROVE TypeOK'
    BY <1>11 DEF AddRaise, GoTo, Drop, etcd, joiner, handler, leaving, budget
  <1>12. ASSUME NEW n \in Node, RollbackRaise(n) PROVE TypeOK'
    BY <1>12 DEF RollbackRaise, Refuse, Release, Drop, etcd, joiner, handler,
       leaving, budget
  <1>13. ASSUME NEW n \in Node, BecomeLeader(n) PROVE TypeOK'
    BY <1>13 DEF BecomeLeader, etcd, joiner, handler, leaving, budget
  <1>14. ASSUME NEW n \in Node, LoseLeadership(n) PROVE TypeOK'
    BY <1>14 DEF LoseLeadership, etcd, joiner, handler, leaving, budget
  <1>15. ASSUME NEW n \in Node, ExitDaemon(n) PROVE TypeOK'
    BY <1>15 DEF ExitDaemon, Release, etcd, joiner, handler, leaving, budget
  <1>16. ASSUME NEW n \in Node, NEW ip \in Joiner, Ask(n, ip) PROVE TypeOK'
    BY <1>16 DEF Ask, etcd, joiner, handler, leaving, budget
  <1>17. ASSUME NEW ip \in Joiner, GiveUp(ip) PROVE TypeOK'
    BY <1>17 DEF GiveUp, Drop, etcd, joiner, handler, leaving, budget
  <1>18. ASSUME NEW ip \in Joiner, StartPeer(ip) PROVE TypeOK'
    BY <1>18 DEF StartPeer, RegisterSelf, PutIfAbsent, etcd, joiner, handler,
       leaving, budget
  <1>19. ASSUME NEW ip \in Joiner, Teardown(ip) PROVE TypeOK'
    BY <1>19 DEF Teardown, etcd, joiner, handler, leaving, budget
  <1>20. ASSUME NEW ip \in Ip, RestartDaemon(ip) PROVE TypeOK'
    BY <1>20 DEF RestartDaemon, RegisterSelf, PutIfAbsent, etcd, joiner,
       handler, leaving, budget
  <1>21. ASSUME NEW j \in Removal, NEW ip \in Ip, Remove(j, ip) PROVE TypeOK'
    BY <1>21 DEF Remove, etcd, joiner, handler, leaving, budget
  <1>22. ASSUME NEW j \in Removal, Unlist(j) PROVE TypeOK'
    <2>1. removal[j].name \in Name
      BY <1>22 DEF Unlist
    <2>2. topology' \in [Name -> Ip \cup {NoIp}]
      BY <1>22, <2>1 DEF Unlist
    <2>3. removed' \in SUBSET Ip
      <3>1. topology[removal[j].name] \in Ip \cup {NoIp}
        BY <2>1
      <3>. QED  BY <1>22, <3>1 DEF Unlist
    <2>4. removal' \in [Removal -> [at : {"none", "drain", "member", "done"},
                                    ip : Ip \cup {NoIp}, name : Name \cup {NoName}]]
      <3>1. removal' = [removal EXCEPT ![j].at = "member"]
        BY <1>22 DEF Unlist
      <3>. HIDE DEF TypeOK
      <3>. QED  BY <3>1, JobMoves
    <2>. QED  BY <1>22, <2>2, <2>3, <2>4 DEF Unlist, joiner, handler, budget
  <1>23. ASSUME NEW j \in Removal, RemoveMember(j) PROVE TypeOK'
    <2>1. members' \in SUBSET Ip /\ started' \in SUBSET Ip
      BY <1>23 DEF RemoveMember
    <2>2. removal' \in [Removal -> [at : {"none", "drain", "member", "done"},
                                    ip : Ip \cup {NoIp}, name : Name \cup {NoName}]]
      <3>1. removal' = [removal EXCEPT ![j].at = "done"]
        BY <1>23 DEF RemoveMember
      <3>. HIDE DEF TypeOK
      <3>. QED  BY <3>1, JobMoves
    <2>. QED  BY <1>23, <2>1, <2>2 DEF RemoveMember, joiner, handler, budget
  <1>24. ASSUME NEW j \in Removal, BreakOff(j) PROVE TypeOK'
    <2>1. removal' \in [Removal -> [at : {"none", "drain", "member", "done"},
                                    ip : Ip \cup {NoIp}, name : Name \cup {NoName}]]
      <3>1. removal' = [removal EXCEPT ![j].at = "done"]
        BY <1>24 DEF BreakOff
      <3>. HIDE DEF TypeOK
      <3>. QED  BY <3>1, JobMoves
    <2>. QED  BY <1>24, <2>1 DEF BreakOff, etcd, joiner, handler, budget
  <1>25. CASE UNCHANGED vars
    BY <1>25 DEF vars
  <1>. QED
    BY <1>1, <1>2, <1>3, <1>4, <1>5, <1>6, <1>7, <1>8, <1>9, <1>10, <1>11,
       <1>12, <1>13, <1>14, <1>15, <1>16, <1>17, <1>18, <1>19, <1>20, <1>21,
       <1>22, <1>23, <1>24, <1>25 DEF Next, Handle

\* What a handler has, and what a removal.
LEMMA HandlingStep == Shape /\ [Next]_vars => Handling'
  <1> SUFFICES ASSUME Shape, [Next]_vars
               PROVE  Handling'
    OBVIOUS
  <1> USE IpAssumption, BoundAssumption DEF Shape, TypeOK, Handling, Phase,
     Named, Removal, Ip
  <1>1. ASSUME NEW n \in Node, Acquire(n) PROVE Handling'
    BY <1>1 DEF Acquire, Awaited, etcd, joiner, handler, leaving, budget
  <1>2. ASSUME NEW n \in Node, Healthy(n) PROVE Handling'
    BY <1>2 DEF Healthy, GoTo, etcd, joiner, handler, leaving, budget
  <1>3. ASSUME NEW n \in Node, WaitTimeout(n) PROVE Handling'
    BY <1>3 DEF WaitTimeout, Refuse, Release, etcd, joiner, handler, leaving,
       budget
  <1>4. ASSUME NEW n \in Node, ReadKnown(n) PROVE Handling'
    BY <1>4 DEF ReadKnown, Reply, Release, etcd, joiner, handler, leaving,
       budget
  <1>5. ASSUME NEW n \in Node, ReadNew(n) PROVE Handling'
    BY <1>5, AllocatedIsFree DEF ReadNew, etcd, joiner, handler, leaving, budget
  <1>6. ASSUME NEW n \in Node, Write(n) PROVE Handling'
    BY <1>6 DEF Write, GoTo, PutIfAbsent, etcd, joiner, handler, leaving, budget
  <1>7. ASSUME NEW n \in Node, Add(n) PROVE Handling'
    BY <1>7 DEF Add, Reply, Release, etcd, joiner, handler, leaving, budget
  <1>8. ASSUME NEW n \in Node, AddRefused(n) PROVE Handling'
    BY <1>8 DEF AddRefused, GoTo, etcd, joiner, handler, leaving, budget
  <1>9. ASSUME NEW n \in Node, Rollback(n) PROVE Handling'
    BY <1>9 DEF Rollback, Refuse, Release, etcd, joiner, handler, leaving,
       budget
  <1>10. ASSUME NEW n \in Node, WriteRaise(n) PROVE Handling'
    BY <1>10 DEF WriteRaise, Refuse, Release, Drop, PutIfAbsent, etcd, joiner,
       handler, leaving, budget
  <1>11. ASSUME NEW n \in Node, AddRaise(n) PROVE Handling'
    BY <1>11 DEF AddRaise, GoTo, Drop, etcd, joiner, handler, leaving, budget
  <1>12. ASSUME NEW n \in Node, RollbackRaise(n) PROVE Handling'
    BY <1>12 DEF RollbackRaise, Refuse, Release, Drop, etcd, joiner, handler,
       leaving, budget
  <1>13. ASSUME NEW n \in Node, ExitDaemon(n) PROVE Handling'
    BY <1>13 DEF ExitDaemon, Release, etcd, joiner, handler, leaving, budget
  <1>14. ASSUME NEW j \in Removal, NEW ip \in Ip, Remove(j, ip) PROVE Handling'
    BY <1>14 DEF Remove, etcd, joiner, handler, leaving, budget
  <1>15. ASSUME NEW j \in Removal, Unlist(j) PROVE Handling'
    BY <1>15 DEF Unlist, etcd, joiner, handler, leaving, budget
  <1>16. ASSUME NEW j \in Removal, RemoveMember(j) PROVE Handling'
    BY <1>16 DEF RemoveMember, etcd, joiner, handler, leaving, budget
  <1>17. ASSUME NEW j \in Removal, BreakOff(j) PROVE Handling'
    BY <1>17 DEF BreakOff, etcd, joiner, handler, leaving, budget
  <1>18. CASE UNCHANGED <<handler, removal>>
    BY <1>18 DEF handler
  <1>. QED
    BY <1>1, <1>2, <1>3, <1>4, <1>5, <1>6, <1>7, <1>8, <1>9, <1>10, <1>11,
       <1>12, <1>13, <1>14, <1>15, <1>16, <1>17, <1>18 DEF Next, Handle,
       BecomeLeader, LoseLeadership, Ask, GiveUp, StartPeer, Teardown,
       RestartDaemon, Drop, RegisterSelf, etcd, joiner, handler, leaving,
       budget, vars

\* No host that is up loses its name, and nobody awaits an answer that has one.
LEMMA HoldingStep == Shape /\ [Next]_vars => Holding'
  <1> SUFFICES ASSUME Shape, [Next]_vars
               PROVE  Holding'
    OBVIOUS
  <1> USE IpAssumption, BoundAssumption DEF Shape, TypeOK, Handling, Holding,
     Ip, Named, NoName, Name
  <1>1. ASSUME NEW n \in Node, WaitTimeout(n) PROVE Holding'
    BY <1>1 DEF WaitTimeout, Refuse, Release, etcd, joiner, handler, leaving,
       budget
  <1>2. ASSUME NEW n \in Node, ReadKnown(n) PROVE Holding'
    <2>1. PICK k \in Name : Reply(n, k)
      BY <1>2 DEF ReadKnown
    <2>2. UNCHANGED booted /\ ipOf[n] \in Joiner
      BY <1>2 DEF ReadKnown, leaving
    <2>3. Awaited(n) => alloc' = [alloc EXCEPT ![ipOf[n]] = k]
                        /\ asking' = [asking EXCEPT ![ipOf[n]] = NoIp]
      BY <2>1 DEF Reply
    <2>4. ~Awaited(n) => UNCHANGED <<alloc, asking>>
      BY <2>1 DEF Reply, joiner
    <2>5. /\ \A a \in booted' : a \in Ip /\ a # NoIp
          /\ \A a \in Ip : alloc'[a] \in {alloc[a], k} /\ k # NoName
      BY <2>2, <2>3, <2>4
    <2>6. \A a \in booted' : alloc'[a] # NoName
      BY <2>2, <2>5
    <2>7. \A a \in Ip : asking'[a] # NoIp => alloc'[a] = NoName
      BY <2>2, <2>3, <2>4
    <2>. QED  BY <2>6, <2>7
  <1>3. ASSUME NEW n \in Node, Add(n) PROVE Holding'
    <2>1. UNCHANGED booted /\ ipOf[n] \in Joiner /\ nameOf[n] \in Name /\ Reply(n, nameOf[n])
      BY <1>3 DEF Add, leaving
    <2>2. Awaited(n) => alloc' = [alloc EXCEPT ![ipOf[n]] = nameOf[n]]
                        /\ asking' = [asking EXCEPT ![ipOf[n]] = NoIp]
      BY <2>1 DEF Reply
    <2>3. ~Awaited(n) => UNCHANGED <<alloc, asking>>
      BY <2>1 DEF Reply, joiner
    <2>. QED  BY <2>1, <2>2, <2>3
  <1>4. ASSUME NEW n \in Node, Rollback(n) PROVE Holding'
    BY <1>4 DEF Rollback, Refuse, Release, etcd, joiner, handler, leaving,
       budget
  <1>5. ASSUME NEW n \in Node, WriteRaise(n) PROVE Holding'
    BY <1>5 DEF WriteRaise, Refuse, Release, Drop, PutIfAbsent, etcd, joiner,
       handler, leaving, budget
  <1>6. ASSUME NEW n \in Node, RollbackRaise(n) PROVE Holding'
    BY <1>6 DEF RollbackRaise, Refuse, Release, Drop, etcd, joiner, handler,
       leaving, budget
  <1>7. ASSUME NEW n \in Node, ExitDaemon(n) PROVE Holding'
    BY <1>7 DEF ExitDaemon, Release, etcd, joiner, handler, leaving, budget
  <1>8. ASSUME NEW n \in Node, NEW ip \in Joiner, Ask(n, ip) PROVE Holding'
    BY <1>8 DEF Ask, etcd, joiner, handler, leaving, budget
  <1>9. ASSUME NEW ip \in Joiner, GiveUp(ip) PROVE Holding'
    BY <1>9 DEF GiveUp, Drop, etcd, joiner, handler, leaving, budget
  <1>10. ASSUME NEW ip \in Joiner, StartPeer(ip) PROVE Holding'
    BY <1>10 DEF StartPeer, RegisterSelf, PutIfAbsent, etcd, joiner, handler,
       leaving, budget
  <1>11. ASSUME NEW ip \in Joiner, Teardown(ip) PROVE Holding'
    BY <1>11 DEF Teardown, etcd, joiner, handler, leaving, budget
  <1>12. CASE UNCHANGED <<booted, joiner>>
    BY <1>12 DEF joiner
  <1>. QED
    BY <1>1, <1>2, <1>3, <1>4, <1>5, <1>6, <1>7, <1>8, <1>9, <1>10, <1>11, <1>12
       DEF Next, Handle, Acquire, Healthy, ReadNew, Write, AddRefused, AddRaise,
       BecomeLeader, LoseLeadership, RestartDaemon, Remove, Unlist,
       RemoveMember, BreakOff, GoTo, Drop, RegisterSelf, etcd, joiner, handler,
       leaving, budget, vars

\* Only an election makes another daemon take requests.
LEMMA OneHandlerStep == Shape /\ [Next]_vars => OneHandler'
  <1> SUFFICES ASSUME Shape, [Next]_vars
               PROVE  OneHandler'
    OBVIOUS
  <1> USE IpAssumption, BoundAssumption DEF Shape, TypeOK, OneHandler, Active
  <1>1. ASSUME NEW n \in Node, Acquire(n) PROVE OneHandler'
    BY <1>1 DEF Acquire, Awaited, etcd, joiner, handler, leaving, budget
  <1>2. ASSUME NEW n \in Node, Healthy(n) PROVE OneHandler'
    BY <1>2 DEF Healthy, GoTo, etcd, joiner, handler, leaving, budget
  <1>3. ASSUME NEW n \in Node, WaitTimeout(n) PROVE OneHandler'
    BY <1>3 DEF WaitTimeout, Refuse, Release, etcd, joiner, handler, leaving,
       budget
  <1>4. ASSUME NEW n \in Node, ReadKnown(n) PROVE OneHandler'
    BY <1>4 DEF ReadKnown, Reply, Release, etcd, joiner, handler, leaving,
       budget
  <1>5. ASSUME NEW n \in Node, ReadNew(n) PROVE OneHandler'
    BY <1>5 DEF ReadNew, etcd, joiner, handler, leaving, budget
  <1>6. ASSUME NEW n \in Node, Write(n) PROVE OneHandler'
    BY <1>6 DEF Write, GoTo, PutIfAbsent, etcd, joiner, handler, leaving, budget
  <1>7. ASSUME NEW n \in Node, Add(n) PROVE OneHandler'
    BY <1>7 DEF Add, Reply, Release, etcd, joiner, handler, leaving, budget
  <1>8. ASSUME NEW n \in Node, AddRefused(n) PROVE OneHandler'
    BY <1>8 DEF AddRefused, GoTo, etcd, joiner, handler, leaving, budget
  <1>9. ASSUME NEW n \in Node, Rollback(n) PROVE OneHandler'
    BY <1>9 DEF Rollback, Refuse, Release, etcd, joiner, handler, leaving,
       budget
  <1>10. ASSUME NEW n \in Node, WriteRaise(n) PROVE OneHandler'
    BY <1>10 DEF WriteRaise, Refuse, Release, Drop, PutIfAbsent, etcd, joiner,
       handler, leaving, budget
  <1>11. ASSUME NEW n \in Node, AddRaise(n) PROVE OneHandler'
    BY <1>11 DEF AddRaise, GoTo, Drop, etcd, joiner, handler, leaving, budget
  <1>12. ASSUME NEW n \in Node, RollbackRaise(n) PROVE OneHandler'
    BY <1>12 DEF RollbackRaise, Refuse, Release, Drop, etcd, joiner, handler,
       leaving, budget
  <1>13. ASSUME NEW n \in Node, BecomeLeader(n) PROVE OneHandler'
    BY <1>13 DEF BecomeLeader, etcd, joiner, handler, leaving, budget
  <1>14. ASSUME NEW n \in Node, LoseLeadership(n) PROVE OneHandler'
    BY <1>14 DEF LoseLeadership, etcd, joiner, handler, leaving, budget
  <1>15. ASSUME NEW n \in Node, ExitDaemon(n) PROVE OneHandler'
    BY <1>15 DEF ExitDaemon, Release, etcd, joiner, handler, leaving, budget
  <1>16. ASSUME NEW n \in Node, NEW ip \in Joiner, Ask(n, ip) PROVE OneHandler'
    BY <1>16 DEF Ask, etcd, joiner, handler, leaving, budget
  <1>17. CASE UNCHANGED <<phase, queue, leaders, terms>>
    BY <1>17
  <1>. QED
    BY <1>1, <1>2, <1>3, <1>4, <1>5, <1>6, <1>7, <1>8, <1>9, <1>10, <1>11,
       <1>12, <1>13, <1>14, <1>15, <1>16, <1>17 DEF Next, Handle, GiveUp,
       StartPeer, Teardown, RestartDaemon, Remove, Unlist, RemoveMember,
       BreakOff, Drop, RegisterSelf, etcd, joiner, handler, leaving, budget,
       vars

\* A handler that answers takes nobody else's request along.
LEMMA Answered ==
    ASSUME TypeOK, Handling, Requests, NEW n \in Node, ipOf[n] \in Joiner, phase[n] # "idle",
           UNCHANGED <<queue, exits, drops>>, phase'[n] = "idle",
           Awaited(n) => asking' = [asking EXCEPT ![ipOf[n]] = NoIp],
           \A m \in Node \ {n} : phase'[m] = phase[m] /\ ipOf'[m] = ipOf[m]
    PROVE  Requests'
  <1>. SUFFICES ASSUME exits = 0, drops = 0 PROVE Requests'
    BY DEF Requests
  <1>1. Awaited(n) /\ asking' = [asking EXCEPT ![ipOf[n]] = NoIp]
    BY DEF Requests
  <1>2. \A x \in DOMAIN asking : x # ipOf[n] => asking'[x] = asking[x]
    BY <1>1 DEF TypeOK
  <1>3. \A x : x \in Joiner => x \in DOMAIN asking
    BY DEF TypeOK, Ip
  <1>4. ASSUME NEW m \in Node, phase'[m] # "idle" PROVE Awaited(m)'
    <2>1. m # n /\ phase[m] # "idle" /\ ipOf'[m] = ipOf[m]
      BY <1>4
    <2>2. Awaited(m)
      BY <2>1 DEF Requests
    <2>3. asking[ipOf[m]] = m /\ asking[ipOf[n]] = n /\ ipOf[m] \in Joiner
      BY <1>1, <2>1, <2>2 DEF Awaited, Handling
    <2>4. asking'[ipOf[m]] = asking[ipOf[m]]
      BY <1>2, <1>3, <2>1, <2>3
    <2>. QED  BY <2>1, <2>2, <2>3, <2>4 DEF Awaited
  <1>5. ASSUME NEW m \in Node, NEW i \in DOMAIN queue[m]
        PROVE  asking'[queue[m][i]] = m
    <2>1. asking[queue[m][i]] = m /\ queue[m][i] \in Joiner
      BY DEF Requests, TypeOK
    <2>2. queue[m][i] # ipOf[n]
      BY <1>1, <2>1 DEF Awaited, Range
    <2>. QED  BY <1>2, <1>3, <2>1, <2>2
  <1>6. \A m \in Node : \A i, k \in DOMAIN queue[m] : queue[m][i] = queue[m][k] => i = k
    BY DEF Requests
  <1>. QED  BY <1>4, <1>5, <1>6 DEF Requests

\* As long as nothing fails, a request is answered before its joiner asks again.
LEMMA RequestsStep == Shape /\ [Next]_vars => Requests'
  <1> SUFFICES ASSUME Shape, [Next]_vars
               PROVE  Requests'
    OBVIOUS
  <1> USE IpAssumption, BoundAssumption DEF Shape, TypeOK, Handling, Requests,
     Awaited, Named, Phase
  <1>1. ASSUME NEW n \in Node, Acquire(n) PROVE Requests'
    <2>. SUFFICES ASSUME exits = 0, drops = 0
                  PROVE  Requests'
      BY <1>1 DEF Acquire, budget
    <2>1. /\ queue[n] \in Seq(Joiner) /\ queue[n] # <<>>
          /\ phase' = [phase EXCEPT ![n] = "wait"] /\ ipOf' = [ipOf EXCEPT ![n] = Head(queue[n])]
          /\ queue' = [queue EXCEPT ![n] = Tail(@)] /\ UNCHANGED asking
      BY <1>1 DEF Acquire, joiner
    <2>2. /\ queue'[n] \in Seq(Joiner) /\ ipOf'[n] = queue[n][1] /\ 1 \in DOMAIN queue[n]
          /\ \A i \in DOMAIN queue'[n] :
                i + 1 \in DOMAIN queue[n] /\ queue'[n][i] = queue[n][i + 1] /\ i \in Nat \ {0}
      BY <2>1
    <2>3. asking[queue[n][1]] = n /\ \A i \in DOMAIN queue'[n] : queue'[n][i] # queue[n][1]
      BY <2>2
    <2>4. Awaited(n)'
      BY <2>1, <2>2, <2>3 DEF Range
    <2>5. /\ \A i \in DOMAIN queue'[n] : asking'[queue'[n][i]] = n
          /\ \A i, k \in DOMAIN queue'[n] : queue'[n][i] = queue'[n][k] => i = k
      BY <2>1, <2>2
    <2>6. \A m \in Node \ {n} : /\ phase'[m] = phase[m] /\ ipOf'[m] = ipOf[m]
                                 /\ queue'[m] = queue[m]
      BY <2>1
    <2>. QED  BY <2>1, <2>4, <2>5, <2>6
  <1>2. ASSUME NEW n \in Node, Healthy(n) PROVE Requests'
    BY <1>2 DEF Healthy, GoTo, etcd, joiner, handler, leaving, budget
  <1>3. ASSUME NEW n \in Node, WaitTimeout(n) PROVE Requests'
    <2>1. phase[n] # "idle" /\ ipOf[n] \in Joiner /\ UNCHANGED <<queue, exits, drops>>
      BY <1>3 DEF WaitTimeout, budget
    <2>2. Awaited(n) => asking' = [asking EXCEPT ![ipOf[n]] = NoIp]
      BY <1>3 DEF WaitTimeout, Refuse
    <2>3. /\ phase'[n] = "idle"
          /\ \A m \in Node \ {n} : phase'[m] = phase[m] /\ ipOf'[m] = ipOf[m]
      BY <1>3 DEF WaitTimeout, Refuse, Release
    <2>. HIDE DEF Requests, Awaited
    <2>. QED  BY <2>1, <2>2, <2>3, Answered
  <1>4. ASSUME NEW n \in Node, ReadKnown(n) PROVE Requests'
    <2>1. PICK k \in Name : Reply(n, k)
      BY <1>4 DEF ReadKnown
    <2>2. phase[n] # "idle" /\ ipOf[n] \in Joiner /\ UNCHANGED <<queue, exits, drops>>
      BY <1>4 DEF ReadKnown, budget
    <2>3. Awaited(n) => asking' = [asking EXCEPT ![ipOf[n]] = NoIp]
      BY <2>1 DEF Reply
    <2>4. /\ phase'[n] = "idle"
          /\ \A m \in Node \ {n} : phase'[m] = phase[m] /\ ipOf'[m] = ipOf[m]
      BY <2>1 DEF Reply, Release
    <2>. HIDE DEF Requests, Awaited
    <2>. QED  BY <2>2, <2>3, <2>4, Answered
  <1>5. ASSUME NEW n \in Node, ReadNew(n) PROVE Requests'
    BY <1>5 DEF ReadNew, etcd, joiner, handler, leaving, budget
  <1>6. ASSUME NEW n \in Node, Write(n) PROVE Requests'
    BY <1>6 DEF Write, GoTo, PutIfAbsent, etcd, joiner, handler, leaving, budget
  <1>7. ASSUME NEW n \in Node, Add(n) PROVE Requests'
    <2>1. nameOf[n] \in Name /\ Reply(n, nameOf[n])
      BY <1>7 DEF Add
    <2>2. phase[n] # "idle" /\ ipOf[n] \in Joiner /\ UNCHANGED <<queue, exits, drops>>
      BY <1>7 DEF Add, budget
    <2>3. Awaited(n) => asking' = [asking EXCEPT ![ipOf[n]] = NoIp]
      BY <2>1 DEF Reply
    <2>4. /\ phase'[n] = "idle"
          /\ \A m \in Node \ {n} : phase'[m] = phase[m] /\ ipOf'[m] = ipOf[m]
      BY <2>1 DEF Reply, Release
    <2>. HIDE DEF Requests, Awaited
    <2>. QED  BY <2>2, <2>3, <2>4, Answered
  <1>8. ASSUME NEW n \in Node, AddRefused(n) PROVE Requests'
    BY <1>8 DEF AddRefused, GoTo, etcd, joiner, handler, leaving, budget
  <1>9. ASSUME NEW n \in Node, Rollback(n) PROVE Requests'
    <2>1. phase[n] # "idle" /\ ipOf[n] \in Joiner /\ UNCHANGED <<queue, exits, drops>>
      BY <1>9 DEF Rollback, budget
    <2>2. Awaited(n) => asking' = [asking EXCEPT ![ipOf[n]] = NoIp]
      BY <1>9 DEF Rollback, Refuse
    <2>3. /\ phase'[n] = "idle"
          /\ \A m \in Node \ {n} : phase'[m] = phase[m] /\ ipOf'[m] = ipOf[m]
      BY <1>9 DEF Rollback, Refuse, Release
    <2>. HIDE DEF Requests, Awaited
    <2>. QED  BY <2>1, <2>2, <2>3, Answered
  <1>10. ASSUME NEW n \in Node, WriteRaise(n) PROVE Requests'
    BY <1>10 DEF WriteRaise, Refuse, Release, Drop, PutIfAbsent, etcd, joiner,
       handler, leaving, budget
  <1>11. ASSUME NEW n \in Node, AddRaise(n) PROVE Requests'
    BY <1>11 DEF AddRaise, GoTo, Drop, etcd, joiner, handler, leaving, budget
  <1>12. ASSUME NEW n \in Node, RollbackRaise(n) PROVE Requests'
    BY <1>12 DEF RollbackRaise, Refuse, Release, Drop, etcd, joiner, handler,
       leaving, budget
  <1>13. ASSUME NEW n \in Node, ExitDaemon(n) PROVE Requests'
    BY <1>13 DEF ExitDaemon, Release, etcd, joiner, handler, leaving, budget
  <1>14. ASSUME NEW n \in Node, NEW ip \in Joiner, Ask(n, ip) PROVE Requests'
    <2>. SUFFICES ASSUME exits = 0, drops = 0
                  PROVE  Requests'
      BY <1>14 DEF Ask, budget
    <2>1. /\ asking[ip] = NoIp /\ asking' = [asking EXCEPT ![ip] = n] /\ ip \in Ip
          /\ queue[n] \in Seq(Joiner) /\ queue' = [queue EXCEPT ![n] = Append(@, ip)]
          /\ UNCHANGED <<phase, ipOf>>
      BY <1>14 DEF Ask, handler, Ip
    <2>2. \A m \in Node : m # NoIp
      BY DEF Ip
    <2>3. \A m \in Node : /\ phase[m] # "idle" => ipOf[m] # ip
                          /\ \A i \in DOMAIN queue[m] : queue[m][i] # ip
      BY <2>1, <2>2
    <2>4. /\ DOMAIN queue'[n] = 1..(Len(queue[n]) + 1) /\ Len(queue[n]) \in Nat
          /\ DOMAIN queue[n] = 1..Len(queue[n]) /\ queue'[n][Len(queue[n]) + 1] = ip
          /\ \A i \in DOMAIN queue[n] : queue'[n][i] = queue[n][i]
      BY <2>1
    <2>5. \A i \in DOMAIN queue'[n] :
             \/ i \in DOMAIN queue[n] /\ queue'[n][i] = queue[n][i]
             \/ queue'[n][i] = ip /\ i = Len(queue[n]) + 1
      <3>. TAKE i \in DOMAIN queue'[n]
      <3>1. i \in 1..Len(queue[n]) \/ i = Len(queue[n]) + 1
        BY <2>4
      <3>. QED  BY <2>4, <3>1
    <2>6. \A m \in Node \ {n} : queue'[m] = queue[m]
      BY <2>1
    <2>7. \A m \in Node : phase[m] # "idle" => Awaited(m)'
      <3>. TAKE m \in Node
      <3>. HAVE phase[m] # "idle"
      <3>1. ipOf[m] # ip /\ ipOf[m] \in Ip /\ asking[ipOf[m]] = m /\ ipOf[m] \notin Range(queue[m])
        BY <2>3 DEF Ip
      <3>2. asking'[ipOf[m]] = m
        BY <2>1, <3>1
      <3>3. \A i \in DOMAIN queue'[m] : queue'[m][i] # ipOf[m]
        <4>1. \A i \in DOMAIN queue[m] : queue[m][i] # ipOf[m]
          BY <3>1 DEF Range
        <4>2. CASE m = n
          BY <2>5, <3>1, <4>1, <4>2
        <4>3. CASE m # n
          BY <2>6, <4>1, <4>3
        <4>. QED  BY <4>2, <4>3
      <3>. QED  BY <2>1, <3>2, <3>3 DEF Range
    <2>8. \A m \in Node : \A i \in DOMAIN queue'[m] : asking'[queue'[m][i]] = m
      <3>. TAKE m \in Node
      <3>. TAKE i \in DOMAIN queue'[m]
      <3>1. CASE i \in DOMAIN queue[m]
        <4>1. queue'[m][i] = queue[m][i] /\ queue[m][i] # ip /\ asking[queue[m][i]] = m
          BY <2>3, <2>4, <2>6, <3>1
        <4>2. queue[m] \in Seq(Joiner) /\ queue[m][i] \in Ip
          BY <3>1 DEF Ip
        <4>. QED  BY <2>1, <4>1, <4>2
      <3>2. CASE i \notin DOMAIN queue[m]
        BY <2>1, <2>5, <2>6, <3>2
      <3>. QED  BY <3>1, <3>2
    <2>9. ASSUME NEW i \in DOMAIN queue'[n], NEW k \in DOMAIN queue'[n],
                 queue'[n][i] = queue'[n][k]
          PROVE  i = k
      <3>1. CASE i \in DOMAIN queue[n] /\ queue'[n][i] = queue[n][i]
        <4>1. queue'[n][k] # ip
          BY <2>3, <2>9, <3>1
        <4>2. k \in DOMAIN queue[n] /\ queue'[n][k] = queue[n][k]
          BY <2>5, <4>1
        <4>. QED  BY <2>9, <3>1, <4>2
      <3>2. CASE queue'[n][i] = ip /\ i = Len(queue[n]) + 1
        <4>1. ~(k \in DOMAIN queue[n] /\ queue'[n][k] = queue[n][k])
          BY <2>3, <2>9, <3>2
        <4>. QED  BY <2>5, <3>2, <4>1
      <3>. QED  BY <2>5, <3>1, <3>2
    <2>10. \A m \in Node : \A i, k \in DOMAIN queue'[m] : queue'[m][i] = queue'[m][k] => i = k
      BY <2>6, <2>9
    <2>. QED  BY <2>1, <2>7, <2>8, <2>10
  <1>15. ASSUME NEW ip \in Joiner, GiveUp(ip) PROVE Requests'
    BY <1>15 DEF GiveUp, Drop, etcd, joiner, handler, leaving, budget
  <1>16. CASE UNCHANGED <<phase, ipOf, queue, asking, exits, drops>>
    BY <1>16
  <1>. QED
    BY <1>1, <1>2, <1>3, <1>4, <1>5, <1>6, <1>7, <1>8, <1>9, <1>10, <1>11,
       <1>12, <1>13, <1>14, <1>15, <1>16 DEF Next, Handle, BecomeLeader,
       LoseLeadership, StartPeer, Teardown, RestartDaemon, Remove, Unlist,
       RemoveMember, BreakOff, RegisterSelf, etcd, joiner, handler, leaving,
       budget, vars

\* A daemon that starts finds its entry, unless it is the return of a removed host.
LEMMA SelfEffect ==
    ASSUME Shape, NEW ip \in Ip, RegisterSelf(ip), returns' = 0
    PROVE  UNCHANGED topology
  BY DEF Shape, TypeOK, RegisterSelf

\* A cluster.env is answered with the entry, and the entry stays with it.
LEMMA AllocStep ==
    Shape /\ Serial /\ OneCritical /\ [Next]_vars /\ returns' = 0 => AllocIsRegistered'
  <1> SUFFICES ASSUME Shape, Serial, OneCritical, [Next]_vars, returns' = 0
               PROVE  AllocIsRegistered'
    OBVIOUS
  <1> USE IpAssumption, BoundAssumption DEF Shape, Serial, TypeOK, Handling,
     Holding, OneCritical, Critical, AllocIsRegistered, IpsUnique,
     AllocationIsAtomic, Named, Ip, NoName, Name, Removal
  <1>1. ASSUME NEW n \in Node, ReadKnown(n) PROVE AllocIsRegistered'
    <2>1. PICK k \in Name : topology[k] = ipOf[n] /\ Reply(n, k)
      BY <1>1 DEF ReadKnown
    <2>2. ipOf[n] \in Joiner /\ UNCHANGED <<topology, removed>>
      BY <1>1 DEF ReadKnown, etcd, leaving
    <2>3. alloc'[ipOf[n]] \in {alloc[ipOf[n]], k}
          /\ \A a \in Ip \ {ipOf[n]} : alloc'[a] = alloc[a]
      BY <2>1, <2>2, ReplyEffect
    <2>4. ASSUME NEW a \in Ip \ removed, alloc'[a] # NoName
          PROVE  topology[alloc'[a]] = a
      <3>1. CASE a = ipOf[n]
        BY <2>1, <2>3, <2>4, <3>1
      <3>2. CASE a # ipOf[n]
        BY <2>3, <2>4, <3>2
      <3>. QED  BY <3>1, <3>2
    <2>. QED  BY <2>2, <2>4
  <1>2. ASSUME NEW n \in Node, Write(n) PROVE AllocIsRegistered'
    BY <1>2 DEF Write, GoTo, PutIfAbsent, etcd, joiner, handler, leaving, budget
  <1>3. ASSUME NEW n \in Node, Add(n) PROVE AllocIsRegistered'
    <2>1. ipOf[n] \in Joiner /\ nameOf[n] \in Name /\ Reply(n, nameOf[n])
          /\ UNCHANGED <<topology, removed>>
      BY <1>3 DEF Add, leaving
    <2>2. /\ alloc'[ipOf[n]] \in {alloc[ipOf[n]], nameOf[n]}
          /\ \A a \in Ip \ {ipOf[n]} : alloc'[a] = alloc[a]
          /\ ~Awaited(n) => UNCHANGED alloc
      BY <2>1, ReplyEffect DEF joiner
    <2>3. \/ topology[nameOf[n]] = ipOf[n]
          \/ ipOf[n] \in removed
          \/ ~Awaited(n)
      BY <1>3 DEF Add
    <2>4. ASSUME NEW a \in Ip \ removed, alloc'[a] # NoName
          PROVE  topology[alloc'[a]] = a
      BY <2>2, <2>3, <2>4
    <2>. QED  BY <2>1, <2>4
  <1>4. ASSUME NEW n \in Node, Rollback(n) PROVE AllocIsRegistered'
    BY <1>4 DEF Rollback, Refuse, Release, etcd, joiner, handler, leaving,
       budget
  <1>5. ASSUME NEW n \in Node, WriteRaise(n) PROVE AllocIsRegistered'
    <2>1. UNCHANGED <<alloc, removed>>
      BY <1>5 DEF WriteRaise, Refuse, leaving
    <2>2. \A k \in Name : topology[k] # NoIp => topology'[k] = topology[k]
      BY <1>5 DEF WriteRaise, PutIfAbsent
    <2>3. \A a \in Ip : a # NoIp /\ (alloc[a] # NoName => alloc[a] \in Name)
      OBVIOUS
    <2>. QED  BY <2>1, <2>2, <2>3
  <1>6. ASSUME NEW ip \in Joiner, StartPeer(ip) PROVE AllocIsRegistered'
    <2>. topology' = topology
      BY <1>6, SelfEffect DEF StartPeer
    <2>. QED
      BY <1>6 DEF StartPeer, etcd, joiner, handler, leaving, budget
  <1>7. ASSUME NEW ip \in Joiner, Teardown(ip) PROVE AllocIsRegistered'
    BY <1>7 DEF Teardown, etcd, joiner, handler, leaving, budget
  <1>8. ASSUME NEW ip \in Ip, RestartDaemon(ip) PROVE AllocIsRegistered'
    <2>. topology' = topology
      BY <1>8, SelfEffect DEF RestartDaemon
    <2>. QED
      BY <1>8 DEF RestartDaemon, etcd, joiner, handler, leaving, budget
  <1>9. ASSUME NEW j \in Removal, Unlist(j) PROVE AllocIsRegistered'
    BY <1>9 DEF Unlist, etcd, joiner, handler, leaving, budget
  <1>10. CASE UNCHANGED <<topology, alloc, removed>>
    BY <1>10
  <1>. QED
    BY <1>1, <1>2, <1>3, <1>4, <1>5, <1>6, <1>7, <1>8, <1>9, <1>10 DEF Next,
       Handle, Acquire, Healthy, WaitTimeout, ReadNew, AddRefused, AddRaise,
       RollbackRaise, BecomeLeader, LoseLeadership, ExitDaemon, Ask, GiveUp,
       Remove, RemoveMember, BreakOff, GoTo, Refuse, Release, Drop, etcd,
       joiner, handler, leaving, budget, vars

\* An entry is written for an IP that has none.
LEMMA IpsUniqueStep ==
    Shape /\ Serial /\ OneCritical /\ [Next]_vars /\ returns' = 0 => IpsUnique'
  <1> SUFFICES ASSUME Shape, Serial, OneCritical, [Next]_vars, returns' = 0
               PROVE  IpsUnique'
    OBVIOUS
  <1> USE IpAssumption, BoundAssumption DEF Shape, Serial, TypeOK, Handling,
     Holding, OneCritical, Critical, AllocIsRegistered, IpsUnique,
     AllocationIsAtomic, Named, Ip, NoName, Name, Removal
  <1>1. ASSUME NEW n \in Node, Write(n) PROVE IpsUnique'
    BY <1>1 DEF Write, GoTo, PutIfAbsent, etcd, joiner, handler, leaving, budget
  <1>2. ASSUME NEW n \in Node, Rollback(n) PROVE IpsUnique'
    BY <1>2 DEF Rollback, Refuse, Release, etcd, joiner, handler, leaving,
       budget
  <1>3. ASSUME NEW n \in Node, WriteRaise(n) PROVE IpsUnique'
    <2>1. CASE topology' = topology
      BY <2>1
    <2>2. CASE topology' # topology
      <3>1. /\ topology' = [topology EXCEPT ![nameOf[n]] = ipOf[n]]
            /\ nameOf[n] \in Name /\ \A k \in Name : topology[k] # ipOf[n]
        BY <1>3, <2>2 DEF WriteRaise, PutIfAbsent
      <3>. QED  BY <3>1
    <2>. QED  BY <2>1, <2>2
  <1>4. ASSUME NEW ip \in Joiner, StartPeer(ip) PROVE IpsUnique'
    <2>. topology' = topology
      BY <1>4, SelfEffect DEF StartPeer
    <2>. QED
      BY <1>4 DEF StartPeer, etcd, joiner, handler, leaving, budget
  <1>5. ASSUME NEW ip \in Ip, RestartDaemon(ip) PROVE IpsUnique'
    <2>. topology' = topology
      BY <1>5, SelfEffect DEF RestartDaemon
    <2>. QED
      BY <1>5 DEF RestartDaemon, etcd, joiner, handler, leaving, budget
  <1>6. ASSUME NEW j \in Removal, Unlist(j) PROVE IpsUnique'
    BY <1>6 DEF Unlist, etcd, joiner, handler, leaving, budget
  <1>7. CASE UNCHANGED topology
    BY <1>7
  <1>. QED
    BY <1>1, <1>2, <1>3, <1>4, <1>5, <1>6, <1>7 DEF Next, Handle, Acquire,
       Healthy, WaitTimeout, ReadKnown, ReadNew, Add, AddRefused, AddRaise,
       RollbackRaise, BecomeLeader, LoseLeadership, ExitDaemon, Ask, GiveUp,
       Teardown, Remove, RemoveMember, BreakOff, GoTo, Refuse, Release, Drop,
       etcd, joiner, handler, leaving, budget, vars

\* Nothing comes between the allocation of a name and the entry.
LEMMA AtomicStep ==
    Shape /\ Serial /\ OneCritical /\ [Next]_vars /\ returns' = 0 => AllocationIsAtomic'
  <1> SUFFICES ASSUME Shape, Serial, OneCritical, [Next]_vars, returns' = 0
               PROVE  AllocationIsAtomic'
    OBVIOUS
  <1> USE IpAssumption, BoundAssumption DEF Shape, Serial, TypeOK, Handling,
     Holding, OneCritical, Critical, AllocIsRegistered, IpsUnique,
     AllocationIsAtomic, Named, Ip, NoName, Name, Removal
  <1>1. ASSUME NEW n \in Node, Acquire(n) PROVE AllocationIsAtomic'
    BY <1>1 DEF Acquire, Awaited, Awaited, etcd, joiner, handler, leaving,
       budget
  <1>2. ASSUME NEW n \in Node, Healthy(n) PROVE AllocationIsAtomic'
    BY <1>2 DEF Healthy, GoTo, Awaited, etcd, joiner, handler, leaving, budget
  <1>3. ASSUME NEW n \in Node, WaitTimeout(n) PROVE AllocationIsAtomic'
    BY <1>3 DEF WaitTimeout, Refuse, Release, Awaited, etcd, joiner, handler,
       leaving, budget
  <1>4. ASSUME NEW n \in Node, ReadKnown(n) PROVE AllocationIsAtomic'
    BY <1>4 DEF ReadKnown, Reply, Release, Awaited, etcd, joiner, handler,
       leaving, budget
  <1>5. ASSUME NEW n \in Node, ReadNew(n) PROVE AllocationIsAtomic'
    BY <1>5, AllocatedIsFree DEF ReadNew, Awaited, etcd, joiner, handler,
       leaving, budget
  <1>6. ASSUME NEW n \in Node, Write(n) PROVE AllocationIsAtomic'
    BY <1>6 DEF Write, GoTo, PutIfAbsent, Awaited, etcd, joiner, handler,
       leaving, budget
  <1>7. ASSUME NEW n \in Node, Add(n) PROVE AllocationIsAtomic'
    BY <1>7 DEF Add, Reply, Release, Awaited, etcd, joiner, handler, leaving,
       budget
  <1>8. ASSUME NEW n \in Node, AddRefused(n) PROVE AllocationIsAtomic'
    BY <1>8 DEF AddRefused, GoTo, Awaited, etcd, joiner, handler, leaving,
       budget
  <1>9. ASSUME NEW n \in Node, Rollback(n) PROVE AllocationIsAtomic'
    BY <1>9 DEF Rollback, Refuse, Release, Awaited, etcd, joiner, handler,
       leaving, budget
  <1>10. ASSUME NEW n \in Node, WriteRaise(n) PROVE AllocationIsAtomic'
    BY <1>10 DEF WriteRaise, Refuse, Release, Drop, PutIfAbsent, Awaited, etcd,
       joiner, handler, leaving, budget
  <1>11. ASSUME NEW n \in Node, AddRaise(n) PROVE AllocationIsAtomic'
    BY <1>11 DEF AddRaise, GoTo, Drop, Awaited, etcd, joiner, handler, leaving,
       budget
  <1>12. ASSUME NEW n \in Node, RollbackRaise(n) PROVE AllocationIsAtomic'
    BY <1>12 DEF RollbackRaise, Refuse, Release, Drop, Awaited, etcd, joiner,
       handler, leaving, budget
  <1>13. ASSUME NEW n \in Node, ExitDaemon(n) PROVE AllocationIsAtomic'
    BY <1>13 DEF ExitDaemon, Release, Awaited, etcd, joiner, handler, leaving,
       budget
  <1>14. ASSUME NEW n \in Node, NEW ip \in Joiner, Ask(n, ip) PROVE AllocationIsAtomic'
    <2>1. /\ asking[ip] = NoIp /\ asking' = [asking EXCEPT ![ip] = n] /\ ip \in Ip
          /\ queue[n] \in Seq(Joiner) /\ queue' = [queue EXCEPT ![n] = Append(@, ip)]
          /\ UNCHANGED <<topology, alloc, removed, phase, ipOf, nameOf>>
      BY <1>14 DEF Ask, etcd, leaving, handler, Ip
    <2>2. /\ DOMAIN queue'[n] = 1..(Len(queue[n]) + 1) /\ Len(queue[n]) \in Nat
          /\ DOMAIN queue[n] = 1..Len(queue[n]) /\ queue'[n][Len(queue[n]) + 1] = ip
          /\ \A i \in DOMAIN queue[n] : queue'[n][i] = queue[n][i]
      BY <2>1
    <2>3. ip \in Range(queue'[n]) /\ Range(queue[n]) \subseteq Range(queue'[n])
      BY <2>2 DEF Range
    <2>4. \A m \in Node \ {n} : queue'[m] = queue[m]
      BY <2>1
    <2>5. \A m \in Node : phase[m] # "idle" /\ Awaited(m)' => Awaited(m)
      <3>. TAKE m \in Node
      <3>. HAVE phase[m] # "idle" /\ Awaited(m)'
      <3>1. ipOf[m] \in Ip /\ asking'[ipOf[m]] = m /\ ipOf[m] \notin Range(queue'[m])
        BY <2>1 DEF Awaited, Ip
      <3>2. ipOf[m] # ip
        BY <2>1, <2>3, <3>1
      <3>. QED  BY <2>1, <2>3, <2>4, <3>1, <3>2 DEF Awaited
    <2>. QED  BY <2>1, <2>5
  <1>15. ASSUME NEW ip \in Joiner, GiveUp(ip) PROVE AllocationIsAtomic'
    BY <1>15 DEF GiveUp, Drop, Awaited, etcd, joiner, handler, leaving, budget
  <1>16. ASSUME NEW ip \in Joiner, StartPeer(ip) PROVE AllocationIsAtomic'
    <2>. topology' = topology
      BY <1>16, SelfEffect DEF StartPeer
    <2>. QED
      BY <1>16 DEF StartPeer, etcd, joiner, handler, leaving, budget, Awaited
  <1>17. ASSUME NEW ip \in Joiner, Teardown(ip) PROVE AllocationIsAtomic'
    BY <1>17 DEF Teardown, Awaited, etcd, joiner, handler, leaving, budget
  <1>18. ASSUME NEW ip \in Ip, RestartDaemon(ip) PROVE AllocationIsAtomic'
    <2>. topology' = topology
      BY <1>18, SelfEffect DEF RestartDaemon
    <2>. QED
      BY <1>18 DEF RestartDaemon, etcd, joiner, handler, leaving, budget, Awaited
  <1>19. ASSUME NEW j \in Removal, Unlist(j) PROVE AllocationIsAtomic'
    BY <1>19 DEF Unlist, Awaited, etcd, joiner, handler, leaving, budget
  <1>20. CASE UNCHANGED <<topology, alloc, asking, queue, removed, handler>>
    BY <1>20 DEF handler, Awaited
  <1>. QED
    BY <1>1, <1>2, <1>3, <1>4, <1>5, <1>6, <1>7, <1>8, <1>9, <1>10, <1>11,
       <1>12, <1>13, <1>14, <1>15, <1>16, <1>17, <1>18, <1>19, <1>20 DEF Next,
       Handle, BecomeLeader, LoseLeadership, Remove, RemoveMember, BreakOff,
       etcd, joiner, handler, leaving, budget, vars

\* Entries and members come and go together.
LEMMA AgreeStep ==
    Shape /\ Serial /\ OneCritical /\ [Next]_vars /\ returns' = 0 => MembersAgree'
  <1> SUFFICES ASSUME Shape, Serial, OneCritical, [Next]_vars, returns' = 0
               PROVE  MembersAgree'
    OBVIOUS
  <1> USE IpAssumption, BoundAssumption DEF Shape, Serial, TypeOK, Handling,
     Holding, OneCritical, Critical, AllocIsRegistered, IpsUnique,
     AllocationIsAtomic, Named, Ip, NoName, Name, Removal, MembersAgree
  <1>1. ASSUME NEW n \in Node, Acquire(n) PROVE MembersAgree'
    BY <1>1 DEF Acquire, Awaited, Requests, Awaited, etcd, joiner, handler,
       leaving, budget
  <1>2. ASSUME NEW n \in Node, Healthy(n) PROVE MembersAgree'
    BY <1>2 DEF Healthy, GoTo, Requests, Awaited, etcd, joiner, handler,
       leaving, budget
  <1>3. ASSUME NEW n \in Node, WaitTimeout(n) PROVE MembersAgree'
    BY <1>3 DEF WaitTimeout, Refuse, Release, Requests, Awaited, etcd, joiner,
       handler, leaving, budget
  <1>4. ASSUME NEW n \in Node, ReadKnown(n) PROVE MembersAgree'
    BY <1>4 DEF ReadKnown, Reply, Release, Requests, Awaited, etcd, joiner,
       handler, leaving, budget
  <1>5. ASSUME NEW n \in Node, ReadNew(n) PROVE MembersAgree'
    BY <1>5, AllocatedIsFree DEF ReadNew, Requests, Awaited, etcd, joiner,
       handler, leaving, budget
  <1>6. ASSUME NEW n \in Node, Write(n) PROVE MembersAgree'
    BY <1>6 DEF Write, GoTo, PutIfAbsent, Requests, Awaited, etcd, joiner,
       handler, leaving, budget
  <1>7. ASSUME NEW n \in Node, Add(n) PROVE MembersAgree'
    BY <1>7 DEF Add, Reply, Release, Requests, Awaited, etcd, joiner, handler,
       leaving, budget
  <1>8. ASSUME NEW n \in Node, AddRefused(n) PROVE MembersAgree'
    <2>. SUFFICES ASSUME exits = 0, drops = 0
                  PROVE  FALSE
      BY <1>8 DEF AddRefused, budget
    <2>1. Awaited(n) /\ ipOf[n] \in Ip /\ n # NoIp
      BY <1>8 DEF AddRefused, Requests
    <2>2. alloc[ipOf[n]] = NoName
      BY <2>1 DEF Awaited
    <2>3. ipOf[n] \notin members /\ members = started
      BY <1>8, <2>2 DEF AddRefused
    <2>. QED  BY <1>8, <2>3 DEF AddRefused
  <1>9. ASSUME NEW n \in Node, Rollback(n) PROVE MembersAgree'
    BY <1>9 DEF Rollback, Refuse, Release, Requests, Awaited, etcd, joiner,
       handler, leaving, budget
  <1>10. ASSUME NEW n \in Node, WriteRaise(n) PROVE MembersAgree'
    BY <1>10 DEF WriteRaise, Refuse, Release, Drop, PutIfAbsent, Requests,
       Awaited, etcd, joiner, handler, leaving, budget
  <1>11. ASSUME NEW n \in Node, AddRaise(n) PROVE MembersAgree'
    BY <1>11 DEF AddRaise, GoTo, Drop, Requests, Awaited, etcd, joiner, handler,
       leaving, budget
  <1>12. ASSUME NEW n \in Node, RollbackRaise(n) PROVE MembersAgree'
    BY <1>12 DEF RollbackRaise, Refuse, Release, Drop, Requests, Awaited, etcd,
       joiner, handler, leaving, budget
  <1>13. ASSUME NEW n \in Node, ExitDaemon(n) PROVE MembersAgree'
    BY <1>13 DEF ExitDaemon, Release, Requests, Awaited, etcd, joiner, handler,
       leaving, budget
  <1>14. ASSUME NEW ip \in Joiner, GiveUp(ip) PROVE MembersAgree'
    BY <1>14 DEF GiveUp, Drop, Requests, Awaited, etcd, joiner, handler,
       leaving, budget
  <1>15. ASSUME NEW ip \in Joiner, StartPeer(ip) PROVE MembersAgree'
    <2>. topology' = topology
      BY <1>15, SelfEffect DEF StartPeer
    <2>. QED
      BY <1>15 DEF StartPeer, etcd, joiner, handler, leaving, budget
  <1>16. ASSUME NEW ip \in Joiner, Teardown(ip) PROVE MembersAgree'
    <2>1. /\ UNCHANGED <<topology, members, started, phase, ipOf, nameOf, removal, exits, drops>>
          /\ ip \notin members /\ \A k \in Name : topology[k] # ip
          /\ alloc' = [alloc EXCEPT ![ip] = NoName]
          /\ removed' = removed \ {ip}
          /\ \A j \in Removal : removal[j].ip = ip => removal[j].at = "done"
      BY <1>16 DEF Teardown, etcd, handler, budget
    <2>2. \A a \in members' : a \in Ip /\ alloc'[a] = alloc[a]
      BY <2>1
    <2>3. ASSUME exits = 0, drops = 0
          PROVE  \A k \in Name :
             \/ topology[k] \in members \cup removed' \cup {NoIp}
             \/ \E n \in Node : phase[n] = "add" /\ nameOf[n] = k
      BY <2>1, <2>3
    <2>4. ASSUME exits = 0, drops = 0, NEW j \in Removal
          PROVE  /\ removal[j].at = "drain" =>
                       topology[removal[j].name] = removal[j].ip \/ removal[j].ip \in removed'
                 /\ removal[j].at = "member" => removal[j].ip \in removed'
      BY <2>1, <2>4
    <2>. QED  BY <2>1, <2>2, <2>3, <2>4
  <1>17. ASSUME NEW ip \in Ip, RestartDaemon(ip) PROVE MembersAgree'
    <2>. topology' = topology
      BY <1>17, SelfEffect DEF RestartDaemon
    <2>. QED
      BY <1>17 DEF RestartDaemon, etcd, joiner, handler, leaving, budget
  <1>18. ASSUME NEW j \in Removal, NEW ip \in Ip, Remove(j, ip) PROVE MembersAgree'
    BY <1>18 DEF Remove, Requests, Awaited, etcd, joiner, handler, leaving,
       budget
  <1>19. ASSUME NEW j \in Removal, Unlist(j) PROVE MembersAgree'
    BY <1>19 DEF Unlist, Requests, Awaited, etcd, joiner, handler, leaving,
       budget
  <1>20. ASSUME NEW j \in Removal, RemoveMember(j) PROVE MembersAgree'
    BY <1>20 DEF RemoveMember, Requests, Awaited, etcd, joiner, handler,
       leaving, budget
  <1>21. ASSUME NEW j \in Removal, BreakOff(j) PROVE MembersAgree'
    BY <1>21 DEF BreakOff, Requests, Awaited, etcd, joiner, handler, leaving,
       budget
  <1>22. CASE UNCHANGED <<etcd, alloc, removed, removal, handler, exits, drops>>
    BY <1>22 DEF etcd, handler
  <1>. QED
    BY <1>1, <1>2, <1>3, <1>4, <1>5, <1>6, <1>7, <1>8, <1>9, <1>10, <1>11,
       <1>12, <1>13, <1>14, <1>15, <1>16, <1>17, <1>18, <1>19, <1>20, <1>21,
       <1>22 DEF Next, Handle, BecomeLeader, LoseLeadership, Ask, etcd, joiner,
       handler, leaving, budget, vars

\* One step of the specification keeps the shape,
LEMMA ShapeStep == Shape /\ [Next]_vars => Shape'
  BY TypeStep, HandlingStep, HoldingStep, OneHandlerStep, RequestsStep DEF Shape

\* and keeps the rest, if no two daemons are past their wait and no removed host
\* has registered itself.
LEMMA SerialStep ==
    Shape /\ Serial /\ OneCritical /\ [Next]_vars /\ returns' = 0 => Serial'
  BY AllocStep, IpsUniqueStep, AtomicStep, AgreeStep DEF Serial

\* Terms and returns are not taken back.
LEMMA CountsGrow ==
    ASSUME Shape, [Next]_vars
    PROVE  (terms' <= 1 => terms <= 1) /\ (returns' = 0 => returns = 0)
  <1>1. terms' = terms \/ terms' = terms + 1
    <2>1. CASE \E n \in Node : BecomeLeader(n)
      BY <2>1 DEF BecomeLeader
    <2>2. CASE ~\E n \in Node : BecomeLeader(n)
      BY <2>2 DEF Next, Handle, Acquire, Healthy, WaitTimeout, ReadKnown, ReadNew, Write,
         WriteRaise, Add, AddRefused, AddRaise, Rollback, RollbackRaise, LoseLeadership,
         ExitDaemon, Ask, GiveUp, StartPeer, Teardown, RestartDaemon, Remove, Unlist,
         RemoveMember, BreakOff, Drop, budget, vars
    <2>. QED  BY <2>1, <2>2
  <1>2. returns' = returns \/ returns' = returns + 1
    BY DEF Next, Handle, Acquire, Healthy, WaitTimeout, ReadKnown, ReadNew, Write,
       WriteRaise, Add, AddRefused, AddRaise, Rollback, RollbackRaise, BecomeLeader,
       LoseLeadership, ExitDaemon, Ask, GiveUp, StartPeer, Teardown, RestartDaemon,
       RegisterSelf, Remove, Unlist, RemoveMember, BreakOff, leaving, vars
  <1>. QED  BY <1>1, <1>2, BoundAssumption DEF Shape, TypeOK

\* The initial states: the entries are the inverse of the numbering of the peers.
LEMMA InitInv == Init => Shape /\ Serial
  <1> SUFFICES ASSUME Init PROVE Shape /\ Serial
    OBVIOUS
  <1> USE IpAssumption, BoundAssumption
  <1> DEFINE N == Cardinality(Node)
  <1>1. N \in Nat
    BY FS_CardinalityType
  <1>2. PICK f \in Bijection(Node, 1..N) :
          /\ alloc = [ip \in Ip |-> IF ip \in Node THEN f[ip] ELSE NoName]
          /\ topology = [k \in Name |-> IF k <= N THEN Inverse(f, Node, Name)[k] ELSE NoIp]
    BY DEF Init
  <1>3. /\ f \in [Node -> 1..N]
        /\ \A a, b \in Node : f[a] = f[b] => a = b
        /\ \A k \in 1..N : \E a \in Node : f[a] = k
    BY <1>2 DEF Bijection, Injection, Surjection, IsInjective
  <1>4. \A k \in 1..N : topology[k] \in Node /\ f[topology[k]] = k
    <2>. TAKE k \in 1..N
    <2>1. k \in Name /\ k <= N
      BY <1>1 DEF Name
    <2>2. PICK a \in Node : f[a] = k
      BY <1>3
    <2>3. topology[k] = CHOOSE s \in Node : k \in Range(f) => f[s] = k
      BY <1>2, <2>1 DEF Inverse
    <2>4. k \in Range(f)
      BY <1>3, <2>2 DEF Range
    <2>. QED  BY <2>2, <2>3, <2>4
  <1>5. \A k \in Name : k > N => topology[k] = NoIp
    BY <1>1, <1>2 DEF Name
  <1>6. \A a \in Node : alloc[a] = f[a] /\ f[a] \in Name /\ topology[f[a]] = a
    <2>. TAKE a \in Node
    <2>1. alloc[a] = f[a] /\ f[a] \in 1..N
      BY <1>2, <1>3 DEF Ip
    <2>2. f[a] \in Name
      BY <1>1, <2>1 DEF Name
    <2>3. topology[f[a]] = a
      BY <1>3, <1>4, <2>1
    <2>. QED  BY <2>1, <2>2, <2>3
  <1>7. \A a \in Joiner : alloc[a] = NoName
    BY <1>2 DEF Ip
  <1>8. /\ topology \in [Name -> Ip \cup {NoIp}]
        /\ alloc \in [Ip -> Name \cup {NoName}]
    BY <1>1, <1>2, <1>4, <1>5, <1>6, <1>7 DEF Name, Ip
  <1>9. TypeOK
    BY <1>8 DEF Init, TypeOK, Phase, Ip
  <1>10. Handling /\ Holding /\ OneHandler /\ Requests
    <2>1. Handling
      BY DEF Init, Handling, Named
    <2>2. Holding
      <3>1. booted = Node /\ NoName \notin Name /\ \A ip \in Ip : asking[ip] = NoIp
        BY DEF Init, NoName, Name
      <3>. QED  BY <1>6, <3>1 DEF Holding
    <2>3. OneHandler
      BY DEF Init, OneHandler, Active
    <2>4. Requests
      BY DEF Init, Requests
    <2>. QED  BY <2>1, <2>2, <2>3, <2>4
  <1>11. AllocIsRegistered /\ IpsUnique
    BY <1>1, <1>4, <1>5, <1>6, <1>7 DEF AllocIsRegistered, IpsUnique, Ip, Name
  <1>12. AllocationIsAtomic /\ MembersAgree
    <2>1. /\ \A n \in Node : phase[n] = "idle" /\ phase[n] \notin Named
          /\ \A j \in Removal : removal[j].at = "none"
      BY DEF Init, Named
    <2>2. \A ip \in members : alloc[ip] # NoName
      <3>1. members = Node /\ NoName \notin Name
        BY DEF Init, Name, NoName
      <3>. QED  BY <1>6, <3>1
    <2>3. \A k \in Name : topology[k] \in members \cup {NoIp}
      <3>1. members = Node
        BY DEF Init
      <3>2. \A k \in Name : k \in 1..N \/ k > N
        BY <1>1 DEF Name
      <3>. QED  BY <1>4, <1>5, <3>1, <3>2
    <2>. QED  BY <2>1, <2>2, <2>3 DEF AllocationIsAtomic, MembersAgree, Named, Critical
  <1>. QED  BY <1>9, <1>10, <1>11, <1>12 DEF Shape, Serial

\* The shape is there in every reachable state.
LEMMA ShapeHolds == Spec => []Shape
  BY InitInv, ShapeStep, PTL DEF Spec

\* In the first term one daemon has all the requests, so that no two are past
\* their wait; its lock does the rest.
LEMMA SerialInOneTerm == Spec => [](OneTerm => Serial)
  <1>1. Shape /\ OneTerm => OneCritical
    BY DEF Shape, OneTerm, OneHandler, Active, OneCritical, Critical, Named
  <1>2. Shape /\ (OneTerm => Serial) /\ [Next]_vars => (OneTerm => Serial)'
    BY <1>1, CountsGrow, SerialStep DEF OneTerm
  <1>. QED  BY <1>2, InitInv, ShapeHolds, PTL DEF Spec

-----------------------------------------------------------------------------
(* The theorems *)

\* Every variable stays in its set, however many daemons lead at the same time.
THEOREM TypeCorrect == Spec => []TypeOK
  BY ShapeHolds, PTL DEF Shape

\* In the first term no two hosts of the cluster hold the same node-N (joining.py
\* 93-94), whichever steps of removals come between those of a join, as long as no
\* removed host has registered itself again.
THEOREM NoNameTwice == Spec => []NamesUniqueInOneTerm
  <1>1. (OneTerm => Serial) => NamesUniqueInOneTerm
    BY DEF Serial, AllocIsRegistered, NamesUniqueInOneTerm, NamesUnique
  <1>. QED  BY <1>1, SerialInOneTerm, PTL

\* In the first term no IP is registered twice (joining.py 123-155).
THEOREM NoIpTwice == Spec => []OneNamePerIp
  <1>1. (OneTerm => Serial) => OneNamePerIp
    BY DEF Serial, IpsUnique, OneNamePerIp
  <1>. QED  BY <1>1, SerialInOneTerm, PTL

\* Entries and members, where no two daemons are past their wait.
LEMMA SerialAgrees ==
    ASSUME Shape, Serial
    PROVE  LET registered == {topology[k] : k \in Name} \ {NoIp}
           IN  /\ booted \subseteq registered \cup removed
               /\ exits = 0 /\ drops = 0 /\ Idle => registered \ removed = members \ removed
  <1>. DEFINE registered == {topology[k] : k \in Name} \ {NoIp}
  <1>1. \A ip \in Ip \ removed : alloc[ip] # NoName => ip \in registered
    BY IpAssumption DEF Shape, Serial, TypeOK, AllocIsRegistered
  <1>2. booted \subseteq registered \cup removed
    BY <1>1 DEF Shape, TypeOK, Holding
  <1>3. exits = 0 /\ drops = 0 /\ Idle => registered \ removed = members \ removed
    <2> SUFFICES ASSUME exits = 0, drops = 0, Idle
                 PROVE  registered \ removed = members \ removed
      OBVIOUS
    <2>1. members \ removed \subseteq registered
      BY <1>1 DEF Shape, Serial, TypeOK, MembersAgree
    <2>2. \A k \in Name : topology[k] \in members \cup removed \cup {NoIp}
      BY DEF Serial, MembersAgree, Idle
    <2>. QED  BY <2>1, <2>2
  <1>. QED  BY <1>2, <1>3

\* In the first term every peer that is up has its entry unless a removal has
\* deleted it, and without failures the entries are etcd's members, those aside
\* that are being removed or were, whenever no join is under way (joining.py
\* 166-222, remove_node.py 253-307).
THEOREM MembershipAgrees == Spec => []TopologyIsMembership
  <1>1. Shape /\ (OneTerm => Serial) => TopologyIsMembership
    BY SerialAgrees DEF TopologyIsMembership
  <1>. QED  BY <1>1, ShapeHolds, SerialInOneTerm, PTL

\* In any number of terms, with any number of daemons that take themselves for
\* the leader and any number of removals: names and IPs are unique and entries
\* agree with etcd's members as long as no two daemons are between reading the
\* topology and their answer at once (joining.py, _do_join after
\* _wait_cluster_healthy) and no removed host has registered itself again (main.py
\* 110).  So nothing but the overlap of these sections, which _join_lock of each
\* daemon does not prevent, and such a return break them.
THEOREM OnlyOverlapAndReturn ==
    Spec /\ []OneCritical => [](returns = 0 => JoinsAreSound)
  <1>1. Shape /\ OneCritical /\ (returns = 0 => Serial) /\ [Next]_vars
           => (returns = 0 => Serial)'
    BY CountsGrow, SerialStep
  <1>2. Spec /\ []OneCritical => [](returns = 0 => Serial)
    BY <1>1, InitInv, ShapeHolds, PTL DEF Spec
  <1>3. Shape /\ (returns = 0 => Serial) => (returns = 0 => JoinsAreSound)
    <2> SUFFICES ASSUME Shape, Serial PROVE JoinsAreSound
      OBVIOUS
    <2>1. NamesUnique /\ IpsUnique
      BY DEF Serial, AllocIsRegistered, NamesUnique
    <2>. QED  BY <2>1, SerialAgrees DEF JoinsAreSound
  <1>. QED  BY <1>2, <1>3, ShapeHolds, PTL

\* In every term, however many daemons take themselves for the leader, no step
\* gives an entry to another IP (put_if_absent, joining.py 176-182).
THEOREM NoOverwrite == Spec => EntryNeverOverwritten
  <1> DEFINE Kept == \A k \in Name : topology[k] # NoIp => topology'[k] \in {topology[k], NoIp}
  <1>1. ASSUME Shape, [Next]_vars PROVE [Kept]_vars
    <2>1. ASSUME NEW n \in Node, Rollback(n) PROVE Kept
      BY <1>1, <2>1 DEF Shape, TypeOK, Rollback
    <2>2. ASSUME NEW n \in Node, Write(n) \/ WriteRaise(n) PROVE Kept
      BY <1>1, <2>2 DEF Shape, TypeOK, Write, WriteRaise, PutIfAbsent
    <2>3. ASSUME NEW ip \in Ip, RegisterSelf(ip) PROVE Kept
      BY <1>1, <2>3 DEF Shape, TypeOK, RegisterSelf, PutIfAbsent
    <2>4. ASSUME NEW j \in Removal, Unlist(j) PROVE Kept
      BY <1>1, <2>4 DEF Shape, TypeOK, Unlist
    <2>5. CASE UNCHANGED topology
      BY <2>5
    <2>. QED
      BY <1>1, <2>1, <2>2, <2>3, <2>4, <2>5 DEF Next, Handle, Acquire, Healthy, WaitTimeout,
         ReadKnown, ReadNew, Add, AddRefused, AddRaise, RollbackRaise, BecomeLeader,
         LoseLeadership, ExitDaemon, Ask, GiveUp, StartPeer, Teardown, RestartDaemon, Remove,
         RemoveMember, BreakOff, Ip, etcd, vars
  <1>. QED  BY <1>1, ShapeHolds, PTL DEF Spec, EntryNeverOverwritten

=============================================================================
