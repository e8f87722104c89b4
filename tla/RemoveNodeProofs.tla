-------------------------- MODULE RemoveNodeProofs --------------------------
(***************************************************************************)
(* Proofs about RemoveNode, for any number of peers and of removals at the *)
(* same time: an entry goes only after the peer's pool is drained.         *)
(***************************************************************************)
EXTENDS RemoveNode, TLAPS

\* A removal that has not asked about the drained pool yet.
Early == {"idle", "check", "preflight", "clear", "start", "poll"}

\* A removal under way has a daemon and a peer.
Manned ==
    \A j \in Job : job[j].at \notin {"idle"} \cup Ended
                      => job[j].runner \in Node /\ job[j].target \in Node

\* Only an answer of the poll makes a removal blind.
NotYetBlind == \A j \in Job : job[j].at \in Early => ~job[j].blind

\* Who is about to delete the entry has seen the pool drained, or not seen it.
PollAnswered ==
    \A j \in Job : job[j].at = "delete"
                      => pool[job[j].target] = "complete" \/ job[j].blind

IInv == TypeOK /\ Manned /\ NotYetBlind /\ PollAnswered /\ DrainedBeforeDeleted

JobType == [at : Place, runner : Node \cup {NoNode},
            target : Node \cup {NoNode}, blind : BOOLEAN]

-----------------------------------------------------------------------------
(* Steps of one removal *)

\* What Goto makes of the record it changes, and that it leaves the others.
LEMMA GotoEffect ==
    ASSUME TypeOK, NEW j \in Job, NEW place \in Place, Goto(j, place)
    PROVE  /\ job' \in [Job -> JobType]
           /\ job'[j].at = place /\ job'[j].blind = job[j].blind
           /\ place \notin Ended => job'[j].runner = job[j].runner
           /\ place # "refused" => job'[j].target = job[j].target
           /\ \A i \in Job \ {j} : job'[i] = job[i]
  <1>1. job \in [Job -> JobType]
    BY DEF TypeOK, JobType
  <1>. DEFINE a == [job[j] EXCEPT !.at = place]
              b == [a EXCEPT !.runner = IF place \in Ended THEN NoNode ELSE job[j].runner]
              c == [b EXCEPT !.target = IF place = "refused" THEN NoNode ELSE job[j].target]
  <1>2. a \in JobType /\ a.at = place /\ a.blind = job[j].blind
        /\ a.runner = job[j].runner /\ a.target = job[j].target
    BY <1>1 DEF JobType
  <1>3. b \in JobType /\ b.at = place /\ b.blind = job[j].blind
        /\ (place \notin Ended => b.runner = job[j].runner) /\ b.target = job[j].target
    <2>. HIDE DEF a
    <2>. QED  BY <1>1, <1>2 DEF JobType
  <1>4. c \in JobType /\ c.at = place /\ c.blind = job[j].blind
        /\ (place \notin Ended => c.runner = job[j].runner)
        /\ (place # "refused" => c.target = job[j].target)
    <2>. HIDE DEF b
    <2>. QED  BY <1>1, <1>3 DEF JobType
  <1>5. job' = [job EXCEPT ![j] = c]
    BY <1>1 DEF Goto
  <1>. HIDE DEF c
  <1>. QED  BY <1>1, <1>4, <1>5

\* The answer a poll acts upon, and what becomes of the record.
LEMMA PollEffect ==
    ASSUME TypeOK, NEW j \in Job, Poll(j)
    PROVE  \E state \in (PoolState \cup {"missing"}) \ {"active"} :
             /\ Answer(j, state)
             /\ job' \in [Job -> JobType]
             /\ job'[j].at = IF state \in {"complete", "missing"} THEN "delete"
                                                                 ELSE "failed"
             /\ state \in {"complete", "missing"} => job'[j].runner = job[j].runner
             /\ job'[j].target = job[j].target
             /\ job'[j].blind = (state = "missing")
             /\ \A i \in Job \ {j} : job'[i] = job[i]
  <1>1. job \in [Job -> JobType]
    BY DEF TypeOK, JobType
  <1>2. PICK state \in (PoolState \cup {"missing"}) \ {"active"} :
          /\ Answer(j, state)
          /\ job' = [job EXCEPT
                ![j].at = IF state \in {"complete", "missing"} THEN "delete"
                                                               ELSE "failed",
                ![j].runner = IF state \in {"complete", "missing"} THEN @ ELSE NoNode,
                ![j].blind = state = "missing"]
    BY DEF Poll
  <1>. DEFINE place == IF state \in {"complete", "missing"} THEN "delete" ELSE "failed"
              a == [job[j] EXCEPT !.at = place]
              b == [a EXCEPT !.runner = IF state \in {"complete", "missing"}
                                        THEN job[j].runner ELSE NoNode]
              c == [b EXCEPT !.blind = state = "missing"]
  <1>3. a \in JobType /\ a.at = place
        /\ a.runner = job[j].runner /\ a.target = job[j].target
    BY <1>1 DEF JobType, Place
  <1>4. b \in JobType /\ b.at = place /\ b.target = job[j].target
        /\ (state \in {"complete", "missing"} => b.runner = job[j].runner)
    <2>. HIDE DEF a
    <2>. QED  BY <1>1, <1>3 DEF JobType
  <1>5. c \in JobType /\ c.at = place /\ c.target = job[j].target
        /\ (state \in {"complete", "missing"} => c.runner = job[j].runner)
        /\ c.blind = (state = "missing")
    <2>. HIDE DEF b
    <2>. QED  BY <1>1, <1>4 DEF JobType
  <1>6. job' = [job EXCEPT ![j] = c]
    BY <1>1, <1>2
  <1>7. job' \in [Job -> JobType] /\ job'[j] = c /\ \A i \in Job \ {j} : job'[i] = job[i]
    <2>. HIDE DEF c
    <2>. QED  BY <1>1, <1>5, <1>6
  <1>. QED  BY <1>2, <1>5, <1>7

-----------------------------------------------------------------------------
(* One step of the specification *)

\* A removal under way goes to a place other than the deletion, while no drained
\* pool is used again: what is known of the removals stays known.
LEMMA GotoKeeps ==
    ASSUME IInv, NEW j \in Job, NEW place \in Place \ {"idle", "delete"},
           Goto(j, place),
           job[j].at \notin {"idle"} \cup Ended,
           place \in Early \cup {"refused"} => job[j].at \in Early,
           \A n \in Node : pool[n] = "complete" => pool'[n] = "complete"
    PROVE  /\ job' \in [Job -> JobType]
           /\ Manned' /\ NotYetBlind' /\ PollAnswered'
           /\ \A i \in Job : job[i].blind
                                => job'[i].blind /\ job'[i].target = job[i].target
  <1>1. TypeOK /\ job \in [Job -> JobType]
    BY DEF IInv, TypeOK, JobType
  <1>2. /\ job' \in [Job -> JobType]
        /\ job'[j].at = place /\ job'[j].blind = job[j].blind
        /\ place \notin Ended => job'[j].runner = job[j].runner
        /\ place # "refused" => job'[j].target = job[j].target
        /\ \A i \in Job \ {j} : job'[i] = job[i]
    BY <1>1, GotoEffect
  <1>3. Manned'
    BY <1>2 DEF IInv, Manned, Ended
  <1>4. NotYetBlind'
    BY <1>2 DEF IInv, NotYetBlind
  <1>5. PollAnswered'
    BY <1>2 DEF IInv, PollAnswered, Manned, Ended
  <1>6. ASSUME NEW i \in Job, job[i].blind
        PROVE  job'[i].blind /\ job'[i].target = job[i].target
    BY <1>2, <1>6 DEF IInv, NotYetBlind
  <1>. QED  BY <1>2, <1>3, <1>4, <1>5, <1>6

\* One step of the specification keeps the inductive invariant.
LEMMA IInvStep == IInv /\ [Next]_vars => IInv'
  <1> SUFFICES ASSUME IInv, [Next]_vars
               PROVE  IInv'
    OBVIOUS
  <1> USE NodeAssumption, BoundAssumption
  <1>0. job \in [Job -> JobType] /\ TypeOK
    BY DEF IInv, TypeOK, JobType
  <1>1. ASSUME NEW n \in Node, LeaderMoves(n) PROVE IInv'
    BY <1>1 DEF IInv, TypeOK, Manned, NotYetBlind, PollAnswered, DrainedBeforeDeleted,
       LeaderMoves, Fault, store, sweep
  <1>2. ASSUME NEW n \in Node, LeaderNotices(n) PROVE IInv'
    BY <1>2 DEF IInv, TypeOK, Manned, NotYetBlind, PollAnswered, DrainedBeforeDeleted,
       LeaderNotices, store, sweep
  <1>3. ASSUME NEW n \in Node, DecommissionEnds(n) PROVE IInv'
    BY <1>3 DEF IInv, TypeOK, Manned, NotYetBlind, PollAnswered, DrainedBeforeDeleted,
       DecommissionEnds, sweep, power, PoolState
  <1>4. ASSUME NEW n \in Node, MinioRestarts(n) PROVE IInv'
    <2>1. \A p \in Node : pool[p] = "complete" => pool'[p] = "complete"
      BY <1>4 DEF IInv, TypeOK, MinioRestarts
    <2>2. TypeOK'
      BY <1>4 DEF IInv, TypeOK, MinioRestarts, Started, sweep, power, PoolState
    <2>3. Manned' /\ NotYetBlind'
      BY <1>4 DEF IInv, Manned, NotYetBlind, MinioRestarts
    <2>4. PollAnswered' /\ DrainedBeforeDeleted'
      BY <1>4, <2>1 DEF IInv, TypeOK, Manned, PollAnswered, DrainedBeforeDeleted,
                        MinioRestarts, Ended
    <2>. QED  BY <2>2, <2>3, <2>4 DEF IInv
  <1>5. ASSUME NEW d \in Node,
               Dispatch(d) \/ HandlingFails(d) \/ \E n \in Node : Recreate(d, n)
        PROVE  IInv'
    <2>1. topology' = topology /\ pool' = pool /\ job' = job
      BY <1>5 DEF Dispatch, HandlingFails, Recreate, store
    <2>2. ASSUME Dispatch(d) PROVE TypeOK'
      BY <2>2 DEF IInv, TypeOK, Dispatch, store, power
    <2>3. ASSUME HandlingFails(d) PROVE TypeOK'
      BY <2>3 DEF IInv, TypeOK, HandlingFails, Fault, store, power
    <2>4. ASSUME NEW n \in Node, Recreate(d, n) PROVE TypeOK'
      BY <2>4 DEF IInv, TypeOK, Recreate, Started, power
    <2>5. TypeOK'
      BY <1>5, <2>2, <2>3, <2>4
    <2>6. Manned' /\ NotYetBlind' /\ PollAnswered' /\ DrainedBeforeDeleted'
      BY <2>1 DEF IInv, Manned, NotYetBlind, PollAnswered, DrainedBeforeDeleted
    <2>. QED  BY <2>5, <2>6 DEF IInv
  <1>6. ASSUME NEW n \in Node, RegisterSelf(n) PROVE IInv'
    BY <1>6 DEF IInv, TypeOK, Manned, NotYetBlind, PollAnswered, DrainedBeforeDeleted,
       RegisterSelf, Emit, Fault, store, power
  <1>7. ASSUME NEW j \in Job, NEW r \in Node, NEW t \in Node, Submit(j, r, t) PROVE IInv'
    BY <1>7 DEF IInv, TypeOK, Manned, NotYetBlind, PollAnswered, DrainedBeforeDeleted,
       Submit, store, sweep, power, Place, Ended, Early
  <1>8. ASSUME NEW j \in Job, Check(j) PROVE IInv'
    <2>1. \E place \in {"preflight", "refused"} : Goto(j, place)
      BY <1>8 DEF Check
    <2>2. \A n \in Node : pool[n] = "complete" => pool'[n] = "complete"
      BY <1>8 DEF Check, store
    <2>3. /\ job' \in [Job -> JobType]
          /\ Manned' /\ NotYetBlind' /\ PollAnswered'
          /\ \A i \in Job : job[i].blind
                               => job'[i].blind /\ job'[i].target = job[i].target
      BY <1>8, <2>1, <2>2, GotoKeeps DEF Check, Place, Ended, Early
    <2>4. TypeOK'
      BY <1>8, <2>3 DEF IInv, TypeOK, JobType, Manned, Check, store, sweep, power,
                        Place, Ended, Early
    <2>5. DrainedBeforeDeleted'
      BY <1>8, <2>2, <2>3 DEF IInv, DrainedBeforeDeleted, Check, store
    <2>. QED  BY <2>3, <2>4, <2>5 DEF IInv
  <1>9. ASSUME NEW j \in Job, Preflight(j) PROVE IInv'
    <2>1. \E place \in {"poll", "clear", "start"} : Goto(j, place)
      BY <1>9 DEF Preflight
    <2>2. \A n \in Node : pool[n] = "complete" => pool'[n] = "complete"
      BY <1>9 DEF Preflight, store
    <2>3. /\ job' \in [Job -> JobType]
          /\ Manned' /\ NotYetBlind' /\ PollAnswered'
          /\ \A i \in Job : job[i].blind
                               => job'[i].blind /\ job'[i].target = job[i].target
      BY <1>9, <2>1, <2>2, GotoKeeps DEF Preflight, Place, Ended, Early
    <2>4. TypeOK'
      BY <1>9, <2>3 DEF IInv, TypeOK, JobType, Manned, Preflight, Answer, Fault, store,
                        sweep, power, Place, Ended, Early
    <2>5. DrainedBeforeDeleted'
      BY <1>9, <2>2, <2>3 DEF IInv, DrainedBeforeDeleted, Preflight, store
    <2>. QED  BY <2>3, <2>4, <2>5 DEF IInv
  <1>10. ASSUME NEW j \in Job, Clear(j) PROVE IInv'
    <2>1. \E place \in {"start"} : Goto(j, place)
      BY <1>10 DEF Clear
    <2>2. \A n \in Node : pool[n] = "complete" => pool'[n] = "complete"
      BY <1>10 DEF IInv, TypeOK, Manned, Clear, PoolState
    <2>3. /\ job' \in [Job -> JobType]
          /\ Manned' /\ NotYetBlind' /\ PollAnswered'
          /\ \A i \in Job : job[i].blind
                               => job'[i].blind /\ job'[i].target = job[i].target
      BY <1>10, <2>1, <2>2, GotoKeeps DEF Clear, Place, Ended, Early
    <2>4. TypeOK'
      BY <1>10, <2>3 DEF IInv, TypeOK, JobType, Manned, Clear, PoolState, sweep, power,
                         Place, Ended, Early
    <2>5. DrainedBeforeDeleted'
      BY <1>10, <2>2, <2>3 DEF IInv, DrainedBeforeDeleted, Clear, power
    <2>. QED  BY <2>3, <2>4, <2>5 DEF IInv
  <1>11. ASSUME NEW j \in Job, Start(j) PROVE IInv'
    <2>1. \E place \in {"poll", "failed"} : Goto(j, place)
      BY <1>11 DEF Start
    <2>2. \A n \in Node : pool[n] = "complete" => pool'[n] = "complete"
      BY <1>11 DEF IInv, TypeOK, Manned, Start, DecommissionState, PoolState,
                   sweep, power, Place, Ended, Early
    <2>3. /\ job' \in [Job -> JobType]
          /\ Manned' /\ NotYetBlind' /\ PollAnswered'
          /\ \A i \in Job : job[i].blind
                               => job'[i].blind /\ job'[i].target = job[i].target
      BY <1>11, <2>1, <2>2, GotoKeeps DEF Start, Place, Ended, Early
    <2>4. TypeOK'
      BY <1>11, <2>3 DEF IInv, TypeOK, JobType, Manned, Start,
                         DecommissionState, PoolState, sweep, power, Place, Ended,
                         Early
    <2>5. DrainedBeforeDeleted'
      BY <1>11, <2>2, <2>3 DEF IInv, DrainedBeforeDeleted, Start, power
    <2>. QED  BY <2>3, <2>4, <2>5 DEF IInv
  <1>12. ASSUME NEW j \in Job, Poll(j) PROVE IInv'
    <2>1. PICK state \in (PoolState \cup {"missing"}) \ {"active"} :
             /\ Answer(j, state)
             /\ job' \in [Job -> JobType]
             /\ job'[j].at = IF state \in {"complete", "missing"} THEN "delete"
                                                                 ELSE "failed"
             /\ state \in {"complete", "missing"} => job'[j].runner = job[j].runner
             /\ job'[j].target = job[j].target
             /\ job'[j].blind = (state = "missing")
             /\ \A i \in Job \ {j} : job'[i] = job[i]
      BY <1>0, <1>12, PollEffect
    <2>2. /\ job[j].at = "poll" /\ ~job[j].blind
          /\ UNCHANGED <<topology, members, store, sweep, power, disturbed>>
      BY <1>12 DEF IInv, Poll, NotYetBlind, Early
    <2>3. TypeOK'
      BY <2>1, <2>2 DEF IInv, TypeOK, JobType, Answer, Fault, store, sweep, power
    <2>4. Manned'
      BY <2>1, <2>2 DEF IInv, Manned, Ended
    <2>5. NotYetBlind'
      BY <2>1, <2>2 DEF IInv, NotYetBlind, Early
    <2>6. PollAnswered'
      <3>1. state = "complete" => pool[job[j].target] = "complete"
        BY <2>1 DEF Answer, Fault, DecommissionState
      <3>2. pool' = pool
        BY <2>2 DEF store
      <3>3. job'[j].at = "delete"
               => pool'[job'[j].target] = "complete" \/ job'[j].blind
        <4>1. state \in {"complete", "missing"} \/ job'[j].at = "failed"
          BY <2>1
        <4>. QED  BY <2>1, <3>1, <3>2, <4>1
      <3>4. \A i \in Job \ {j} : job'[i] = job[i]
        BY <2>1
      <3>5. PollAnswered
        BY DEF IInv
      <3>. QED  BY <3>2, <3>3, <3>4, <3>5 DEF PollAnswered
    <2>7. DrainedBeforeDeleted'
      BY <2>1, <2>2 DEF IInv, DrainedBeforeDeleted, store
    <2>. QED  BY <2>3, <2>4, <2>5, <2>6, <2>7 DEF IInv
  <1>13. ASSUME NEW j \in Job, DeleteEntry(j) PROVE IInv'
    <2>1. /\ job[j].at = "delete" /\ Goto(j, "settle")
          /\ topology' = topology \ {job[j].target}
          /\ IF job[j].target \in topology THEN Emit ELSE UNCHANGED sweep
          /\ UNCHANGED <<members, store, power, disturbed, faults>>
      BY <1>13 DEF DeleteEntry
    <2>2. /\ job' \in [Job -> JobType]
          /\ Manned' /\ NotYetBlind' /\ PollAnswered'
          /\ \A i \in Job : job[i].blind
                               => job'[i].blind /\ job'[i].target = job[i].target
      BY <2>1, GotoKeeps DEF Place, Ended, Early, store
    <2>3. TypeOK'
      BY <2>1, <2>2 DEF IInv, TypeOK, JobType, Emit, store, sweep, power
    <2>4. DrainedBeforeDeleted'
      <3>. SUFFICES ASSUME NEW n \in Node \ topology'
                    PROVE  \/ pool'[n] = "complete"
                           \/ \E i \in Job : job'[i].target = n /\ job'[i].blind
        BY DEF DrainedBeforeDeleted
      <3>1. pool' = pool
        BY <2>1 DEF store
      <3>2. CASE n = job[j].target
        BY <2>1, <2>2, <3>1, <3>2 DEF IInv, PollAnswered
      <3>3. CASE n # job[j].target
        <4>1. n \in Node \ topology
          BY <2>1, <3>3
        <4>2. pool[n] = "complete" \/ \E i \in Job : job[i].target = n /\ job[i].blind
          BY <4>1 DEF IInv, DrainedBeforeDeleted
        <4>. QED  BY <2>2, <3>1, <4>2
      <3>. QED  BY <3>2, <3>3
    <2>. QED  BY <2>2, <2>3, <2>4 DEF IInv
  <1>14. ASSUME NEW j \in Job, RemoveMember(j) PROVE IInv'
    <2>1. \E place \in {"done", "failed"} : Goto(j, place)
      BY <1>14 DEF RemoveMember
    <2>2. \A n \in Node : pool[n] = "complete" => pool'[n] = "complete"
      BY <1>14 DEF RemoveMember, store
    <2>3. /\ job' \in [Job -> JobType]
          /\ Manned' /\ NotYetBlind' /\ PollAnswered'
          /\ \A i \in Job : job[i].blind
                               => job'[i].blind /\ job'[i].target = job[i].target
      BY <1>14, <2>1, <2>2, GotoKeeps DEF RemoveMember, Place, Ended, Early
    <2>4. TypeOK'
      BY <1>14, <2>3 DEF IInv, TypeOK, JobType, Manned, RemoveMember, store,
                         sweep, power, Place, Ended, Early
    <2>5. DrainedBeforeDeleted'
      BY <1>14, <2>2, <2>3 DEF IInv, DrainedBeforeDeleted, RemoveMember, store
    <2>. QED  BY <2>3, <2>4, <2>5 DEF IInv
  <1>15. ASSUME NEW j \in Job, PollTimesOut(j) PROVE IInv'
    <2>1. \E place \in {"failed"} : Goto(j, place)
      BY <1>15 DEF PollTimesOut
    <2>2. \A n \in Node : pool[n] = "complete" => pool'[n] = "complete"
      BY <1>15 DEF PollTimesOut, store
    <2>3. /\ job' \in [Job -> JobType]
          /\ Manned' /\ NotYetBlind' /\ PollAnswered'
          /\ \A i \in Job : job[i].blind
                               => job'[i].blind /\ job'[i].target = job[i].target
      BY <1>15, <2>1, <2>2, GotoKeeps DEF PollTimesOut, Place, Ended, Early
    <2>4. TypeOK'
      BY <1>15, <2>3 DEF IInv, TypeOK, JobType, Manned, PollTimesOut, Fault, store,
                         sweep, power, Place, Ended, Early
    <2>5. DrainedBeforeDeleted'
      BY <1>15, <2>2, <2>3 DEF IInv, DrainedBeforeDeleted, PollTimesOut, store
    <2>. QED  BY <2>3, <2>4, <2>5 DEF IInv
  <1>16. ASSUME NEW j \in Job, Interrupt(j) PROVE IInv'
    <2>1. \E place \in {"refused", "failed"} : Goto(j, place)
      BY <1>16 DEF Interrupt
    <2>2. \A n \in Node : pool[n] = "complete" => pool'[n] = "complete"
      BY <1>16 DEF Interrupt, store
    <2>3. /\ job' \in [Job -> JobType]
          /\ Manned' /\ NotYetBlind' /\ PollAnswered'
          /\ \A i \in Job : job[i].blind
                               => job'[i].blind /\ job'[i].target = job[i].target
      BY <1>16, <2>1, <2>2, GotoKeeps DEF Interrupt, Place, Ended, Early
    <2>4. TypeOK'
      <3>1. disturbed' \in BOOLEAN
        BY <1>16 DEF IInv, TypeOK, Interrupt
      <3>2. faults' \in 0..MaxFaults
        BY <1>16 DEF IInv, TypeOK, Interrupt, Fault
      <3>3. UNCHANGED <<topology, members, store, sweep, power>>
        BY <1>16 DEF Interrupt
      <3>. QED
        BY <2>3, <3>1, <3>2, <3>3 DEF IInv, TypeOK, JobType, store, sweep, power
    <2>5. DrainedBeforeDeleted'
      BY <1>16, <2>2, <2>3 DEF IInv, DrainedBeforeDeleted, Interrupt, store
    <2>. QED  BY <2>3, <2>4, <2>5 DEF IInv
  <1>17. CASE UNCHANGED vars
    BY <1>17 DEF IInv, TypeOK, Manned, NotYetBlind, PollAnswered, DrainedBeforeDeleted,
       vars, store, sweep, power
  <1>. QED
    BY <1>1, <1>2, <1>3, <1>4, <1>5, <1>6, <1>7, <1>8, <1>9, <1>10, <1>11, <1>12,
       <1>13, <1>14, <1>15, <1>16, <1>17 DEF Next, Work

\* Every reachable state satisfies the inductive invariant.
LEMMA IInvHolds == Spec => []IInv
  <1>1. ASSUME Init PROVE IInv
    <2>1. \A j \in Job : job[j] = [at |-> "idle", runner |-> NoNode, target |-> NoNode,
                                   blind |-> FALSE]
      BY <1>1 DEF Init
    <2>2. job \in [Job -> JobType]
      BY <1>1 DEF Init, JobType, Place
    <2>3. TypeOK
      <3>1. /\ pool \in [Node -> PoolState] /\ volumes \in [Node -> SUBSET Node]
            /\ minio \in [Node -> {"up", "crashed"}]
        BY <1>1 DEF Init, PoolState
      <3>2. /\ topology \in SUBSET Node /\ members \in SUBSET Node
            /\ leader \in Node /\ leading \in SUBSET Node
            /\ pending \in SUBSET Node /\ todo \in [Node -> SUBSET Node]
        BY <1>1, NodeAssumption DEF Init
      <3>3. disturbed \in BOOLEAN
        BY <1>1 DEF Init
      <3>4. faults \in 0..MaxFaults
        BY <1>1, BoundAssumption DEF Init
      <3>. QED  BY <2>2, <3>1, <3>2, <3>3, <3>4 DEF TypeOK, JobType
    <2>4. Manned /\ NotYetBlind /\ PollAnswered
      BY <2>1 DEF Manned, NotYetBlind, PollAnswered
    <2>5. DrainedBeforeDeleted
      BY <1>1 DEF Init, DrainedBeforeDeleted
    <2>. QED  BY <2>3, <2>4, <2>5 DEF IInv
  <1>. QED  BY <1>1, IInvStep, PTL DEF Spec

-----------------------------------------------------------------------------
(* The theorems *)

\* Every variable stays in its set, for any number of peers, removals, changes of
\* leadership and failures.
THEOREM TypeCorrect == Spec => []TypeOK
  BY IInvHolds, PTL DEF IInv

\* run_remove_node deletes the entry of a peer only after MinIO has drained its
\* pool, or after mc did not show the pool (remove_node.py 11-13).
THEOREM NoEntryGoesUndrained == Spec => []DrainedBeforeDeleted
  BY IInvHolds, PTL DEF IInv

=============================================================================
