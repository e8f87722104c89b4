---------------------------- MODULE PulsarProofs ----------------------------
(***************************************************************************)
(* Theorems about Pulsar, for any set of peers and jobs, any threshold,    *)
(* and any number of outages, changes of leadership and migrations.        *)
(*                                                                         *)
(* The argument is about one migration at a time.  Between migrations      *)
(* every peer has the broker its cluster.env says, and that broker's own   *)
(* Milvus uses it (AtRest); peers may still disagree, for a host that was  *)
(* down during a forced migration keeps its own.  During a migration the   *)
(* peers behind it use the new broker, which has come up before any of     *)
(* them, and the only peer it leaves out is an old host that has a broker  *)
(* of its own (Progress).                                                  *)
(***************************************************************************)
EXTENDS Pulsar, TLAPS, WellFoundedInduction

Applying == {"apply", "recreate", "verify"}

\* Whoever submits, a migration under way has a runner and a new host, and from
\* the preflight on an old host that is another one.
JobShape ==
    \A j \in Job :
       /\ job[j].at \in Live => job[j].runner \in Node /\ job[j].to \in Node
       /\ job[j].at \in Live \ {"start"} => job[j].old \in Node \ {job[j].to}
       /\ job[j].at \notin {"apply", "recreate"} => job[j].todo = {}

OneLive ==
    ~tangled => \A i, j \in Job : job[i].at \in Live /\ job[j].at \in Live => i = j

\* Every peer uses the broker of its cluster.env, and so does the broker's host.
AtRest ==
    \A n \in Node :
       host[n] = conn[n] /\ conn[conn[n]] = conn[n] /\ conn[n] \in broker

\* How far migration j has come.
Progress(j) ==
    /\ job[j].todo \subseteq job[j].peers /\ job[j].to \in job[j].peers
    /\ \A n \in Node \ job[j].peers :
          n = job[j].old /\ conn[n] = n /\ host[n] = n /\ n \in broker
    /\ \A n \in job[j].peers \ job[j].todo : host[n] = job[j].to /\ conn[n] = job[j].to
    /\ job[j].to \notin job[j].todo => job[j].to \in broker
    /\ job[j].at = "recreate" => job[j].todo # {} /\ host[Turn(j)] = job[j].to
    /\ \A n \in Node : \/ conn[n] \in broker
                       \/ n \in job[j].todo /\ conn[n] # job[j].old

Orderly ==
    ~tangled /\ ~Failed =>
       /\ (\A j \in Job : job[j].at \notin Applying) => AtRest
       /\ \A j \in Job : job[j].at = "preflight" => conn[job[j].old] = job[j].old
       /\ \A j \in Job : job[j].at \in Applying => Progress(j)

IInv == TypeOK /\ JobShape /\ OneLive /\ Orderly

-----------------------------------------------------------------------------
(* Operators *)

JobType == [at : Place, runner : Node \cup {0}, to : Node \cup {0},
            old : Node \cup {0}, force : BOOLEAN,
            peers : SUBSET Node, todo : SUBSET Node]

\* A set of numbers has a minimum, and Min is it.
LEMMA MinInSet ==
    ASSUME NEW S \in SUBSET Nat, S # {}
    PROVE  Min(S) \in S
  <1>1. PICK m \in S : \A x \in S : ~(<<x, m>> \in OpToRel(<, Nat))
    BY WFMin, NatLessThanWellFounded
  <1>2. \A x \in S : m <= x
    <2> SUFFICES ASSUME NEW x \in S PROVE ~(x < m)
      OBVIOUS
    <2>1. x < m => <<x, m>> \in OpToRel(<, Nat)
      BY Zenon DEF OpToRel
    <2>. QED  BY <1>1, <2>1
  <1>. QED  BY <1>2 DEF Min

\* The peer whose turn it is has not been applied yet; it is the new host first,
\* and the old one only when it is the last.
LEMMA TurnInTodo ==
    ASSUME TypeOK, NEW j \in Job, job[j].todo # {}
    PROVE  /\ Turn(j) \in job[j].todo
           /\ job[j].to \in job[j].todo => Turn(j) = job[j].to
           /\ Turn(j) = job[j].old /\ job[j].to # job[j].old => job[j].todo = {job[j].old}
  <1>1. job[j].todo \subseteq Nat /\ job[j].todo \in SUBSET Node
    BY NodeAssumption DEF TypeOK
  <1>. DEFINE others == job[j].todo \ {job[j].old}
  <1>2. others # {} => Min(others) \in others
    BY <1>1, MinInSet
  <1>. QED  BY <1>2 DEF Turn

\* The three forms of Goto.
LEMMA GotoEffect ==
    ASSUME TypeOK, NEW j \in Job, NEW place \in Place, Goto(j, place)
    PROVE  /\ job' \in [Job -> JobType]
           /\ job'[j].at = place
           /\ place \in {"done", "failed"} => job'[j].todo = {}
           /\ place \notin {"done", "failed"} =>
                 /\ job'[j].runner = job[j].runner /\ job'[j].to = job[j].to
                 /\ job'[j].old = job[j].old /\ job'[j].peers = job[j].peers
                 /\ job'[j].todo = job[j].todo
           /\ \A i \in Job \ {j} : job'[i] = job[i]
  <1>1. job \in [Job -> JobType]
    BY DEF TypeOK, JobType
  <1>. DEFINE ended == [NoJob EXCEPT !.at = place]
              moved == [job[j] EXCEPT !.at = place]
  <1>2. ended \in JobType /\ ended.at = place /\ ended.todo = {}
    BY DEF JobType, NoJob
  <1>3. /\ moved \in JobType /\ moved.at = place
        /\ moved.runner = job[j].runner /\ moved.to = job[j].to
        /\ moved.old = job[j].old /\ moved.peers = job[j].peers
        /\ moved.todo = job[j].todo
    BY <1>1 DEF JobType
  <1>4. job' = [job EXCEPT ![j] = IF place \in {"done", "failed"} THEN ended ELSE moved]
    BY <1>1 DEF Goto
  <1>. HIDE DEF ended, moved
  <1>. QED  BY <1>1, <1>2, <1>3, <1>4

\* What a new job looks like, and that no older one is under way unless tangled.
LEMMA CreateEffect ==
    ASSUME TypeOK, NEW j \in Job, NEW r \in Node, NEW to \in Node, NEW force \in BOOLEAN,
           Create(j, r, to, force)
    PROVE  /\ job' \in [Job -> JobType]
           /\ job[j].at \in Free
           /\ job'[j].at = "start" /\ job'[j].runner = r /\ job'[j].to = to
           /\ job'[j].todo = {}
           /\ \A i \in Job \ {j} : job'[i] = job[i]
           /\ tangled' \in BOOLEAN /\ (tangled => tangled')
           /\ ~tangled' => \A i \in Job : job[i].at \notin Live
  <1>1. job \in [Job -> JobType]
    BY DEF TypeOK, JobType
  <1>. DEFINE new == [NoJob EXCEPT !.at = "start", !.runner = r, !.to = to, !.force = force]
  <1>2. /\ new \in JobType /\ new.at = "start" /\ new.runner = r /\ new.to = to
        /\ new.todo = {}
    BY DEF JobType, NoJob, Place
  <1>3. job' = [job EXCEPT ![j] = new] /\ job[j].at \in Free
    BY DEF Create
  <1>4. tangled' \in BOOLEAN /\ (tangled => tangled')
        /\ (~tangled' => \A i \in Job : job[i].at \notin Live)
    BY DEF Create, TypeOK
  <1>. HIDE DEF new
  <1>. QED  BY <1>1, <1>2, <1>3, <1>4

\* Start, when it finds an old host.
LEMMA StartEffect ==
    ASSUME TypeOK, NEW j \in Job, NEW h \in Node,
           job' = [job EXCEPT ![j].at = "preflight", ![j].old = h]
    PROVE  /\ job' \in [Job -> JobType]
           /\ job'[j].at = "preflight" /\ job'[j].old = h
           /\ job'[j].runner = job[j].runner /\ job'[j].to = job[j].to
           /\ job'[j].todo = job[j].todo
           /\ \A i \in Job \ {j} : job'[i] = job[i]
  <1>1. job \in [Job -> JobType]
    BY DEF TypeOK, JobType
  <1>. DEFINE a == [job[j] EXCEPT !.at = "preflight"]
              b == [a EXCEPT !.old = h]
  <1>2. /\ a \in JobType /\ a.at = "preflight" /\ a.runner = job[j].runner
        /\ a.to = job[j].to /\ a.todo = job[j].todo
    BY <1>1 DEF JobType, Place
  <1>3. /\ b \in JobType /\ b.at = "preflight" /\ b.old = h /\ b.runner = job[j].runner
        /\ b.to = job[j].to /\ b.todo = job[j].todo
    <2>. HIDE DEF a
    <2>. QED  BY <1>2 DEF JobType
  <1>4. job' = [job EXCEPT ![j] = b]
    BY <1>1
  <1>. HIDE DEF b
  <1>. QED  BY <1>1, <1>3, <1>4

\* Preflight, when it passes.
LEMMA PreflightEffect ==
    ASSUME TypeOK, NEW j \in Job, NEW S \in SUBSET Node,
           job' = [job EXCEPT ![j].at = "apply", ![j].peers = S, ![j].todo = S]
    PROVE  /\ job' \in [Job -> JobType]
           /\ job'[j].at = "apply" /\ job'[j].peers = S /\ job'[j].todo = S
           /\ job'[j].runner = job[j].runner /\ job'[j].to = job[j].to
           /\ job'[j].old = job[j].old
           /\ \A i \in Job \ {j} : job'[i] = job[i]
  <1>1. job \in [Job -> JobType]
    BY DEF TypeOK, JobType
  <1>. DEFINE a == [job[j] EXCEPT !.at = "apply"]
              b == [a EXCEPT !.peers = S]
              c == [b EXCEPT !.todo = S]
  <1>2. /\ a \in JobType /\ a.at = "apply" /\ a.runner = job[j].runner
        /\ a.to = job[j].to /\ a.old = job[j].old
    BY <1>1 DEF JobType, Place
  <1>3. /\ b \in JobType /\ b.at = "apply" /\ b.runner = job[j].runner
        /\ b.to = job[j].to /\ b.old = job[j].old /\ b.peers = S
    <2>. HIDE DEF a
    <2>. QED  BY <1>2 DEF JobType
  <1>4. /\ c \in JobType /\ c.at = "apply" /\ c.runner = job[j].runner
        /\ c.to = job[j].to /\ c.old = job[j].old /\ c.peers = S /\ c.todo = S
    <2>. HIDE DEF b
    <2>. QED  BY <1>3 DEF JobType
  <1>5. job' = [job EXCEPT ![j] = c]
    BY <1>1
  <1>. HIDE DEF c
  <1>6. job'[j] = c /\ \A i \in Job \ {j} : job'[i] = job[i]
    BY <1>1, <1>5
  <1>7. job' \in [Job -> JobType]
    BY <1>1, <1>4, <1>5
  <1>. QED  BY <1>4, <1>6, <1>7

\* ApplyRecreate takes the peer off the list.
LEMMA RecreateEffect ==
    ASSUME TypeOK, NEW j \in Job, NEW n \in Node,
           job' = [job EXCEPT ![j].at = "apply", ![j].todo = @ \ {n}]
    PROVE  /\ job' \in [Job -> JobType]
           /\ job'[j].at = "apply" /\ job'[j].todo = job[j].todo \ {n}
           /\ job'[j].runner = job[j].runner /\ job'[j].to = job[j].to
           /\ job'[j].old = job[j].old /\ job'[j].peers = job[j].peers
           /\ \A i \in Job \ {j} : job'[i] = job[i]
  <1>1. job \in [Job -> JobType]
    BY DEF TypeOK, JobType
  <1>. DEFINE a == [job[j] EXCEPT !.at = "apply"]
              b == [a EXCEPT !.todo = job[j].todo \ {n}]
  <1>2. /\ a \in JobType /\ a.at = "apply" /\ a.runner = job[j].runner
        /\ a.to = job[j].to /\ a.old = job[j].old /\ a.peers = job[j].peers
    BY <1>1 DEF JobType, Place
  <1>3. /\ b \in JobType /\ b.at = "apply" /\ b.runner = job[j].runner
        /\ b.to = job[j].to /\ b.old = job[j].old /\ b.peers = job[j].peers
        /\ b.todo = job[j].todo \ {n}
    <2>. HIDE DEF a
    <2>. QED  BY <1>1, <1>2 DEF JobType
  <1>4. job' = [job EXCEPT ![j] = b]
    BY <1>1
  <1>. HIDE DEF b
  <1>. QED  BY <1>1, <1>3, <1>4

-----------------------------------------------------------------------------
(* One step of the specification *)

\* The types, and what a job has.
LEMMA ShapeStep == TypeOK /\ JobShape /\ OneLive /\ [Next]_vars
                      => (TypeOK /\ JobShape /\ OneLive)'
  <1> SUFFICES ASSUME TypeOK, JobShape, OneLive, [Next]_vars
               PROVE  (TypeOK /\ JobShape /\ OneLive)'
    OBVIOUS
  <1> USE NodeAssumption, BoundAssumption
  <1>0. job \in [Job -> JobType] /\ 0 \notin Node
    BY DEF TypeOK, JobType
  <1>1. ASSUME NEW n \in Node, PeerDown(n) PROVE (TypeOK /\ JobShape /\ OneLive)'
    <2>1. /\ job' \in [Job -> JobType]
          /\ \A j \in Job : job'[j] = job[j] \/ (job'[j].at = "failed" /\ job'[j].todo = {})
      <3>. DEFINE ended == [NoJob EXCEPT !.at = "failed"]
      <3>1. ended \in JobType /\ ended.at = "failed" /\ ended.todo = {}
        BY DEF JobType, NoJob, Place
      <3>. HIDE DEF ended
      <3>2. job' = [j \in Job |-> IF job[j].at \in Live /\ job[j].runner = n
                                  THEN ended ELSE job[j]]
        BY <1>1 DEF PeerDown, ended
      <3>3. ASSUME NEW j \in Job
            PROVE  job'[j] = job[j] \/ job'[j] = ended
        BY <3>2
      <3>4. job' \in [Job -> JobType]
        BY <1>0, <3>1, <3>2
      <3>. QED  BY <3>1, <3>3, <3>4
    <2>2. misses' \in [Node -> [Node -> 0..Threshold]]
      BY <1>1 DEF PeerDown, TypeOK
    <2>3. /\ up' \in SUBSET Node /\ fired' \in [Node -> SUBSET Node]
          /\ outages' \in 0..MaxOutages
          /\ UNCHANGED <<leader, host, conn, broker, tangled, moves, manual>>
      BY <1>1 DEF PeerDown, TypeOK, config
    <2>4. TypeOK'
      BY <2>1, <2>2, <2>3 DEF TypeOK, JobType
    <2>5. JobShape' /\ OneLive'
      BY <2>1, <2>3 DEF JobShape, OneLive, Live, Place
    <2>. QED  BY <2>4, <2>5
  <1>2. ASSUME NEW n \in Node, PeerUp(n) PROVE (TypeOK /\ JobShape /\ OneLive)'
    BY <1>2 DEF PeerUp, TypeOK, JobShape, OneLive, config, watch, bounds
  <1>3. ASSUME NEW n \in Node, LeaderMoves(n) PROVE (TypeOK /\ JobShape /\ OneLive)'
    BY <1>3 DEF LeaderMoves, TypeOK, JobShape, OneLive, config, watch
  <1>4. ASSUME NEW n \in Node, NEW m \in Node, ProbeOk(n, m)
        PROVE  (TypeOK /\ JobShape /\ OneLive)'
    <2>1. misses' \in [Node -> [Node -> 0..Threshold]]
      BY <1>4 DEF ProbeOk, TypeOK
    <2>. QED  BY <1>4, <2>1 DEF ProbeOk, TypeOK, JobShape, OneLive, config, bounds
  <1>5. ASSUME NEW n \in Node, NEW m \in Node PROVE Missed(n, m) \in 0..Threshold
    <2>1. misses[n][m] \in 0..Threshold
      BY DEF TypeOK
    <2>. QED  BY <2>1 DEF Missed
  <1>6. ASSUME NEW n \in Node, NEW m \in Node, ProbeFails(n, m)
        PROVE  (TypeOK /\ JobShape /\ OneLive)'
    <2>1. misses' \in [Node -> [Node -> 0..Threshold]]
      BY <1>5, <1>6 DEF ProbeFails, TypeOK
    <2>. QED  BY <1>6, <2>1 DEF ProbeFails, TypeOK, JobShape, OneLive, config, bounds
  <1>7. ASSUME NEW j \in Job, NEW r \in Node, NEW t \in Node, NEW f \in BOOLEAN,
               Create(j, r, t, f)
        PROVE  /\ job' \in [Job -> JobType] /\ tangled' \in BOOLEAN
               /\ JobShape' /\ OneLive'
    <2>1. /\ job' \in [Job -> JobType]
          /\ job'[j].at = "start" /\ job'[j].runner = r /\ job'[j].to = t
          /\ job'[j].todo = {}
          /\ \A i \in Job \ {j} : job'[i] = job[i]
          /\ tangled' \in BOOLEAN /\ (tangled => tangled')
          /\ ~tangled' => \A i \in Job : job[i].at \notin Live
      BY <1>7, CreateEffect
    <2>. QED  BY <2>1 DEF JobShape, OneLive
  <1>8. ASSUME NEW n \in Node, NEW m \in Node, AutoMigrate(n, m)
        PROVE  (TypeOK /\ JobShape /\ OneLive)'
    <2>1. misses' \in [Node -> [Node -> 0..Threshold]]
      BY <1>5, <1>8 DEF AutoMigrate, TypeOK
    <2>2. Min(Node \ {m}) \in Node
      <3>1. n \in Node \ {m}
        BY <1>8 DEF AutoMigrate
      <3>. QED  BY <3>1, MinInSet
    <2>3. /\ job' \in [Job -> JobType] /\ tangled' \in BOOLEAN
          /\ JobShape' /\ OneLive'
      BY <1>7, <1>8, <2>2 DEF AutoMigrate
    <2>. QED
      BY <1>8, <2>1, <2>3 DEF AutoMigrate, TypeOK, JobType, config, bounds
  <1>9. ASSUME NEW t \in Node, Submit(t) PROVE (TypeOK /\ JobShape /\ OneLive)'
    <2>1. /\ job' \in [Job -> JobType] /\ tangled' \in BOOLEAN
          /\ JobShape' /\ OneLive'
      BY <1>7, <1>9 DEF Submit, TypeOK
    <2>. QED  BY <1>9, <2>1 DEF Submit, TypeOK, JobType, config, watch
  <1>10. ASSUME NEW j \in Job, Work(j) PROVE (TypeOK /\ JobShape /\ OneLive)'
    <2>1. /\ UNCHANGED <<up, leader, watch, tangled, bounds>>
          /\ job[j].at \in Live
      BY <1>10 DEF Work, Start, Preflight, ApplyWrite, ApplyRecreate, ApplyFails,
         BeginVerify, Verify, Live, Place, config
    <2>2. job[j].todo # {} => Turn(j) \in Node
      BY <1>0, TurnInTodo DEF JobType
    <2>3. job[j].runner \in Node /\ job[j].to \in Node
      BY <2>1 DEF JobShape
    <2>4. /\ host' \in [Node -> Node] /\ conn' \in [Node -> Node]
          /\ broker' \in SUBSET Node
      <3>1. CASE ApplyWrite(j)
        BY <2>2, <2>3, <3>1 DEF ApplyWrite, TypeOK
      <3>2. CASE ApplyRecreate(j)
        BY <3>2 DEF ApplyRecreate, TypeOK
      <3>3. CASE UNCHANGED config
        BY <3>3 DEF config, TypeOK
      <3>. QED
        BY <1>10, <3>1, <3>2, <3>3 DEF Work, Start, Preflight, ApplyFails, BeginVerify,
           Verify
    <2>. DEFINE WellMade ==
           /\ job' \in [Job -> JobType]
           /\ \A i \in Job \ {j} : job'[i] = job[i]
           /\ job'[j].at \in Live =>
                 job'[j].runner \in Node /\ job'[j].to \in Node
           /\ job'[j].at \in Live \ {"start"} => job'[j].old \in Node \ {job'[j].to}
           /\ job'[j].at \notin {"apply", "recreate"} => job'[j].todo = {}
    <2>5. WellMade
      <3>. USE DEF Live, Place, JobShape
      <3>1. ASSUME NEW place \in Place \ {"idle", "start"}, Goto(j, place),
                   place \in {"done", "failed"} \/ job[j].at # "start",
                   place = "verify" => job[j].todo = {},
                   place = "preflight" => job[j].at = "preflight"
            PROVE  WellMade
        <4>1. /\ job' \in [Job -> JobType]
              /\ job'[j].at = place
              /\ place \in {"done", "failed"} => job'[j].todo = {}
              /\ place \notin {"done", "failed"} =>
                    /\ job'[j].runner = job[j].runner /\ job'[j].to = job[j].to
                    /\ job'[j].old = job[j].old /\ job'[j].todo = job[j].todo
              /\ \A i \in Job \ {j} : job'[i] = job[i]
          BY <3>1, GotoEffect
        <4>. QED  BY <2>1, <2>3, <3>1, <4>1
      <3>2. CASE Start(j)
        <4>1. CASE Goto(j, "failed") \/ Goto(j, "done")
          BY <3>1, <4>1
        <4>2. CASE /\ host[job[j].runner] # job[j].to
                   /\ job' = [job EXCEPT ![j].at = "preflight",
                                         ![j].old = host[job[j].runner]]
          <5>1. host[job[j].runner] \in Node
            BY <2>3 DEF TypeOK
          <5>2. /\ job' \in [Job -> JobType]
                /\ job'[j].at = "preflight" /\ job'[j].old = host[job[j].runner]
                /\ job'[j].runner = job[j].runner /\ job'[j].to = job[j].to
                /\ job'[j].todo = job[j].todo
                /\ \A i \in Job \ {j} : job'[i] = job[i]
            BY <4>2, <5>1, StartEffect
          <5>. QED  BY <2>3, <3>2, <4>2, <5>1, <5>2 DEF Start
        <4>. QED  BY <3>2, <4>1, <4>2 DEF Start
      <3>3. CASE Preflight(j)
        <4>1. CASE Goto(j, "failed")
          BY <3>1, <4>1
        <4>2. ASSUME NEW S \in SUBSET Node,
                     job' = [job EXCEPT ![j].at = "apply", ![j].peers = S, ![j].todo = S]
              PROVE  WellMade
          <5>1. /\ job' \in [Job -> JobType]
                /\ job'[j].at = "apply" /\ job'[j].peers = S /\ job'[j].todo = S
                /\ job'[j].runner = job[j].runner /\ job'[j].to = job[j].to
                /\ job'[j].old = job[j].old
                /\ \A i \in Job \ {j} : job'[i] = job[i]
            BY <4>2, PreflightEffect
          <5>. QED  BY <2>3, <3>3, <5>1 DEF Preflight
        <4>3. up \in SUBSET Node
          BY DEF TypeOK
        <4>. QED  BY <3>3, <4>1, <4>2, <4>3 DEF Preflight
      <3>4. CASE ApplyWrite(j)
        BY <3>1, <3>4 DEF ApplyWrite
      <3>5. CASE ApplyRecreate(j)
        <4>1. Turn(j) \in Node
          BY <3>5 DEF ApplyRecreate, TypeOK
        <4>2. /\ job' \in [Job -> JobType]
              /\ job'[j].at = "apply" /\ job'[j].todo = job[j].todo \ {Turn(j)}
              /\ job'[j].runner = job[j].runner /\ job'[j].to = job[j].to
              /\ job'[j].old = job[j].old /\ job'[j].peers = job[j].peers
              /\ \A i \in Job \ {j} : job'[i] = job[i]
          BY <3>5, <4>1, RecreateEffect DEF ApplyRecreate
        <4>. QED  BY <2>3, <3>5, <4>2 DEF ApplyRecreate
      <3>6. CASE ApplyFails(j)
        BY <3>1, <3>6 DEF ApplyFails
      <3>7. CASE BeginVerify(j)
        BY <3>1, <3>7 DEF BeginVerify
      <3>8. CASE Verify(j)
        BY <3>1, <3>8 DEF Verify
      <3>. QED
        BY <1>10, <3>2, <3>3, <3>4, <3>5, <3>6, <3>7, <3>8 DEF Work
    <2>6. TypeOK'
      BY <2>1, <2>4, <2>5 DEF TypeOK, JobType, watch, bounds
    <2>7. JobShape'
      BY <2>5 DEF JobShape
    <2>8. OneLive'
      BY <2>1, <2>5 DEF OneLive
    <2>. QED  BY <2>6, <2>7, <2>8
  <1>11. CASE UNCHANGED vars
    BY <1>11 DEF vars, TypeOK, JobShape, OneLive, config, watch, bounds, Turn
  <1>. QED
    BY <1>1, <1>2, <1>3, <1>4, <1>6, <1>8, <1>9, <1>10, <1>11 DEF Next, Probe

\* Neither mark is taken back.
LEMMA MarksStay == IInv /\ [Next]_vars => (tangled => tangled') /\ (Failed => Failed')
  <1> SUFFICES ASSUME IInv, [Next]_vars
               PROVE  (tangled => tangled') /\ (Failed => Failed')
    OBVIOUS
  <1>0. TypeOK /\ job \in [Job -> JobType]
    BY DEF IInv, TypeOK, JobType
  <1>1. ASSUME NEW n \in Node, PeerDown(n) PROVE (tangled => tangled') /\ (Failed => Failed')
    BY <1>1 DEF PeerDown, Failed, Live
  <1>2. ASSUME NEW j \in Job, NEW r, NEW t, NEW f, Create(j, r, t, f)
        PROVE  (tangled => tangled') /\ (Failed => Failed')
    BY <1>0, <1>2 DEF Create, Failed, Free
  <1>3. ASSUME NEW j \in Job, Work(j) PROVE (tangled => tangled') /\ (Failed => Failed')
    <2>1. UNCHANGED tangled /\ job[j].at # "failed"
      BY <1>3 DEF Work, Start, Preflight, ApplyWrite, ApplyRecreate, ApplyFails,
         BeginVerify, Verify
    <2>2. \A i \in Job \ {j} : job'[i] = job[i]
      BY <1>0, <1>3 DEF Work, Start, Preflight, ApplyWrite, ApplyRecreate, ApplyFails,
         BeginVerify, Verify, Goto
    <2>. QED  BY <2>1, <2>2 DEF Failed
  <1>4. CASE UNCHANGED <<job, tangled>>
    BY <1>4 DEF Failed
  <1>. QED
    BY <1>1, <1>2, <1>3, <1>4 DEF Next, Probe, PeerUp, LeaderMoves, ProbeOk, ProbeFails,
       AutoMigrate, Submit, vars

\* What is left alone stays in order.
LEMMA QuietStep ==
    ASSUME Orderly, UNCHANGED <<job, config, tangled>>
    PROVE  Orderly'
  BY DEF Orderly, AtRest, Progress, Failed, Turn, config

\* One step of the specification keeps migrations in order.
LEMMA OrderlyStep == IInv /\ [Next]_vars => Orderly'
  <1> SUFFICES ASSUME IInv, [Next]_vars, ~tangled', ~Failed'
               PROVE  Orderly'
    BY DEF Orderly
  <1> USE NodeAssumption
  <1>0. ~tangled /\ ~Failed
    BY MarksStay
  <1>1. TypeOK /\ JobShape /\ job \in [Job -> JobType]
    BY DEF IInv, TypeOK, JobType
  <1>2. TypeOK' /\ JobShape' /\ OneLive' /\ job' \in [Job -> JobType]
    <2>1. TypeOK' /\ JobShape' /\ OneLive'
      BY ShapeStep DEF IInv
    <2>. QED  BY <2>1 DEF TypeOK, JobType
  <1>3. /\ (\A j \in Job : job[j].at \notin Applying) => AtRest
        /\ \A j \in Job : job[j].at = "preflight" => conn[job[j].old] = job[j].old
        /\ \A j \in Job : job[j].at \in Applying => Progress(j)
    BY <1>0 DEF IInv, Orderly
  <1>4. \A i, j \in Job : job[i].at \in Live /\ job[j].at \in Live => i = j
    BY <1>0 DEF IInv, OneLive
  <1>5. ASSUME UNCHANGED <<job, config, tangled>> PROVE Orderly'
    BY <1>5, QuietStep DEF IInv
  <1>6. ASSUME NEW n \in Node, PeerDown(n) PROVE Orderly'
    <2>1. ASSUME NEW j \in Job PROVE job'[j] = job[j]
      <3>1. job'[j].at # "failed"
        BY DEF Failed
      <3>. QED  BY <1>6, <3>1 DEF PeerDown, NoJob
    <2>2. job' = job
      BY <1>1, <1>2, <2>1
    <2>. QED  BY <1>5, <1>6, <2>2 DEF PeerDown
  <1>7. ASSUME NEW j \in Job, NEW r \in Node, NEW t \in Node, NEW f \in BOOLEAN,
               Create(j, r, t, f), UNCHANGED config
        PROVE  Orderly'
    <2>1. /\ job'[j].at = "start"
          /\ \A i \in Job \ {j} : job'[i] = job[i]
          /\ \A i \in Job : job[i].at \notin Live
      BY <1>1, <1>7, CreateEffect
    <2>2. AtRest
      BY <1>3, <2>1 DEF Applying, Live, Place
    <2>3. AtRest'
      BY <1>7, <2>2 DEF AtRest, config
    <2>4. \A i \in Job : job'[i].at \notin Applying /\ job'[i].at # "preflight"
      BY <2>1 DEF Applying, Live, Place
    <2>. QED  BY <2>3, <2>4 DEF Orderly
  <1>8. ASSUME NEW j \in Job, Work(j) PROVE Orderly'
    <2>1. UNCHANGED tangled /\ job[j].at \in Live /\ job'[j].at # "failed"
      BY <1>8 DEF Work, Start, Preflight, ApplyWrite, ApplyRecreate, ApplyFails,
         BeginVerify, Verify, Live, Place, Failed
    <2>2. \A i \in Job \ {j} : job'[i] = job[i]
      BY <1>1, <1>8 DEF Work, Start, Preflight, ApplyWrite, ApplyRecreate, ApplyFails,
         BeginVerify, Verify, Goto
    <2>3. \A i \in Job \ {j} : job'[i].at \notin Live
      BY <1>4, <2>1, <2>2
    <2>4. \A i \in Job \ {j} : job'[i].at \notin Applying /\ job'[i].at # "preflight"
      BY <2>3 DEF Applying, Live, Place
    <2>5. job[j].at \notin Applying => AtRest
      BY <1>3, <2>2, <2>4
    <2>6. job[j].runner \in Node /\ job[j].to \in Node
      BY <1>1, <2>1 DEF JobShape
    <2>7. ~Goto(j, "failed")
      BY <1>1, <2>1, GotoEffect DEF Place
    <2>8. CASE Start(j)
      <3>1. AtRest /\ AtRest'
        BY <2>5, <2>8 DEF Start, AtRest, Applying, config
      <3>2. CASE Goto(j, "done")
        <4>1. job'[j].at = "done"
          BY <1>1, <3>2, GotoEffect DEF Place
        <4>. QED  BY <2>4, <3>1, <4>1 DEF Orderly, Applying
      <3>3. CASE job' = [job EXCEPT ![j].at = "preflight", ![j].old = host[job[j].runner]]
        <4>1. host[job[j].runner] \in Node
          BY <1>1, <2>6 DEF TypeOK
        <4>2. job'[j].at = "preflight" /\ job'[j].old = host[job[j].runner]
          BY <1>1, <3>3, <4>1, StartEffect
        <4>3. conn'[job'[j].old] = job'[j].old
          BY <2>6, <2>8, <3>1, <4>2 DEF Start, AtRest, config
        <4>. QED  BY <2>4, <3>1, <4>2, <4>3 DEF Orderly, Applying
      <3>. QED  BY <2>7, <2>8, <3>2, <3>3 DEF Start
    <2>9. CASE Preflight(j)
      <3>1. AtRest /\ UNCHANGED <<host, conn, broker>>
        BY <2>5, <2>9 DEF Preflight, Applying, config
      <3>2. PICK S \in SUBSET Node :
              /\ job' = [job EXCEPT ![j].at = "apply", ![j].peers = S, ![j].todo = S]
              /\ Node \ S \subseteq {job[j].old}
        BY <1>1, <2>7, <2>9 DEF Preflight, Unreachable, TypeOK
      <3>3. /\ job'[j].at = "apply" /\ job'[j].peers = S /\ job'[j].todo = S
            /\ job'[j].to = job[j].to /\ job'[j].old = job[j].old
        BY <1>1, <3>2, PreflightEffect
      <3>4. job[j].old \in Node \ {job[j].to} /\ conn[job[j].old] = job[j].old
        BY <1>1, <1>3, <2>1, <2>9 DEF Preflight, JobShape
      <3>5. job[j].to \in S
        BY <2>6, <3>2, <3>4
      <3>6. \A n \in Node \ S : n = job[j].old /\ conn[n] = n /\ host[n] = n /\ n \in broker
        BY <3>1, <3>2, <3>4 DEF AtRest
      <3>7. Progress(j)'
        BY <3>1, <3>3, <3>5, <3>6 DEF Progress, AtRest
      <3>. QED  BY <2>4, <3>3, <3>7 DEF Orderly, Applying
    <2>10. CASE ApplyWrite(j)
      <3>1. /\ job'[j].at = "recreate" /\ job'[j].peers = job[j].peers
            /\ job'[j].todo = job[j].todo /\ job'[j].to = job[j].to
            /\ job'[j].old = job[j].old
        BY <1>1, <2>10, GotoEffect DEF ApplyWrite, Place
      <3>2. Turn(j)' = Turn(j)
        BY <3>1 DEF Turn
      <3>3. Turn(j) \in job[j].todo /\ job[j].todo # {}
        BY <1>1, <2>10, TurnInTodo DEF ApplyWrite
      <3>4. Progress(j)
        BY <1>3, <2>10 DEF ApplyWrite, Applying
      <3>5. /\ UNCHANGED <<conn, broker>> /\ host \in [Node -> Node]
            /\ host' = [host EXCEPT ![Turn(j)] = job[j].to] /\ Turn(j) \in Node
        BY <1>1, <2>10 DEF ApplyWrite, TypeOK
      <3>6. Progress(j)'
        <4>1. /\ job[j].todo \subseteq job[j].peers /\ job[j].peers \subseteq Node
              /\ host'[Turn(j)] = job[j].to
              /\ \A n \in Node \ {Turn(j)} : host'[n] = host[n]
          BY <1>1, <3>4, <3>5 DEF Progress, JobType
        <4>2. \A n \in Node \ job[j].peers :
                 n = job[j].old /\ conn[n] = n /\ host'[n] = n /\ n \in broker
          BY <3>3, <3>4, <4>1 DEF Progress
        <4>3. \A n \in job[j].peers \ job[j].todo :
                 host'[n] = job[j].to /\ conn[n] = job[j].to
          BY <3>3, <3>4, <4>1 DEF Progress
        <4>4. host'[Turn(j)'] = job'[j].to
          BY <3>1, <3>2, <4>1
        <4>5. /\ job[j].to \in job[j].peers
              /\ job[j].to \notin job[j].todo => job[j].to \in broker
              /\ \A n \in Node : \/ conn[n] \in broker
                                 \/ n \in job[j].todo /\ conn[n] # job[j].old
          BY <3>4 DEF Progress
        <4>. QED  BY <3>1, <3>3, <3>5, <4>1, <4>2, <4>3, <4>4, <4>5 DEF Progress
      <3>. QED  BY <2>4, <3>1, <3>6 DEF Orderly, Applying
    <2>11. CASE ApplyRecreate(j)
      <3>. DEFINE n == Turn(j)
      <3>1. Progress(j) /\ job[j].at = "recreate"
        BY <1>3, <2>11 DEF ApplyRecreate, Applying
      <3>2. job[j].todo # {} /\ host[n] = job[j].to
        BY <3>1 DEF Progress
      <3>3. job[j].old \in Node \ {job[j].to}
        BY <1>1, <2>1, <3>1 DEF JobShape
      <3>4. /\ n \in job[j].todo /\ n \in Node
            /\ job[j].to \in job[j].todo => n = job[j].to
            /\ n = job[j].old => job[j].todo = {job[j].old}
        BY <1>1, <3>2, <3>3, TurnInTodo DEF JobType
      <3>5. /\ conn' = [conn EXCEPT ![n] = job[j].to] /\ UNCHANGED host
            /\ broker' = IF job[j].to = n THEN broker \cup {n} ELSE broker \ {n}
            /\ job' = [job EXCEPT ![j].at = "apply", ![j].todo = @ \ {n}]
        BY <2>11, <3>2 DEF ApplyRecreate
      <3>. HIDE DEF n
      <3>6. /\ job'[j].at = "apply" /\ job'[j].todo = job[j].todo \ {n}
            /\ job'[j].to = job[j].to /\ job'[j].old = job[j].old
            /\ job'[j].peers = job[j].peers
        BY <1>1, <3>4, <3>5, RecreateEffect
      <3>7. conn'[n] = job[j].to /\ \A m \in Node \ {n} : conn'[m] = conn[m]
        BY <1>1, <3>4, <3>5 DEF TypeOK
      <3>8. job[j].to \in broker'
        BY <3>1, <3>4, <3>5 DEF Progress
      <3>9. \A m \in Node \ job'[j].peers :
               m = job'[j].old /\ conn'[m] = m /\ host'[m] = m /\ m \in broker'
        BY <3>1, <3>4, <3>5, <3>6, <3>7 DEF Progress
      <3>10. \A m \in job'[j].peers \ job'[j].todo :
                host'[m] = job'[j].to /\ conn'[m] = job'[j].to
        BY <1>1, <3>1, <3>2, <3>5, <3>6, <3>7 DEF Progress, JobType
      <3>11. ASSUME NEW m \in Node
             PROVE  \/ conn'[m] \in broker'
                    \/ m \in job'[j].todo /\ conn'[m] # job'[j].old
        <4>1. CASE m = n
          BY <3>7, <3>8, <4>1
        <4>2. CASE m # n /\ conn[m] # n
          <5>1. conn[m] \in broker => conn'[m] \in broker'
            BY <3>5, <3>7, <4>2
          <5>2. conn[m] \in broker \/ (m \in job[j].todo /\ conn[m] # job[j].old)
            BY <3>1 DEF Progress
          <5>. QED  BY <3>6, <3>7, <4>2, <5>1, <5>2
        <4>3. CASE m # n /\ conn[m] = n
          <5>1. conn'[m] = n
            BY <3>7, <4>3
          <5>2. CASE n = job[j].to
            BY <3>8, <5>1, <5>2
          <5>3. CASE n # job[j].to
            <6>1. m \in job[j].peers
              BY <3>1, <4>3 DEF Progress
            <6>2. m \in job[j].todo
              BY <3>1, <4>3, <5>3, <6>1 DEF Progress
            <6>3. n # job[j].old
              BY <3>4, <4>3, <6>2
            <6>. QED  BY <3>6, <4>3, <5>1, <6>2, <6>3
          <5>. QED  BY <5>2, <5>3
        <4>. QED  BY <4>1, <4>2, <4>3
      <3>12. Progress(j)'
        BY <3>1, <3>6, <3>8, <3>9, <3>10, <3>11 DEF Progress
      <3>. QED  BY <2>4, <3>6, <3>12 DEF Orderly, Applying
    <2>12. CASE BeginVerify(j)
      <3>1. /\ job'[j].at = "verify" /\ job'[j].peers = job[j].peers
            /\ job'[j].todo = job[j].todo /\ job'[j].to = job[j].to
            /\ job'[j].old = job[j].old
        BY <1>1, <2>12, GotoEffect DEF BeginVerify, Place
      <3>2. Progress(j) /\ UNCHANGED <<host, conn, broker>>
        BY <1>3, <2>12 DEF BeginVerify, Applying, config
      <3>3. Progress(j)'
        BY <3>1, <3>2 DEF Progress
      <3>. QED  BY <2>4, <3>1, <3>3 DEF Orderly, Applying
    <2>13. CASE Verify(j)
      <3>1. Progress(j) /\ job[j].todo = {} /\ UNCHANGED <<host, conn, broker>>
        BY <1>1, <1>3, <2>13 DEF Verify, Applying, JobShape, config
      <3>2. Goto(j, "done")
        BY <2>7, <2>13 DEF Verify
      <3>3. job'[j].at = "done"
        BY <1>1, <3>2, GotoEffect DEF Place
      <3>4. ASSUME NEW n \in Node
            PROVE  host[n] = conn[n] /\ conn[conn[n]] = conn[n] /\ conn[n] \in broker
        <4>1. CASE n \in job[j].peers
          BY <1>1, <3>1, <4>1 DEF Progress
        <4>2. CASE n \notin job[j].peers
          BY <3>1, <4>2 DEF Progress
        <4>. QED  BY <4>1, <4>2
      <3>5. AtRest'
        BY <3>1, <3>4 DEF AtRest
      <3>. QED  BY <2>4, <3>3, <3>5 DEF Orderly, Applying
    <2>. QED
      BY <1>8, <2>7, <2>8, <2>9, <2>10, <2>11, <2>12, <2>13 DEF Work, ApplyFails
  <1>9. ASSUME NEW n \in Node, NEW m \in Node, AutoMigrate(n, m) PROVE Orderly'
    <2>1. n \in Node \ {m}
      BY <1>1, <1>9 DEF AutoMigrate, TypeOK
    <2>2. Min(Node \ {m}) \in Node
      BY <2>1, MinInSet
    <2>. QED  BY <1>7, <1>9, <2>2 DEF AutoMigrate
  <1>10. ASSUME NEW t \in Node, Submit(t) PROVE Orderly'
    BY <1>1, <1>7, <1>10 DEF Submit, TypeOK
  <1>. QED
    BY <1>5, <1>6, <1>8, <1>9, <1>10 DEF Next, Probe, PeerUp, LeaderMoves, ProbeOk,
       ProbeFails, vars

\* Every reachable state satisfies the inductive invariant.
LEMMA IInvHolds == Spec => []IInv
  <1>1. ASSUME Init PROVE IInv
    <2>1. job \in [Job -> JobType] /\ \A j \in Job : job[j].at = "idle" /\ job[j].todo = {}
      <3>1. NoJob \in JobType /\ NoJob.at = "idle" /\ NoJob.todo = {}
        BY DEF NoJob, JobType, Place
      <3>. QED  BY <1>1, <3>1 DEF Init
    <2>2. /\ misses \in [Node -> [Node -> 0..Threshold]]
          /\ outages \in 0..MaxOutages /\ moves \in 0..MaxMoves /\ manual \in 0..MaxManual
      BY <1>1, BoundAssumption DEF Init
    <2>3. /\ up \in SUBSET Node /\ leader \in Node /\ host \in [Node -> Node]
          /\ conn \in [Node -> Node] /\ broker \in SUBSET Node
          /\ fired \in [Node -> SUBSET Node]
      BY <1>1, NodeAssumption DEF Init
    <2>4. tangled \in BOOLEAN
      BY <1>1 DEF Init
    <2>5. TypeOK
      BY <2>1, <2>2, <2>3, <2>4 DEF TypeOK, JobType
    <2>6. JobShape /\ OneLive
      BY <2>1 DEF JobShape, OneLive, Live
    <2>7. AtRest
      BY <1>1, NodeAssumption DEF Init, AtRest
    <2>8. Orderly
      BY <2>1, <2>7 DEF Orderly, Applying
    <2>. QED  BY <2>5, <2>6, <2>8 DEF IInv
  <1>2. IInv /\ [Next]_vars => IInv'
    BY ShapeStep, OrderlyStep DEF IInv
  <1>. QED  BY <1>1, <1>2, PTL DEF Spec

-----------------------------------------------------------------------------
(* The theorems *)

\* Every variable stays in its set, for any number of outages and migrations.
THEOREM TypeCorrect == Spec => []TypeOK
  BY IInvHolds, PTL DEF IInv

\* While migrations come one at a time and none fails, every Milvus has a broker
\* (run_migrate_pulsar's order, migrate_pulsar.py 155-175), unless it waits for its
\* turn in a migration whose runner did not know its broker.
THEOREM OrderKeepsBrokers == Spec => []BrokerFirst
  <1>1. ASSUME IInv, ~tangled, ~Failed, NEW n \in up
        PROVE  conn[n] \in broker \/ Misled(n)
    <2>1. n \in Node
      BY <1>1 DEF IInv, TypeOK
    <2>2. CASE \A j \in Job : job[j].at \notin Applying
      BY <1>1, <2>1, <2>2 DEF IInv, Orderly, AtRest
    <2>3. ASSUME NEW j \in Job, job[j].at \in Applying
          PROVE  conn[n] \in broker \/ Misled(n)
      <3>1. Progress(j)
        BY <1>1, <2>3 DEF IInv, Orderly
      <3>. QED  BY <2>1, <3>1 DEF Progress, Misled
    <2>. QED  BY <2>2, <2>3
  <1>2. IInv => BrokerFirst
    BY <1>1 DEF BrokerFirst
  <1>. QED  BY <1>2, IInvHolds, PTL

=============================================================================
