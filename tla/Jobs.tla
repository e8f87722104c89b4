-------------------------------- MODULE Jobs --------------------------------
(***************************************************************************)
(* The life of asynchronous jobs (daemon/jobs.py, JobsManager), with the   *)
(* leader-only sweeps that daemon/main.py schedules and the routes of      *)
(* daemon/api.py that create and cancel jobs.                              *)
(*                                                                         *)
(* A job lives twice: as a Job object in the memory of the daemon that     *)
(* created it, and as a value under /cluster/jobs/<id> in etcd, which the  *)
(* owner, the sweeps and the retention all overwrite without comparing.    *)
(*                                                                         *)
(* stored[j]   the value in etcd, or Absent:                               *)
(*             state; hb, the age of last_heartbeat against                *)
(*             jobs_heartbeat_timeout_s ("none", "fresh", "stale"); age,   *)
(*             that of finished_at against jobs_retention_s ("none",       *)
(*             "recent", "old")                                            *)
(* owner[j]    the daemon that created the job                             *)
(* mem[j]      job.state in the owner's memory                             *)
(* task[j]     where create() and then _execute() are:                     *)
(*    "none"    the id is not in use                                       *)
(*    "create"  create() awaits the put of the pending job                 *)
(*    "start"   the task exists, the put of the running job is pending     *)
(*    "run"     the handler and periodic_flush run                         *)
(*    "final"   in the finally block, the last put is pending              *)
(*    "end"     create() or the task is over                               *)
(*    "dead"    the daemon went away under it                              *)
(* running     the jobs in their owner's _running map                      *)
(* leaders     the daemons whose is_leader is set.  LeaderElection shows   *)
(*             that a daemon may still believe in a leadership it lost.    *)
(* up          the daemons that run                                        *)
(* toMark[n]   what a prune_stuck_running of n has listed and not yet put  *)
(* toDelete[n] what a prune_old of n has listed and not yet deleted        *)
(* late        flushes their sender gave up on, which etcd may still apply *)
(* exits, drops   daemon exits and failures so far                         *)
(***************************************************************************)
EXTENDS Naturals

CONSTANTS
    Node,       \* the daemons
    Job,        \* job ids
    NoNode,     \* owner of an id not in use
    MaxExits,   \* bound on daemon exits
    MaxDrops    \* bound on failed requests, stalls and leadership changes

ASSUME NodeAssumption == NoNode \notin Node
ASSUME BoundAssumption == MaxExits \in Nat /\ MaxDrops \in Nat

VARIABLES stored, owner, mem, task, running, leaders, up,
          toMark, toDelete, late, exits, drops

vars == <<stored, owner, mem, task, running, leaders, up,
          toMark, toDelete, late, exits, drops>>
job == <<owner, mem, task, running>>
daemons == <<leaders, up>>
sweeps == <<toMark, toDelete>>

Terminal == {"done", "failed", "cancelled"}
State == {"pending", "running"} \cup Terminal
Absent == [state |-> "absent", hb |-> "none", age |-> "none"]
Value == [state : State, hb : {"none", "fresh", "stale"},
          age : {"none", "recent", "old"}]

TypeOK ==
    /\ stored \in [Job -> Value \cup {Absent}]
    /\ owner \in [Job -> Node \cup {NoNode}]
    /\ mem \in [Job -> State]
    /\ task \in [Job -> {"none", "create", "start", "run", "final", "end", "dead"}]
    /\ running \in SUBSET Job
    /\ leaders \in SUBSET Node
    /\ up \in SUBSET Node
    /\ toMark \in [Node -> SUBSET Job]
    /\ toDelete \in [Node -> SUBSET Job]
    /\ late \in SUBSET Job
    /\ exits \in 0..MaxExits
    /\ drops \in 0..MaxDrops

Init ==
    /\ stored = [j \in Job |-> Absent]
    /\ owner = [j \in Job |-> NoNode]
    /\ mem = [j \in Job |-> "pending"]
    /\ task = [j \in Job |-> "none"]
    /\ running = {}
    /\ leaders = {}
    /\ up = Node
    /\ toMark = [n \in Node |-> {}]
    /\ toDelete = [n \in Node |-> {}]
    /\ late = {}
    /\ exits = 0 /\ drops = 0

Drop ==
    /\ drops < MaxDrops
    /\ drops' = drops + 1
    /\ UNCHANGED exits

Put(j, value) == stored' = [stored EXCEPT ![j] = value]

\* A put that raises in the client: etcd may have applied it all the same.
PutRaises(j, value) ==
    /\ Drop
    /\ stored' \in {stored, [stored EXCEPT ![j] = value]}

PendingValue == [state |-> "pending", hb |-> "none", age |-> "none"]
RunningValue == [state |-> "running", hb |-> "fresh", age |-> "none"]
FinalValue(j) == [state |-> mem[j], hb |-> "fresh", age |-> "recent"]

-----------------------------------------------------------------------------
(* create *)

\* POST /jobs on a daemon that is the leader.
Create(n, j) ==
    /\ n \in up /\ n \in leaders
    /\ task[j] = "none"
    /\ owner' = [owner EXCEPT ![j] = n]
    /\ task' = [task EXCEPT ![j] = "create"]
    /\ UNCHANGED <<stored, mem, running, daemons, sweeps, late, exits, drops>>

\* The pending job is stored; the executor task is scheduled.  It goes on to
\* set the job running in memory and to put it.
CreatePut(j) ==
    /\ task[j] = "create"
    /\ Put(j, PendingValue)
    /\ task' = [task EXCEPT ![j] = "start"]
    /\ running' = running \cup {j}
    /\ UNCHANGED <<owner, mem, daemons, sweeps, late, exits, drops>>

\* The put raises, and create() with it: no task.
CreateRaise(j) ==
    /\ task[j] = "create"
    /\ PutRaises(j, PendingValue)
    /\ task' = [task EXCEPT ![j] = "end"]
    /\ UNCHANGED <<owner, mem, running, daemons, sweeps, late>>

-----------------------------------------------------------------------------
(* _execute *)

StartPut(j) ==
    /\ task[j] = "start"
    /\ Put(j, RunningValue)
    /\ mem' = [mem EXCEPT ![j] = "running"]
    /\ task' = [task EXCEPT ![j] = "run"]
    /\ UNCHANGED <<owner, running, daemons, sweeps, late, exits, drops>>

\* This put is outside the try: when it raises the task is over, and neither
\* the final put nor the pop from _running happens.
StartRaise(j) ==
    /\ task[j] = "start"
    /\ PutRaises(j, RunningValue)
    /\ mem' = [mem EXCEPT ![j] = "running"]
    /\ task' = [task EXCEPT ![j] = "end"]
    /\ UNCHANGED <<owner, running, daemons, sweeps, late>>

\* periodic_flush: a new heartbeat, and the whole job again.
Flush(j) ==
    /\ task[j] = "run"
    /\ Put(j, RunningValue)
    /\ UNCHANGED <<job, daemons, sweeps, late, exits, drops>>

\* periodic_flush gives up on a put that may still be on its way, or is about
\* to be cancelled in it.
FlushRaise(j) ==
    /\ task[j] = "run"
    /\ Drop
    /\ late' = late \cup {j}
    /\ UNCHANGED <<stored, job, daemons, sweeps>>

\* etcd applies such a put after all, or it is lost.
LateFlush(j) ==
    /\ j \in late
    /\ late' = late \ {j}
    /\ stored' \in {stored, [stored EXCEPT ![j] = RunningValue]}
    /\ UNCHANGED <<job, daemons, sweeps, exits, drops>>

\* The handler returns or raises; the flusher is cancelled.
HandlerEnd(j) ==
    /\ task[j] = "run"
    /\ \E s \in {"done", "failed"} : mem' = [mem EXCEPT ![j] = s]
    /\ task' = [task EXCEPT ![j] = "final"]
    /\ UNCHANGED <<stored, owner, running, daemons, sweeps, late, exits, drops>>

\* The last put of the finally block, and the pop from _running.
FinalPut(j) ==
    /\ task[j] = "final"
    /\ Put(j, FinalValue(j))
    /\ task' = [task EXCEPT ![j] = "end"]
    /\ running' = running \ {j}
    /\ UNCHANGED <<owner, mem, daemons, sweeps, late, exits, drops>>

\* The last put raises; _execute logs it.
FinalRaise(j) ==
    /\ task[j] = "final"
    /\ PutRaises(j, FinalValue(j))
    /\ task' = [task EXCEPT ![j] = "end"]
    /\ running' = running \ {j}
    /\ UNCHANGED <<owner, mem, daemons, sweeps, late>>

-----------------------------------------------------------------------------
(* cancel: the CancelledError lands where the task awaits *)

\* Before the try: the task ends as if the put had raised.
CancelStart(j) ==
    /\ j \in running /\ task[j] = "start"
    /\ task' = [task EXCEPT ![j] = "end"]
    /\ stored' \in {stored, [stored EXCEPT ![j] = RunningValue]}
    /\ UNCHANGED <<owner, mem, running, daemons, sweeps, late, exits, drops>>

\* Faulty variant: a state nobody else knows.
CancelRunMisspelt(j) ==
    /\ j \in running /\ task[j] = "run"
    /\ mem' = [mem EXCEPT ![j] = "canceled"]
    /\ task' = [task EXCEPT ![j] = "final"]
    /\ UNCHANGED <<stored, owner, running, daemons, sweeps, late, exits, drops>>

\* In the handler.
CancelRun(j) ==
    /\ j \in running /\ task[j] = "run"
    /\ mem' = [mem EXCEPT ![j] = "cancelled"]
    /\ task' = [task EXCEPT ![j] = "final"]
    /\ UNCHANGED <<stored, owner, running, daemons, sweeps, late, exits, drops>>

\* In the last put: "except Exception" does not catch it, the put may or may
\* not have been applied, and the pop from _running is skipped.
CancelFinal(j) ==
    /\ j \in running /\ task[j] = "final"
    /\ task' = [task EXCEPT ![j] = "end"]
    /\ stored' \in {stored, [stored EXCEPT ![j] = FinalValue(j)]}
    /\ UNCHANGED <<owner, mem, running, daemons, sweeps, late, exits, drops>>

-----------------------------------------------------------------------------
(* prune_stuck_running and prune_old, gated on is_leader when they begin *)

\* Faulty variants: the heartbeat is not looked at; only a missing one counts.
IsStuckAnyRunning(v) == v.state = "running"
IsStuckNoHeartbeat(v) == v.state = "running" /\ v.hb = "none"

IsStuck(v) == v.state = "running" /\ v.hb \in {"none", "stale"}

\* list_jobs: what is stuck now will be marked, however long that takes.
SweepList(n) ==
    /\ n \in up /\ n \in leaders
    /\ \E j \in Job \ toMark[n] : IsStuck(stored[j])
    /\ toMark' = [toMark EXCEPT ![n] = @ \cup {j \in Job : IsStuck(stored[j])}]
    /\ UNCHANGED <<stored, job, daemons, toDelete, late, exits, drops>>

\* Faulty variant: the sweep marks the job cancelled.
SweepMarkCancelled(n, j) ==
    /\ j \in toMark[n]
    /\ Put(j, [state |-> "cancelled", hb |-> "stale", age |-> "recent"])
    /\ toMark' = [toMark EXCEPT ![n] = @ \ {j}]
    /\ UNCHANGED <<job, daemons, toDelete, late, exits, drops>>

\* The listed job, marked failed, is put over whatever is there.
SweepMark(n, j) ==
    /\ j \in toMark[n]
    /\ Put(j, [state |-> "failed", hb |-> "stale", age |-> "recent"])
    /\ toMark' = [toMark EXCEPT ![n] = @ \ {j}]
    /\ UNCHANGED <<job, daemons, toDelete, late, exits, drops>>

\* The put raises; the sweep logs it and goes on.
SweepRaise(n, j) ==
    /\ j \in toMark[n]
    /\ PutRaises(j, [state |-> "failed", hb |-> "stale", age |-> "recent"])
    /\ toMark' = [toMark EXCEPT ![n] = @ \ {j}]
    /\ UNCHANGED <<job, daemons, toDelete, late>>

\* Faulty variants: a missing finished_at counts as old; only done jobs go.
IsExpiredUnfinished(v) == v # Absent /\ v.age \in {"none", "old"}
IsExpiredOnlyDone(v) == v.state = "done" /\ v.age = "old"

IsExpired(v) == v.state \in Terminal /\ v.age = "old"

PruneList(n) ==
    /\ n \in up /\ n \in leaders
    /\ \E j \in Job \ toDelete[n] : IsExpired(stored[j])
    /\ toDelete' = [toDelete EXCEPT ![n] = @ \cup {j \in Job : IsExpired(stored[j])}]
    /\ UNCHANGED <<stored, job, daemons, toMark, late, exits, drops>>

PruneDelete(n, j) ==
    /\ j \in toDelete[n]
    /\ Put(j, Absent)
    /\ toDelete' = [toDelete EXCEPT ![n] = @ \ {j}]
    /\ UNCHANGED <<job, daemons, toMark, late, exits, drops>>

\* The delete raises; prune_old logs it and goes on.
PruneRaise(n, j) ==
    /\ j \in toDelete[n]
    /\ PutRaises(j, Absent)
    /\ toDelete' = [toDelete EXCEPT ![n] = @ \ {j}]
    /\ UNCHANGED <<job, daemons, toMark, late>>

-----------------------------------------------------------------------------
(* Time, leadership, processes *)

Executing(j) == task[j] \in {"start", "run", "final"}

\* The stored heartbeat is older than the timeout.  While the owner executes
\* the job that takes a stall of its event loop, of its puts, or a clock that
\* differs: the age is the sweeper's clock minus the owner's.
HeartbeatAges(j) ==
    /\ stored[j].hb = "fresh"
    /\ IF Executing(j) THEN Drop ELSE UNCHANGED <<exits, drops>>
    /\ stored' = [stored EXCEPT ![j].hb = "stale"]
    /\ UNCHANGED <<job, daemons, sweeps, late>>

\* The retention window of a finished job passes.  The code only compares times
\* (jobs.py 240-246); that no execution, no sweep and no late flush of the job
\* lasts as long as the window, days, is an assumption.
RetentionPasses(j) ==
    /\ stored[j].age = "recent"
    /\ ~Executing(j) /\ j \notin late
    /\ \A n \in Node : j \notin toMark[n]
    /\ stored' = [stored EXCEPT ![j].age = "old"]
    /\ UNCHANGED <<job, daemons, sweeps, late, exits, drops>>

\* A second leader while one still believes in its leadership is a failure.
BecomeLeader(n) ==
    /\ n \in up \ leaders
    /\ IF leaders = {} THEN UNCHANGED <<exits, drops>> ELSE Drop
    /\ leaders' = leaders \cup {n}
    /\ UNCHANGED <<stored, job, up, sweeps, late>>

LoseLeadership(n) ==
    /\ n \in leaders
    /\ Drop
    /\ leaders' = leaders \ {n}
    /\ UNCHANGED <<stored, job, up, sweeps, late>>

\* The daemon is killed or shut down: its tasks and sweeps go with it.  A
\* shutdown closes the etcd client before the job tasks are cancelled, so
\* their final puts raise.
ExitDaemon(n) ==
    /\ n \in up
    /\ exits < MaxExits
    /\ exits' = exits + 1
    /\ up' = up \ {n}
    /\ leaders' = leaders \ {n}
    /\ task' = [j \in Job |->
                  IF owner[j] = n /\ task[j] # "end" THEN "dead" ELSE task[j]]
    /\ running' = {j \in running : owner[j] # n}
    /\ toMark' = [toMark EXCEPT ![n] = {}]
    /\ toDelete' = [toDelete EXCEPT ![n] = {}]
    /\ UNCHANGED <<stored, owner, mem, late, drops>>

Restart(n) ==
    /\ n \in Node \ up
    /\ up' = up \cup {n}
    /\ UNCHANGED <<stored, job, leaders, sweeps, late, exits, drops>>

-----------------------------------------------------------------------------
\* What the tasks of the daemons do when nothing fails.
Step(j) ==
    CreatePut(j) \/ StartPut(j) \/ Flush(j) \/ HandlerEnd(j) \/ FinalPut(j)

Fail(j) ==
    CreateRaise(j) \/ StartRaise(j) \/ FlushRaise(j) \/ FinalRaise(j)

Cancel(j) == CancelStart(j) \/ CancelRun(j) \/ CancelFinal(j)

Next ==
    \/ \E j \in Job :
          \/ Step(j) \/ Fail(j) \/ Cancel(j) \/ LateFlush(j)
          \/ HeartbeatAges(j) \/ RetentionPasses(j)
    \/ \E n \in Node :
          \/ SweepList(n) \/ PruneList(n)
          \/ BecomeLeader(n) \/ LoseLeadership(n) \/ ExitDaemon(n) \/ Restart(n)
    \/ \E n \in Node, j \in Job :
          \/ Create(n, j) \/ SweepMark(n, j) \/ SweepRaise(n, j)
          \/ PruneDelete(n, j) \/ PruneRaise(n, j)

Spec == Init /\ [][Next]_vars

\* Tasks go on, handlers end (every worker bounds its waits), time passes, a
\* leader is found while there is none, and a leader's sweeps tick.
Fairness ==
    /\ \A j \in Job :
          /\ WF_vars(CreatePut(j)) /\ WF_vars(StartPut(j))
          /\ WF_vars(HandlerEnd(j)) /\ WF_vars(FinalPut(j))
          /\ WF_vars(LateFlush(j))
          /\ WF_vars(~Executing(j) /\ HeartbeatAges(j))
          /\ WF_vars(RetentionPasses(j))
    /\ WF_vars(leaders = {} /\ \E n \in Node : BecomeLeader(n))
    /\ \A n \in Node :
          /\ WF_vars(SweepList(n)) /\ WF_vars(PruneList(n))
          /\ \A j \in Job : WF_vars(SweepMark(n, j)) /\ WF_vars(PruneDelete(n, j))

FairSpec == Spec /\ Fairness

-----------------------------------------------------------------------------
(* Properties *)

IsTerminal(j) == stored[j].state \in Terminal

\* What etcd reports as done or cancelled is what happened to the handler
\* (_execute, jobs.py 367-379): no sweep, flush or retention step of any
\* daemon invents these two outcomes.
OutcomeIsTrue ==
    \A j \in Job : stored[j].state \in {"done", "cancelled"} => mem[j] = stored[j].state

\* While no request is lost or stalled, a terminal state is final: neither a
\* sweep of any leader nor the owner overwrites it, whatever crashes; it can
\* only be pruned, or age (prune_stuck_running's staleness test, jobs.py
\* 289-296, against the heartbeat of the first put, 360-361).
TerminalIsFinalUnlessDrops ==
    [][ \A j \in Job :
          IsTerminal(j) /\ drops' = 0
             => stored'[j].state \in {stored[j].state, "absent"} ]_vars

\* The retention deletes only what has terminated (prune_old, jobs.py
\* 242-246), although it decides on a list it read earlier.
RetentionSparesActive ==
    [][ \A j \in Job :
          stored[j] # Absent /\ stored'[j] = Absent => IsTerminal(j) ]_vars

\* QA finding F5.2 (jobs.py 73-78, 263-273): a job that nobody executes any
\* more, because its daemon died or its task ended without telling etcd, does
\* not stay running while some daemon is up to lead.
OrphanIsSwept ==
    \A j \in Job :
       (stored[j].state = "running" /\ task[j] \in {"end", "dead"})
          ~> (stored[j].state # "running" \/ up = {})

\* Every finished job eventually leaves etcd (prune_old).
FinishedIsPruned ==
    \A j \in Job : IsTerminal(j) ~> (stored[j] = Absent \/ up = {})

=============================================================================
