----------------------------- MODULE JobsProofs -----------------------------
(***************************************************************************)
(* Theorems about Jobs, for any set of daemons and of jobs and any number  *)
(* of exits and failures.                                                  *)
(*                                                                         *)
(* A job's value in etcd is overwritten without comparison by its owner,   *)
(* by every sweep and by late flushes, so what it says is true only        *)
(* because of the order in which these can happen.  The invariant says     *)
(* when a job is settled, i.e. its owner will not write it again, and      *)
(* relates what etcd and the lists of the sweeps hold to that.             *)
(***************************************************************************)
EXTENDS Jobs, TLAPS

\* The owner is done with the job: create() or the task ended, or the daemon
\* went away under it.
Settled(j) == task[j] \in {"end", "dead"}

\* A job that create() has not put yet is nowhere.
Unborn ==
    \A j \in Job :
        task[j] \in {"none", "create"} =>
            /\ stored[j] = Absent /\ j \notin late
            /\ \A n \in Node : j \notin toMark[n]

\* Only the last put of the owner reports success or cancellation.
OutcomeSettled ==
    \A j \in Job :
        stored[j].state \in {"done", "cancelled"} =>
            Settled(j) /\ mem[j] = stored[j].state

\* A job whose retention is over, or which a retention has listed, is written
\* neither by its owner nor by a late flush any more.
Retained ==
    \A j \in Job :
        /\ stored[j].age = "old" => Settled(j) /\ j \notin late
        /\ \A n \in Node :
              j \in toDelete[n] =>
                 /\ Settled(j) /\ j \notin late
                 /\ stored[j] = Absent \/ IsTerminal(j)

\* While nothing was lost or stalled, a sweep lists only jobs that are settled
\* and that nobody else gave an outcome.
Undisturbed ==
    drops = 0 =>
        /\ late = {}
        /\ \A j \in Job :
              /\ IsTerminal(j) => Settled(j)
              /\ stored[j].state = "running" /\ stored[j].hb # "fresh" => Settled(j)
              /\ \A n \in Node :
                    j \in toMark[n] =>
                       /\ Settled(j)
                       /\ stored[j].state \in {"running", "failed", "absent"}

IInv == TypeOK /\ Unborn /\ OutcomeSettled /\ Retained /\ Undisturbed

-----------------------------------------------------------------------------
(* One step of the specification *)

\* One step of the specification keeps the type invariant.
LEMMA TypeStep == TypeOK /\ [Next]_vars => TypeOK'
  <1> SUFFICES ASSUME TypeOK, [Next]_vars
               PROVE  TypeOK'
    OBVIOUS
  <1> USE NodeAssumption, BoundAssumption
  <1>1. ASSUME NEW j \in Job, CreatePut(j) PROVE TypeOK'
    BY <1>1 DEF TypeOK, Value, State, Terminal, Absent, CreatePut, Put,
       PendingValue, job, daemons, sweeps
  <1>2. ASSUME NEW j \in Job, StartPut(j) PROVE TypeOK'
    BY <1>2 DEF TypeOK, Value, State, Terminal, Absent, StartPut, Put,
       RunningValue, job, daemons, sweeps
  <1>3. ASSUME NEW j \in Job, Flush(j) PROVE TypeOK'
    BY <1>3 DEF TypeOK, Value, State, Terminal, Absent, Flush, Put,
       RunningValue, job, daemons, sweeps
  <1>4. ASSUME NEW j \in Job, HandlerEnd(j) PROVE TypeOK'
    BY <1>4 DEF TypeOK, Value, State, Terminal, Absent, HandlerEnd, job,
       daemons, sweeps
  <1>5. ASSUME NEW j \in Job, FinalPut(j) PROVE TypeOK'
    BY <1>5 DEF TypeOK, Value, State, Terminal, Absent, FinalPut, Put,
       FinalValue, job, daemons, sweeps
  <1>6. ASSUME NEW j \in Job, CreateRaise(j) PROVE TypeOK'
    BY <1>6 DEF TypeOK, Value, State, Terminal, Absent, CreateRaise, PutRaises,
       Drop, PendingValue, job, daemons, sweeps
  <1>7. ASSUME NEW j \in Job, StartRaise(j) PROVE TypeOK'
    BY <1>7 DEF TypeOK, Value, State, Terminal, Absent, StartRaise, PutRaises,
       Drop, RunningValue, job, daemons, sweeps
  <1>8. ASSUME NEW j \in Job, FlushRaise(j) PROVE TypeOK'
    BY <1>8 DEF TypeOK, Value, State, Terminal, Absent, FlushRaise, Drop, job,
       daemons, sweeps
  <1>9. ASSUME NEW j \in Job, FinalRaise(j) PROVE TypeOK'
    BY <1>9 DEF TypeOK, Value, State, Terminal, Absent, FinalRaise, PutRaises,
       Drop, FinalValue, job, daemons, sweeps
  <1>10. ASSUME NEW j \in Job, CancelStart(j) PROVE TypeOK'
    BY <1>10 DEF TypeOK, Value, State, Terminal, Absent, CancelStart,
       RunningValue, job, daemons, sweeps
  <1>11. ASSUME NEW j \in Job, CancelRun(j) PROVE TypeOK'
    BY <1>11 DEF TypeOK, Value, State, Terminal, Absent, CancelRun, job,
       daemons, sweeps
  <1>12. ASSUME NEW j \in Job, CancelFinal(j) PROVE TypeOK'
    BY <1>12 DEF TypeOK, Value, State, Terminal, Absent, CancelFinal,
       FinalValue, job, daemons, sweeps
  <1>13. ASSUME NEW j \in Job, LateFlush(j) PROVE TypeOK'
    BY <1>13 DEF TypeOK, Value, State, Terminal, Absent, LateFlush,
       RunningValue, job, daemons, sweeps
  <1>14. ASSUME NEW j \in Job, HeartbeatAges(j) PROVE TypeOK'
    BY <1>14 DEF TypeOK, Value, State, Terminal, Absent, HeartbeatAges, Drop,
       Executing, job, daemons, sweeps
  <1>15. ASSUME NEW j \in Job, RetentionPasses(j) PROVE TypeOK'
    BY <1>15 DEF TypeOK, Value, State, Terminal, Absent, RetentionPasses,
       Executing, job, daemons, sweeps
  <1>16. ASSUME NEW n \in Node, SweepList(n) PROVE TypeOK'
    BY <1>16 DEF TypeOK, Value, State, Terminal, Absent, SweepList, IsStuck,
       job, daemons, sweeps
  <1>17. ASSUME NEW n \in Node, PruneList(n) PROVE TypeOK'
    BY <1>17 DEF TypeOK, Value, State, Terminal, Absent, PruneList, IsExpired,
       job, daemons, sweeps
  <1>18. ASSUME NEW n \in Node, BecomeLeader(n) PROVE TypeOK'
    BY <1>18 DEF TypeOK, Value, State, Terminal, Absent, BecomeLeader, Drop,
       job, daemons, sweeps
  <1>19. ASSUME NEW n \in Node, LoseLeadership(n) PROVE TypeOK'
    BY <1>19 DEF TypeOK, Value, State, Terminal, Absent, LoseLeadership, Drop,
       job, daemons, sweeps
  <1>20. ASSUME NEW n \in Node, ExitDaemon(n) PROVE TypeOK'
    BY <1>20 DEF TypeOK, Value, State, Terminal, Absent, ExitDaemon, job,
       daemons, sweeps
  <1>21. ASSUME NEW n \in Node, Restart(n) PROVE TypeOK'
    BY <1>21 DEF TypeOK, Value, State, Terminal, Absent, Restart, job, daemons,
       sweeps
  <1>22. ASSUME NEW n \in Node, NEW j \in Job, Create(n, j) PROVE TypeOK'
    BY <1>22 DEF TypeOK, Value, State, Terminal, Absent, Create, job, daemons,
       sweeps
  <1>23. ASSUME NEW n \in Node, NEW j \in Job, SweepMark(n, j) PROVE TypeOK'
    BY <1>23 DEF TypeOK, Value, State, Terminal, Absent, SweepMark, Put, job,
       daemons, sweeps
  <1>24. ASSUME NEW n \in Node, NEW j \in Job, SweepRaise(n, j) PROVE TypeOK'
    BY <1>24 DEF TypeOK, Value, State, Terminal, Absent, SweepRaise, PutRaises,
       Drop, job, daemons, sweeps
  <1>25. ASSUME NEW n \in Node, NEW j \in Job, PruneDelete(n, j) PROVE TypeOK'
    BY <1>25 DEF TypeOK, Value, State, Terminal, Absent, PruneDelete, Put, job,
       daemons, sweeps
  <1>26. ASSUME NEW n \in Node, NEW j \in Job, PruneRaise(n, j) PROVE TypeOK'
    BY <1>26 DEF TypeOK, Value, State, Terminal, Absent, PruneRaise, PutRaises,
       Drop, job, daemons, sweeps
  <1>27. CASE UNCHANGED vars
    BY <1>27 DEF TypeOK, Value, State, Terminal, Absent, vars
  <1>. QED
    BY <1>1, <1>2, <1>3, <1>4, <1>5, <1>6, <1>7, <1>8, <1>9, <1>10, <1>11,
       <1>12, <1>13, <1>14, <1>15, <1>16, <1>17, <1>18, <1>19, <1>20, <1>21,
       <1>22, <1>23, <1>24, <1>25, <1>26, <1>27 DEF Next, Step, Fail, Cancel

\* Nothing is written, listed or late before create() has put the job.
LEMMA UnbornStep == TypeOK /\ Unborn /\ [Next]_vars => Unborn'
  <1> SUFFICES ASSUME TypeOK, Unborn, [Next]_vars
               PROVE  Unborn'
    OBVIOUS
  <1>1. ASSUME NEW j \in Job, CreatePut(j) PROVE Unborn'
    BY <1>1 DEF TypeOK, Unborn, Absent, CreatePut, Put, PendingValue, job,
       daemons, sweeps
  <1>2. ASSUME NEW j \in Job, StartPut(j) PROVE Unborn'
    BY <1>2 DEF TypeOK, Unborn, Absent, StartPut, Put, RunningValue, job,
       daemons, sweeps
  <1>3. ASSUME NEW j \in Job, Flush(j) PROVE Unborn'
    BY <1>3 DEF TypeOK, Unborn, Absent, Flush, Put, RunningValue, job, daemons,
       sweeps
  <1>4. ASSUME NEW j \in Job, HandlerEnd(j) PROVE Unborn'
    BY <1>4 DEF TypeOK, Unborn, Absent, HandlerEnd, job, daemons, sweeps
  <1>5. ASSUME NEW j \in Job, FinalPut(j) PROVE Unborn'
    BY <1>5 DEF TypeOK, Unborn, Absent, FinalPut, Put, FinalValue, job, daemons,
       sweeps
  <1>6. ASSUME NEW j \in Job, CreateRaise(j) PROVE Unborn'
    BY <1>6 DEF TypeOK, Unborn, Absent, CreateRaise, PutRaises, Drop,
       PendingValue, job, daemons, sweeps
  <1>7. ASSUME NEW j \in Job, StartRaise(j) PROVE Unborn'
    BY <1>7 DEF TypeOK, Unborn, Absent, StartRaise, PutRaises, Drop,
       RunningValue, job, daemons, sweeps
  <1>8. ASSUME NEW j \in Job, FlushRaise(j) PROVE Unborn'
    BY <1>8 DEF TypeOK, Unborn, Absent, FlushRaise, Drop, job, daemons, sweeps
  <1>9. ASSUME NEW j \in Job, FinalRaise(j) PROVE Unborn'
    BY <1>9 DEF TypeOK, Unborn, Absent, FinalRaise, PutRaises, Drop, FinalValue,
       job, daemons, sweeps
  <1>10. ASSUME NEW j \in Job, CancelStart(j) PROVE Unborn'
    BY <1>10 DEF TypeOK, Unborn, Absent, CancelStart, RunningValue, job,
       daemons, sweeps
  <1>11. ASSUME NEW j \in Job, CancelRun(j) PROVE Unborn'
    BY <1>11 DEF TypeOK, Unborn, Absent, CancelRun, job, daemons, sweeps
  <1>12. ASSUME NEW j \in Job, CancelFinal(j) PROVE Unborn'
    BY <1>12 DEF TypeOK, Unborn, Absent, CancelFinal, FinalValue, job, daemons,
       sweeps
  <1>13. ASSUME NEW j \in Job, LateFlush(j) PROVE Unborn'
    BY <1>13 DEF TypeOK, Unborn, Absent, LateFlush, RunningValue, job, daemons,
       sweeps
  <1>14. ASSUME NEW j \in Job, HeartbeatAges(j) PROVE Unborn'
    BY <1>14 DEF TypeOK, Unborn, Absent, HeartbeatAges, Drop, Executing, job,
       daemons, sweeps
  <1>15. ASSUME NEW j \in Job, RetentionPasses(j) PROVE Unborn'
    BY <1>15 DEF TypeOK, Unborn, Absent, RetentionPasses, Executing, job,
       daemons, sweeps
  <1>16. ASSUME NEW n \in Node, SweepList(n) PROVE Unborn'
    BY <1>16 DEF TypeOK, Unborn, Absent, SweepList, IsStuck, job, daemons,
       sweeps
  <1>17. ASSUME NEW n \in Node, PruneList(n) PROVE Unborn'
    BY <1>17 DEF TypeOK, Unborn, Absent, PruneList, IsExpired, job, daemons,
       sweeps
  <1>18. ASSUME NEW n \in Node, BecomeLeader(n) PROVE Unborn'
    BY <1>18 DEF TypeOK, Unborn, Absent, BecomeLeader, Drop, job, daemons,
       sweeps
  <1>19. ASSUME NEW n \in Node, LoseLeadership(n) PROVE Unborn'
    BY <1>19 DEF TypeOK, Unborn, Absent, LoseLeadership, Drop, job, daemons,
       sweeps
  <1>20. ASSUME NEW n \in Node, ExitDaemon(n) PROVE Unborn'
    BY <1>20 DEF TypeOK, Unborn, Absent, ExitDaemon, job, daemons, sweeps
  <1>21. ASSUME NEW n \in Node, Restart(n) PROVE Unborn'
    BY <1>21 DEF TypeOK, Unborn, Absent, Restart, job, daemons, sweeps
  <1>22. ASSUME NEW n \in Node, NEW j \in Job, Create(n, j) PROVE Unborn'
    BY <1>22 DEF TypeOK, Unborn, Absent, Create, job, daemons, sweeps
  <1>23. ASSUME NEW n \in Node, NEW j \in Job, SweepMark(n, j) PROVE Unborn'
    BY <1>23 DEF TypeOK, Unborn, Absent, SweepMark, Put, job, daemons, sweeps
  <1>24. ASSUME NEW n \in Node, NEW j \in Job, SweepRaise(n, j) PROVE Unborn'
    BY <1>24 DEF TypeOK, Unborn, Absent, SweepRaise, PutRaises, Drop, job,
       daemons, sweeps
  <1>25. ASSUME NEW n \in Node, NEW j \in Job, PruneDelete(n, j) PROVE Unborn'
    BY <1>25 DEF TypeOK, Unborn, Absent, PruneDelete, Put, job, daemons, sweeps
  <1>26. ASSUME NEW n \in Node, NEW j \in Job, PruneRaise(n, j) PROVE Unborn'
    BY <1>26 DEF TypeOK, Unborn, Absent, PruneRaise, PutRaises, Drop, job,
       daemons, sweeps
  <1>27. CASE UNCHANGED vars
    BY <1>27 DEF TypeOK, Unborn, Absent, vars
  <1>. QED
    BY <1>1, <1>2, <1>3, <1>4, <1>5, <1>6, <1>7, <1>8, <1>9, <1>10, <1>11,
       <1>12, <1>13, <1>14, <1>15, <1>16, <1>17, <1>18, <1>19, <1>20, <1>21,
       <1>22, <1>23, <1>24, <1>25, <1>26, <1>27 DEF Next, Step, Fail, Cancel

\* No step invents an outcome.
LEMMA OutcomeStep == TypeOK /\ Unborn /\ OutcomeSettled /\ [Next]_vars => OutcomeSettled'
  <1> SUFFICES ASSUME TypeOK, Unborn, OutcomeSettled, [Next]_vars
               PROVE  OutcomeSettled'
    OBVIOUS
  <1>1. ASSUME NEW j \in Job, CreatePut(j) PROVE OutcomeSettled'
    BY <1>1 DEF TypeOK, Unborn, OutcomeSettled, Settled, Absent, CreatePut, Put,
       PendingValue, job, daemons, sweeps
  <1>2. ASSUME NEW j \in Job, StartPut(j) PROVE OutcomeSettled'
    BY <1>2 DEF TypeOK, Unborn, OutcomeSettled, Settled, Absent, StartPut, Put,
       RunningValue, job, daemons, sweeps
  <1>3. ASSUME NEW j \in Job, Flush(j) PROVE OutcomeSettled'
    BY <1>3 DEF TypeOK, Unborn, OutcomeSettled, Settled, Absent, Flush, Put,
       RunningValue, job, daemons, sweeps
  <1>4. ASSUME NEW j \in Job, HandlerEnd(j) PROVE OutcomeSettled'
    BY <1>4 DEF TypeOK, Unborn, OutcomeSettled, Settled, Absent, HandlerEnd,
       job, daemons, sweeps
  <1>5. ASSUME NEW j \in Job, FinalPut(j) PROVE OutcomeSettled'
    BY <1>5 DEF TypeOK, Unborn, OutcomeSettled, Settled, Absent, FinalPut, Put,
       FinalValue, job, daemons, sweeps
  <1>6. ASSUME NEW j \in Job, CreateRaise(j) PROVE OutcomeSettled'
    BY <1>6 DEF TypeOK, Unborn, OutcomeSettled, Settled, Absent, CreateRaise,
       PutRaises, Drop, PendingValue, job, daemons, sweeps
  <1>7. ASSUME NEW j \in Job, StartRaise(j) PROVE OutcomeSettled'
    BY <1>7 DEF TypeOK, Unborn, OutcomeSettled, Settled, Absent, StartRaise,
       PutRaises, Drop, RunningValue, job, daemons, sweeps
  <1>8. ASSUME NEW j \in Job, FlushRaise(j) PROVE OutcomeSettled'
    BY <1>8 DEF TypeOK, Unborn, OutcomeSettled, Settled, Absent, FlushRaise,
       Drop, job, daemons, sweeps
  <1>9. ASSUME NEW j \in Job, FinalRaise(j) PROVE OutcomeSettled'
    BY <1>9 DEF TypeOK, Unborn, OutcomeSettled, Settled, Absent, FinalRaise,
       PutRaises, Drop, FinalValue, job, daemons, sweeps
  <1>10. ASSUME NEW j \in Job, CancelStart(j) PROVE OutcomeSettled'
    BY <1>10 DEF TypeOK, Unborn, OutcomeSettled, Settled, Absent, CancelStart,
       RunningValue, job, daemons, sweeps
  <1>11. ASSUME NEW j \in Job, CancelRun(j) PROVE OutcomeSettled'
    BY <1>11 DEF TypeOK, Unborn, OutcomeSettled, Settled, Absent, CancelRun,
       job, daemons, sweeps
  <1>12. ASSUME NEW j \in Job, CancelFinal(j) PROVE OutcomeSettled'
    BY <1>12 DEF TypeOK, Unborn, OutcomeSettled, Settled, Absent, CancelFinal,
       FinalValue, job, daemons, sweeps
  <1>13. ASSUME NEW j \in Job, LateFlush(j) PROVE OutcomeSettled'
    BY <1>13 DEF TypeOK, Unborn, OutcomeSettled, Settled, Absent, LateFlush,
       RunningValue, job, daemons, sweeps
  <1>14. ASSUME NEW j \in Job, HeartbeatAges(j) PROVE OutcomeSettled'
    BY <1>14 DEF TypeOK, Unborn, OutcomeSettled, Settled, Absent, HeartbeatAges,
       Drop, Executing, job, daemons, sweeps
  <1>15. ASSUME NEW j \in Job, RetentionPasses(j) PROVE OutcomeSettled'
    BY <1>15 DEF TypeOK, Unborn, OutcomeSettled, Settled, Absent,
       RetentionPasses, Executing, job, daemons, sweeps
  <1>16. ASSUME NEW n \in Node, SweepList(n) PROVE OutcomeSettled'
    BY <1>16 DEF TypeOK, Unborn, OutcomeSettled, Settled, Absent, SweepList,
       IsStuck, job, daemons, sweeps
  <1>17. ASSUME NEW n \in Node, PruneList(n) PROVE OutcomeSettled'
    BY <1>17 DEF TypeOK, Unborn, OutcomeSettled, Settled, Absent, PruneList,
       IsExpired, job, daemons, sweeps
  <1>18. ASSUME NEW n \in Node, BecomeLeader(n) PROVE OutcomeSettled'
    BY <1>18 DEF TypeOK, Unborn, OutcomeSettled, Settled, Absent, BecomeLeader,
       Drop, job, daemons, sweeps
  <1>19. ASSUME NEW n \in Node, LoseLeadership(n) PROVE OutcomeSettled'
    BY <1>19 DEF TypeOK, Unborn, OutcomeSettled, Settled, Absent,
       LoseLeadership, Drop, job, daemons, sweeps
  <1>20. ASSUME NEW n \in Node, ExitDaemon(n) PROVE OutcomeSettled'
    BY <1>20 DEF TypeOK, Unborn, OutcomeSettled, Settled, Absent, ExitDaemon,
       job, daemons, sweeps
  <1>21. ASSUME NEW n \in Node, Restart(n) PROVE OutcomeSettled'
    BY <1>21 DEF TypeOK, Unborn, OutcomeSettled, Settled, Absent, Restart, job,
       daemons, sweeps
  <1>22. ASSUME NEW n \in Node, NEW j \in Job, Create(n, j) PROVE OutcomeSettled'
    BY <1>22 DEF TypeOK, Unborn, OutcomeSettled, Settled, Absent, Create, job,
       daemons, sweeps
  <1>23. ASSUME NEW n \in Node, NEW j \in Job, SweepMark(n, j) PROVE OutcomeSettled'
    BY <1>23 DEF TypeOK, Unborn, OutcomeSettled, Settled, Absent, SweepMark,
       Put, job, daemons, sweeps
  <1>24. ASSUME NEW n \in Node, NEW j \in Job, SweepRaise(n, j) PROVE OutcomeSettled'
    BY <1>24 DEF TypeOK, Unborn, OutcomeSettled, Settled, Absent, SweepRaise,
       PutRaises, Drop, job, daemons, sweeps
  <1>25. ASSUME NEW n \in Node, NEW j \in Job, PruneDelete(n, j) PROVE OutcomeSettled'
    BY <1>25 DEF TypeOK, Unborn, OutcomeSettled, Settled, Absent, PruneDelete,
       Put, job, daemons, sweeps
  <1>26. ASSUME NEW n \in Node, NEW j \in Job, PruneRaise(n, j) PROVE OutcomeSettled'
    BY <1>26 DEF TypeOK, Unborn, OutcomeSettled, Settled, Absent, PruneRaise,
       PutRaises, Drop, job, daemons, sweeps
  <1>27. CASE UNCHANGED vars
    BY <1>27 DEF TypeOK, Unborn, OutcomeSettled, Settled, Absent, vars
  <1>. QED
    BY <1>1, <1>2, <1>3, <1>4, <1>5, <1>6, <1>7, <1>8, <1>9, <1>10, <1>11,
       <1>12, <1>13, <1>14, <1>15, <1>16, <1>17, <1>18, <1>19, <1>20, <1>21,
       <1>22, <1>23, <1>24, <1>25, <1>26, <1>27 DEF Next, Step, Fail, Cancel

\* What a retention may delete stays deletable.
LEMMA RetainedStep == TypeOK /\ Unborn /\ Retained /\ [Next]_vars => Retained'
  <1> SUFFICES ASSUME TypeOK, Unborn, Retained, [Next]_vars
               PROVE  Retained'
    OBVIOUS
  <1>1. ASSUME NEW j \in Job, CreatePut(j) PROVE Retained'
    BY <1>1 DEF TypeOK, Unborn, Retained, Settled, IsTerminal, Terminal, Absent,
       CreatePut, Put, PendingValue, job, daemons, sweeps
  <1>2. ASSUME NEW j \in Job, StartPut(j) PROVE Retained'
    BY <1>2 DEF TypeOK, Unborn, Retained, Settled, IsTerminal, Terminal, Absent,
       StartPut, Put, RunningValue, job, daemons, sweeps
  <1>3. ASSUME NEW j \in Job, Flush(j) PROVE Retained'
    BY <1>3 DEF TypeOK, Unborn, Retained, Settled, IsTerminal, Terminal, Absent,
       Flush, Put, RunningValue, job, daemons, sweeps
  <1>4. ASSUME NEW j \in Job, HandlerEnd(j) PROVE Retained'
    BY <1>4 DEF TypeOK, Unborn, Retained, Settled, IsTerminal, Terminal, Absent,
       HandlerEnd, job, daemons, sweeps
  <1>5. ASSUME NEW j \in Job, FinalPut(j) PROVE Retained'
    BY <1>5 DEF TypeOK, Unborn, Retained, Settled, IsTerminal, Terminal, Absent,
       FinalPut, Put, FinalValue, job, daemons, sweeps
  <1>6. ASSUME NEW j \in Job, CreateRaise(j) PROVE Retained'
    BY <1>6 DEF TypeOK, Unborn, Retained, Settled, IsTerminal, Terminal, Absent,
       CreateRaise, PutRaises, Drop, PendingValue, job, daemons, sweeps
  <1>7. ASSUME NEW j \in Job, StartRaise(j) PROVE Retained'
    BY <1>7 DEF TypeOK, Unborn, Retained, Settled, IsTerminal, Terminal, Absent,
       StartRaise, PutRaises, Drop, RunningValue, job, daemons, sweeps
  <1>8. ASSUME NEW j \in Job, FlushRaise(j) PROVE Retained'
    BY <1>8 DEF TypeOK, Unborn, Retained, Settled, IsTerminal, Terminal, Absent,
       FlushRaise, Drop, job, daemons, sweeps
  <1>9. ASSUME NEW j \in Job, FinalRaise(j) PROVE Retained'
    BY <1>9 DEF TypeOK, Unborn, Retained, Settled, IsTerminal, Terminal, Absent,
       FinalRaise, PutRaises, Drop, FinalValue, job, daemons, sweeps
  <1>10. ASSUME NEW j \in Job, CancelStart(j) PROVE Retained'
    BY <1>10 DEF TypeOK, Unborn, Retained, Settled, IsTerminal, Terminal,
       Absent, CancelStart, RunningValue, job, daemons, sweeps
  <1>11. ASSUME NEW j \in Job, CancelRun(j) PROVE Retained'
    BY <1>11 DEF TypeOK, Unborn, Retained, Settled, IsTerminal, Terminal,
       Absent, CancelRun, job, daemons, sweeps
  <1>12. ASSUME NEW j \in Job, CancelFinal(j) PROVE Retained'
    BY <1>12 DEF TypeOK, Unborn, Retained, Settled, IsTerminal, Terminal,
       Absent, CancelFinal, FinalValue, job, daemons, sweeps
  <1>13. ASSUME NEW j \in Job, LateFlush(j) PROVE Retained'
    BY <1>13 DEF TypeOK, Unborn, Retained, Settled, IsTerminal, Terminal,
       Absent, LateFlush, RunningValue, job, daemons, sweeps
  <1>14. ASSUME NEW j \in Job, HeartbeatAges(j) PROVE Retained'
    BY <1>14 DEF TypeOK, Unborn, Retained, Settled, IsTerminal, Terminal,
       Absent, HeartbeatAges, Drop, Executing, job, daemons, sweeps
  <1>15. ASSUME NEW j \in Job, RetentionPasses(j) PROVE Retained'
    BY <1>15 DEF TypeOK, Unborn, Retained, Settled, IsTerminal, Terminal,
       Absent, RetentionPasses, Executing, job, daemons, sweeps
  <1>16. ASSUME NEW n \in Node, SweepList(n) PROVE Retained'
    BY <1>16 DEF TypeOK, Unborn, Retained, Settled, IsTerminal, Terminal,
       Absent, SweepList, IsStuck, job, daemons, sweeps
  <1>17. ASSUME NEW n \in Node, PruneList(n) PROVE Retained'
    BY <1>17 DEF TypeOK, Unborn, Retained, Settled, IsTerminal, Terminal,
       Absent, PruneList, IsExpired, job, daemons, sweeps
  <1>18. ASSUME NEW n \in Node, BecomeLeader(n) PROVE Retained'
    BY <1>18 DEF TypeOK, Unborn, Retained, Settled, IsTerminal, Terminal,
       Absent, BecomeLeader, Drop, job, daemons, sweeps
  <1>19. ASSUME NEW n \in Node, LoseLeadership(n) PROVE Retained'
    BY <1>19 DEF TypeOK, Unborn, Retained, Settled, IsTerminal, Terminal,
       Absent, LoseLeadership, Drop, job, daemons, sweeps
  <1>20. ASSUME NEW n \in Node, ExitDaemon(n) PROVE Retained'
    BY <1>20 DEF TypeOK, Unborn, Retained, Settled, IsTerminal, Terminal,
       Absent, ExitDaemon, job, daemons, sweeps
  <1>21. ASSUME NEW n \in Node, Restart(n) PROVE Retained'
    BY <1>21 DEF TypeOK, Unborn, Retained, Settled, IsTerminal, Terminal,
       Absent, Restart, job, daemons, sweeps
  <1>22. ASSUME NEW n \in Node, NEW j \in Job, Create(n, j) PROVE Retained'
    BY <1>22 DEF TypeOK, Unborn, Retained, Settled, IsTerminal, Terminal,
       Absent, Create, job, daemons, sweeps
  <1>23. ASSUME NEW n \in Node, NEW j \in Job, SweepMark(n, j) PROVE Retained'
    BY <1>23 DEF TypeOK, Unborn, Retained, Settled, IsTerminal, Terminal,
       Absent, SweepMark, Put, job, daemons, sweeps
  <1>24. ASSUME NEW n \in Node, NEW j \in Job, SweepRaise(n, j) PROVE Retained'
    BY <1>24 DEF TypeOK, Unborn, Retained, Settled, IsTerminal, Terminal,
       Absent, SweepRaise, PutRaises, Drop, job, daemons, sweeps
  <1>25. ASSUME NEW n \in Node, NEW j \in Job, PruneDelete(n, j) PROVE Retained'
    BY <1>25 DEF TypeOK, Unborn, Retained, Settled, IsTerminal, Terminal,
       Absent, PruneDelete, Put, job, daemons, sweeps
  <1>26. ASSUME NEW n \in Node, NEW j \in Job, PruneRaise(n, j) PROVE Retained'
    BY <1>26 DEF TypeOK, Unborn, Retained, Settled, IsTerminal, Terminal,
       Absent, PruneRaise, PutRaises, Drop, job, daemons, sweeps
  <1>27. CASE UNCHANGED vars
    BY <1>27 DEF TypeOK, Unborn, Retained, Settled, IsTerminal, Terminal,
       Absent, vars
  <1>. QED
    BY <1>1, <1>2, <1>3, <1>4, <1>5, <1>6, <1>7, <1>8, <1>9, <1>10, <1>11,
       <1>12, <1>13, <1>14, <1>15, <1>16, <1>17, <1>18, <1>19, <1>20, <1>21,
       <1>22, <1>23, <1>24, <1>25, <1>26, <1>27 DEF Next, Step, Fail, Cancel

\* Without losses, sweeps and owners keep out of each other's way.
LEMMA UndisturbedStep == TypeOK /\ Unborn /\ Undisturbed /\ [Next]_vars => Undisturbed'
  <1> SUFFICES ASSUME TypeOK, Unborn, Undisturbed, [Next]_vars
               PROVE  Undisturbed'
    OBVIOUS
  <1> USE BoundAssumption
  <1>1. ASSUME NEW j \in Job, CreatePut(j) PROVE Undisturbed'
    BY <1>1 DEF TypeOK, Unborn, Undisturbed, Settled, IsTerminal, Terminal,
       Absent, CreatePut, Put, PendingValue, job, daemons, sweeps
  <1>2. ASSUME NEW j \in Job, StartPut(j) PROVE Undisturbed'
    BY <1>2 DEF TypeOK, Unborn, Undisturbed, Settled, IsTerminal, Terminal,
       Absent, StartPut, Put, RunningValue, job, daemons, sweeps
  <1>3. ASSUME NEW j \in Job, Flush(j) PROVE Undisturbed'
    BY <1>3 DEF TypeOK, Unborn, Undisturbed, Settled, IsTerminal, Terminal,
       Absent, Flush, Put, RunningValue, job, daemons, sweeps
  <1>4. ASSUME NEW j \in Job, HandlerEnd(j) PROVE Undisturbed'
    BY <1>4 DEF TypeOK, Unborn, Undisturbed, Settled, IsTerminal, Terminal,
       Absent, HandlerEnd, job, daemons, sweeps
  <1>5. ASSUME NEW j \in Job, FinalPut(j) PROVE Undisturbed'
    BY <1>5 DEF TypeOK, Unborn, Undisturbed, Settled, IsTerminal, Terminal,
       Absent, FinalPut, Put, FinalValue, job, daemons, sweeps
  <1>6. ASSUME NEW j \in Job, CreateRaise(j) PROVE Undisturbed'
    BY <1>6 DEF TypeOK, Unborn, Undisturbed, Settled, IsTerminal, Terminal,
       Absent, CreateRaise, PutRaises, Drop, PendingValue, job, daemons, sweeps
  <1>7. ASSUME NEW j \in Job, StartRaise(j) PROVE Undisturbed'
    BY <1>7 DEF TypeOK, Unborn, Undisturbed, Settled, IsTerminal, Terminal,
       Absent, StartRaise, PutRaises, Drop, RunningValue, job, daemons, sweeps
  <1>8. ASSUME NEW j \in Job, FlushRaise(j) PROVE Undisturbed'
    BY <1>8 DEF TypeOK, Unborn, Undisturbed, Settled, IsTerminal, Terminal,
       Absent, FlushRaise, Drop, job, daemons, sweeps
  <1>9. ASSUME NEW j \in Job, FinalRaise(j) PROVE Undisturbed'
    BY <1>9 DEF TypeOK, Unborn, Undisturbed, Settled, IsTerminal, Terminal,
       Absent, FinalRaise, PutRaises, Drop, FinalValue, job, daemons, sweeps
  <1>10. ASSUME NEW j \in Job, CancelStart(j) PROVE Undisturbed'
    BY <1>10 DEF TypeOK, Unborn, Undisturbed, Settled, IsTerminal, Terminal,
       Absent, CancelStart, RunningValue, job, daemons, sweeps
  <1>11. ASSUME NEW j \in Job, CancelRun(j) PROVE Undisturbed'
    BY <1>11 DEF TypeOK, Unborn, Undisturbed, Settled, IsTerminal, Terminal,
       Absent, CancelRun, job, daemons, sweeps
  <1>12. ASSUME NEW j \in Job, CancelFinal(j) PROVE Undisturbed'
    BY <1>12 DEF TypeOK, Unborn, Undisturbed, Settled, IsTerminal, Terminal,
       Absent, CancelFinal, FinalValue, job, daemons, sweeps
  <1>13. ASSUME NEW j \in Job, LateFlush(j) PROVE Undisturbed'
    BY <1>13 DEF TypeOK, Unborn, Undisturbed, Settled, IsTerminal, Terminal,
       Absent, LateFlush, RunningValue, job, daemons, sweeps
  <1>14. ASSUME NEW j \in Job, HeartbeatAges(j) PROVE Undisturbed'
    BY <1>14 DEF TypeOK, Unborn, Undisturbed, Settled, IsTerminal, Terminal,
       Absent, HeartbeatAges, Drop, Executing, job, daemons, sweeps
  <1>15. ASSUME NEW j \in Job, RetentionPasses(j) PROVE Undisturbed'
    BY <1>15 DEF TypeOK, Unborn, Undisturbed, Settled, IsTerminal, Terminal,
       Absent, RetentionPasses, Executing, job, daemons, sweeps
  <1>16. ASSUME NEW n \in Node, SweepList(n) PROVE Undisturbed'
    BY <1>16 DEF TypeOK, Unborn, Undisturbed, Settled, IsTerminal, Terminal,
       Absent, SweepList, IsStuck, job, daemons, sweeps
  <1>17. ASSUME NEW n \in Node, PruneList(n) PROVE Undisturbed'
    BY <1>17 DEF TypeOK, Unborn, Undisturbed, Settled, IsTerminal, Terminal,
       Absent, PruneList, IsExpired, job, daemons, sweeps
  <1>18. ASSUME NEW n \in Node, BecomeLeader(n) PROVE Undisturbed'
    BY <1>18 DEF TypeOK, Unborn, Undisturbed, Settled, IsTerminal, Terminal,
       Absent, BecomeLeader, Drop, job, daemons, sweeps
  <1>19. ASSUME NEW n \in Node, LoseLeadership(n) PROVE Undisturbed'
    BY <1>19 DEF TypeOK, Unborn, Undisturbed, Settled, IsTerminal, Terminal,
       Absent, LoseLeadership, Drop, job, daemons, sweeps
  <1>20. ASSUME NEW n \in Node, ExitDaemon(n) PROVE Undisturbed'
    BY <1>20 DEF TypeOK, Unborn, Undisturbed, Settled, IsTerminal, Terminal,
       Absent, ExitDaemon, job, daemons, sweeps
  <1>21. ASSUME NEW n \in Node, Restart(n) PROVE Undisturbed'
    BY <1>21 DEF TypeOK, Unborn, Undisturbed, Settled, IsTerminal, Terminal,
       Absent, Restart, job, daemons, sweeps
  <1>22. ASSUME NEW n \in Node, NEW j \in Job, Create(n, j) PROVE Undisturbed'
    BY <1>22 DEF TypeOK, Unborn, Undisturbed, Settled, IsTerminal, Terminal,
       Absent, Create, job, daemons, sweeps
  <1>23. ASSUME NEW n \in Node, NEW j \in Job, SweepMark(n, j) PROVE Undisturbed'
    BY <1>23 DEF TypeOK, Unborn, Undisturbed, Settled, IsTerminal, Terminal,
       Absent, SweepMark, Put, job, daemons, sweeps
  <1>24. ASSUME NEW n \in Node, NEW j \in Job, SweepRaise(n, j) PROVE Undisturbed'
    BY <1>24 DEF TypeOK, Unborn, Undisturbed, Settled, IsTerminal, Terminal,
       Absent, SweepRaise, PutRaises, Drop, job, daemons, sweeps
  <1>25. ASSUME NEW n \in Node, NEW j \in Job, PruneDelete(n, j) PROVE Undisturbed'
    BY <1>25 DEF TypeOK, Unborn, Undisturbed, Settled, IsTerminal, Terminal,
       Absent, PruneDelete, Put, job, daemons, sweeps
  <1>26. ASSUME NEW n \in Node, NEW j \in Job, PruneRaise(n, j) PROVE Undisturbed'
    BY <1>26 DEF TypeOK, Unborn, Undisturbed, Settled, IsTerminal, Terminal,
       Absent, PruneRaise, PutRaises, Drop, job, daemons, sweeps
  <1>27. CASE UNCHANGED vars
    BY <1>27 DEF TypeOK, Unborn, Undisturbed, Settled, IsTerminal, Terminal,
       Absent, vars
  <1>. QED
    BY <1>1, <1>2, <1>3, <1>4, <1>5, <1>6, <1>7, <1>8, <1>9, <1>10, <1>11,
       <1>12, <1>13, <1>14, <1>15, <1>16, <1>17, <1>18, <1>19, <1>20, <1>21,
       <1>22, <1>23, <1>24, <1>25, <1>26, <1>27 DEF Next, Step, Fail, Cancel

\* The inductive invariant holds throughout.
LEMMA Inductive == Spec => []IInv
  <1>1. Init => IInv
    <2> SUFFICES ASSUME Init PROVE IInv
      OBVIOUS
    <2>1. TypeOK
      BY NodeAssumption, BoundAssumption DEF Init, TypeOK, State, Terminal
    <2>2. Unborn /\ OutcomeSettled /\ Retained /\ Undisturbed
      BY DEF Init, Unborn, OutcomeSettled, Retained, Undisturbed, IsTerminal,
         Terminal, Absent
    <2>. QED
      BY <2>1, <2>2 DEF IInv
  <1>2. IInv /\ [Next]_vars => IInv'
    BY TypeStep, UnbornStep, OutcomeStep, RetainedStep, UndisturbedStep DEF IInv
  <1>. QED
    BY <1>1, <1>2, PTL DEF Spec

-----------------------------------------------------------------------------
(* What a step may do to the value of a job *)

\* What RetentionSparesActive says of one step.
SparesActive ==
    \A j \in Job : stored[j] # Absent /\ stored'[j] = Absent => IsTerminal(j)

\* Only a retention deletes, and what it has listed has terminated.
LEMMA RetentionStep == TypeOK /\ Retained /\ [Next]_vars => SparesActive
  <1> SUFFICES ASSUME TypeOK, Retained, [Next]_vars
               PROVE  SparesActive
    OBVIOUS
  <1>1. ASSUME NEW j \in Job, CreatePut(j) PROVE SparesActive
    BY <1>1 DEF TypeOK, Retained, SparesActive, State, Terminal, Absent,
       CreatePut, Put, PendingValue, job, daemons, sweeps
  <1>2. ASSUME NEW j \in Job, StartPut(j) PROVE SparesActive
    BY <1>2 DEF TypeOK, Retained, SparesActive, State, Terminal, Absent,
       StartPut, Put, RunningValue, job, daemons, sweeps
  <1>3. ASSUME NEW j \in Job, Flush(j) PROVE SparesActive
    BY <1>3 DEF TypeOK, Retained, SparesActive, State, Terminal, Absent, Flush,
       Put, RunningValue, job, daemons, sweeps
  <1>4. ASSUME NEW j \in Job, HandlerEnd(j) PROVE SparesActive
    BY <1>4 DEF TypeOK, Retained, SparesActive, State, Terminal, Absent,
       HandlerEnd, job, daemons, sweeps
  <1>5. ASSUME NEW j \in Job, FinalPut(j) PROVE SparesActive
    BY <1>5 DEF TypeOK, Retained, SparesActive, State, Terminal, Absent,
       FinalPut, Put, FinalValue, job, daemons, sweeps
  <1>6. ASSUME NEW j \in Job, CreateRaise(j) PROVE SparesActive
    BY <1>6 DEF TypeOK, Retained, SparesActive, State, Terminal, Absent,
       CreateRaise, PutRaises, Drop, PendingValue, job, daemons, sweeps
  <1>7. ASSUME NEW j \in Job, StartRaise(j) PROVE SparesActive
    BY <1>7 DEF TypeOK, Retained, SparesActive, State, Terminal, Absent,
       StartRaise, PutRaises, Drop, RunningValue, job, daemons, sweeps
  <1>8. ASSUME NEW j \in Job, FlushRaise(j) PROVE SparesActive
    BY <1>8 DEF TypeOK, Retained, SparesActive, State, Terminal, Absent,
       FlushRaise, Drop, job, daemons, sweeps
  <1>9. ASSUME NEW j \in Job, FinalRaise(j) PROVE SparesActive
    BY <1>9 DEF TypeOK, Retained, SparesActive, State, Terminal, Absent,
       FinalRaise, PutRaises, Drop, FinalValue, job, daemons, sweeps
  <1>10. ASSUME NEW j \in Job, CancelStart(j) PROVE SparesActive
    BY <1>10 DEF TypeOK, Retained, SparesActive, State, Terminal, Absent,
       CancelStart, RunningValue, job, daemons, sweeps
  <1>11. ASSUME NEW j \in Job, CancelRun(j) PROVE SparesActive
    BY <1>11 DEF TypeOK, Retained, SparesActive, State, Terminal, Absent,
       CancelRun, job, daemons, sweeps
  <1>12. ASSUME NEW j \in Job, CancelFinal(j) PROVE SparesActive
    BY <1>12 DEF TypeOK, Retained, SparesActive, State, Terminal, Absent,
       CancelFinal, FinalValue, job, daemons, sweeps
  <1>13. ASSUME NEW j \in Job, LateFlush(j) PROVE SparesActive
    BY <1>13 DEF TypeOK, Retained, SparesActive, State, Terminal, Absent,
       LateFlush, RunningValue, job, daemons, sweeps
  <1>14. ASSUME NEW j \in Job, HeartbeatAges(j) PROVE SparesActive
    BY <1>14 DEF TypeOK, Retained, SparesActive, State, Terminal, Absent,
       HeartbeatAges, Drop, Executing, job, daemons, sweeps
  <1>15. ASSUME NEW j \in Job, RetentionPasses(j) PROVE SparesActive
    BY <1>15 DEF TypeOK, Retained, SparesActive, State, Terminal, Absent,
       RetentionPasses, Executing, job, daemons, sweeps
  <1>16. ASSUME NEW n \in Node, SweepList(n) PROVE SparesActive
    BY <1>16 DEF TypeOK, Retained, SparesActive, State, Terminal, Absent,
       SweepList, IsStuck, job, daemons, sweeps
  <1>17. ASSUME NEW n \in Node, PruneList(n) PROVE SparesActive
    BY <1>17 DEF TypeOK, Retained, SparesActive, State, Terminal, Absent,
       PruneList, IsExpired, job, daemons, sweeps
  <1>18. ASSUME NEW n \in Node, BecomeLeader(n) PROVE SparesActive
    BY <1>18 DEF TypeOK, Retained, SparesActive, State, Terminal, Absent,
       BecomeLeader, Drop, job, daemons, sweeps
  <1>19. ASSUME NEW n \in Node, LoseLeadership(n) PROVE SparesActive
    BY <1>19 DEF TypeOK, Retained, SparesActive, State, Terminal, Absent,
       LoseLeadership, Drop, job, daemons, sweeps
  <1>20. ASSUME NEW n \in Node, ExitDaemon(n) PROVE SparesActive
    BY <1>20 DEF TypeOK, Retained, SparesActive, State, Terminal, Absent,
       ExitDaemon, job, daemons, sweeps
  <1>21. ASSUME NEW n \in Node, Restart(n) PROVE SparesActive
    BY <1>21 DEF TypeOK, Retained, SparesActive, State, Terminal, Absent,
       Restart, job, daemons, sweeps
  <1>22. ASSUME NEW n \in Node, NEW j \in Job, Create(n, j) PROVE SparesActive
    BY <1>22 DEF TypeOK, Retained, SparesActive, State, Terminal, Absent,
       Create, job, daemons, sweeps
  <1>23. ASSUME NEW n \in Node, NEW j \in Job, SweepMark(n, j) PROVE SparesActive
    BY <1>23 DEF TypeOK, Retained, SparesActive, State, Terminal, Absent,
       SweepMark, Put, job, daemons, sweeps
  <1>24. ASSUME NEW n \in Node, NEW j \in Job, SweepRaise(n, j) PROVE SparesActive
    BY <1>24 DEF TypeOK, Retained, SparesActive, State, Terminal, Absent,
       SweepRaise, PutRaises, Drop, job, daemons, sweeps
  <1>25. ASSUME NEW n \in Node, NEW j \in Job, PruneDelete(n, j) PROVE SparesActive
    BY <1>25 DEF TypeOK, Retained, SparesActive, State, Terminal, Absent,
       PruneDelete, Put, job, daemons, sweeps
  <1>26. ASSUME NEW n \in Node, NEW j \in Job, PruneRaise(n, j) PROVE SparesActive
    BY <1>26 DEF TypeOK, Retained, SparesActive, State, Terminal, Absent,
       PruneRaise, PutRaises, Drop, job, daemons, sweeps
  <1>27. CASE UNCHANGED vars
    BY <1>27 DEF TypeOK, Retained, SparesActive, State, Terminal, Absent, vars
  <1>. QED
    BY <1>1, <1>2, <1>3, <1>4, <1>5, <1>6, <1>7, <1>8, <1>9, <1>10, <1>11,
       <1>12, <1>13, <1>14, <1>15, <1>16, <1>17, <1>18, <1>19, <1>20, <1>21,
       <1>22, <1>23, <1>24, <1>25, <1>26, <1>27 DEF Next, Step, Fail, Cancel

\* What TerminalIsFinalUnlessDrops says of one step.
TerminalKept ==
    \A j \in Job :
        IsTerminal(j) /\ drops' = 0 => stored'[j].state \in {stored[j].state, "absent"}

\* Without losses, who may still write a job that has terminated only repeats or
\* deletes its outcome.
LEMMA TerminalStep == TypeOK /\ Unborn /\ Undisturbed /\ [Next]_vars => TerminalKept
  <1> SUFFICES ASSUME TypeOK, Unborn, Undisturbed, [Next]_vars
               PROVE  TerminalKept
    OBVIOUS
  <1> USE BoundAssumption
  <1>1. ASSUME NEW j \in Job, CreatePut(j) PROVE TerminalKept
    BY <1>1 DEF TypeOK, Unborn, Undisturbed, TerminalKept, Settled, IsTerminal,
       Terminal, Absent, CreatePut, Put, PendingValue, job, daemons, sweeps
  <1>2. ASSUME NEW j \in Job, StartPut(j) PROVE TerminalKept
    BY <1>2 DEF TypeOK, Unborn, Undisturbed, TerminalKept, Settled, IsTerminal,
       Terminal, Absent, StartPut, Put, RunningValue, job, daemons, sweeps
  <1>3. ASSUME NEW j \in Job, Flush(j) PROVE TerminalKept
    BY <1>3 DEF TypeOK, Unborn, Undisturbed, TerminalKept, Settled, IsTerminal,
       Terminal, Absent, Flush, Put, RunningValue, job, daemons, sweeps
  <1>4. ASSUME NEW j \in Job, HandlerEnd(j) PROVE TerminalKept
    BY <1>4 DEF TypeOK, Unborn, Undisturbed, TerminalKept, Settled, IsTerminal,
       Terminal, Absent, HandlerEnd, job, daemons, sweeps
  <1>5. ASSUME NEW j \in Job, FinalPut(j) PROVE TerminalKept
    BY <1>5 DEF TypeOK, Unborn, Undisturbed, TerminalKept, Settled, IsTerminal,
       Terminal, Absent, FinalPut, Put, FinalValue, job, daemons, sweeps
  <1>6. ASSUME NEW j \in Job, CreateRaise(j) PROVE TerminalKept
    BY <1>6 DEF TypeOK, Unborn, Undisturbed, TerminalKept, Settled, IsTerminal,
       Terminal, Absent, CreateRaise, PutRaises, Drop, PendingValue, job,
       daemons, sweeps
  <1>7. ASSUME NEW j \in Job, StartRaise(j) PROVE TerminalKept
    BY <1>7 DEF TypeOK, Unborn, Undisturbed, TerminalKept, Settled, IsTerminal,
       Terminal, Absent, StartRaise, PutRaises, Drop, RunningValue, job,
       daemons, sweeps
  <1>8. ASSUME NEW j \in Job, FlushRaise(j) PROVE TerminalKept
    BY <1>8 DEF TypeOK, Unborn, Undisturbed, TerminalKept, Settled, IsTerminal,
       Terminal, Absent, FlushRaise, Drop, job, daemons, sweeps
  <1>9. ASSUME NEW j \in Job, FinalRaise(j) PROVE TerminalKept
    BY <1>9 DEF TypeOK, Unborn, Undisturbed, TerminalKept, Settled, IsTerminal,
       Terminal, Absent, FinalRaise, PutRaises, Drop, FinalValue, job, daemons,
       sweeps
  <1>10. ASSUME NEW j \in Job, CancelStart(j) PROVE TerminalKept
    BY <1>10 DEF TypeOK, Unborn, Undisturbed, TerminalKept, Settled, IsTerminal,
       Terminal, Absent, CancelStart, RunningValue, job, daemons, sweeps
  <1>11. ASSUME NEW j \in Job, CancelRun(j) PROVE TerminalKept
    BY <1>11 DEF TypeOK, Unborn, Undisturbed, TerminalKept, Settled, IsTerminal,
       Terminal, Absent, CancelRun, job, daemons, sweeps
  <1>12. ASSUME NEW j \in Job, CancelFinal(j) PROVE TerminalKept
    BY <1>12 DEF TypeOK, Unborn, Undisturbed, TerminalKept, Settled, IsTerminal,
       Terminal, Absent, CancelFinal, FinalValue, job, daemons, sweeps
  <1>13. ASSUME NEW j \in Job, LateFlush(j) PROVE TerminalKept
    BY <1>13 DEF TypeOK, Unborn, Undisturbed, TerminalKept, Settled, IsTerminal,
       Terminal, Absent, LateFlush, RunningValue, job, daemons, sweeps
  <1>14. ASSUME NEW j \in Job, HeartbeatAges(j) PROVE TerminalKept
    BY <1>14 DEF TypeOK, Unborn, Undisturbed, TerminalKept, Settled, IsTerminal,
       Terminal, Absent, HeartbeatAges, Drop, Executing, job, daemons, sweeps
  <1>15. ASSUME NEW j \in Job, RetentionPasses(j) PROVE TerminalKept
    BY <1>15 DEF TypeOK, Unborn, Undisturbed, TerminalKept, Settled, IsTerminal,
       Terminal, Absent, RetentionPasses, Executing, job, daemons, sweeps
  <1>16. ASSUME NEW n \in Node, SweepList(n) PROVE TerminalKept
    BY <1>16 DEF TypeOK, Unborn, Undisturbed, TerminalKept, Settled, IsTerminal,
       Terminal, Absent, SweepList, IsStuck, job, daemons, sweeps
  <1>17. ASSUME NEW n \in Node, PruneList(n) PROVE TerminalKept
    BY <1>17 DEF TypeOK, Unborn, Undisturbed, TerminalKept, Settled, IsTerminal,
       Terminal, Absent, PruneList, IsExpired, job, daemons, sweeps
  <1>18. ASSUME NEW n \in Node, BecomeLeader(n) PROVE TerminalKept
    BY <1>18 DEF TypeOK, Unborn, Undisturbed, TerminalKept, Settled, IsTerminal,
       Terminal, Absent, BecomeLeader, Drop, job, daemons, sweeps
  <1>19. ASSUME NEW n \in Node, LoseLeadership(n) PROVE TerminalKept
    BY <1>19 DEF TypeOK, Unborn, Undisturbed, TerminalKept, Settled, IsTerminal,
       Terminal, Absent, LoseLeadership, Drop, job, daemons, sweeps
  <1>20. ASSUME NEW n \in Node, ExitDaemon(n) PROVE TerminalKept
    BY <1>20 DEF TypeOK, Unborn, Undisturbed, TerminalKept, Settled, IsTerminal,
       Terminal, Absent, ExitDaemon, job, daemons, sweeps
  <1>21. ASSUME NEW n \in Node, Restart(n) PROVE TerminalKept
    BY <1>21 DEF TypeOK, Unborn, Undisturbed, TerminalKept, Settled, IsTerminal,
       Terminal, Absent, Restart, job, daemons, sweeps
  <1>22. ASSUME NEW n \in Node, NEW j \in Job, Create(n, j) PROVE TerminalKept
    BY <1>22 DEF TypeOK, Unborn, Undisturbed, TerminalKept, Settled, IsTerminal,
       Terminal, Absent, Create, job, daemons, sweeps
  <1>23. ASSUME NEW n \in Node, NEW j \in Job, SweepMark(n, j) PROVE TerminalKept
    BY <1>23 DEF TypeOK, Unborn, Undisturbed, TerminalKept, Settled, IsTerminal,
       Terminal, Absent, SweepMark, Put, job, daemons, sweeps
  <1>24. ASSUME NEW n \in Node, NEW j \in Job, SweepRaise(n, j) PROVE TerminalKept
    BY <1>24 DEF TypeOK, Unborn, Undisturbed, TerminalKept, Settled, IsTerminal,
       Terminal, Absent, SweepRaise, PutRaises, Drop, job, daemons, sweeps
  <1>25. ASSUME NEW n \in Node, NEW j \in Job, PruneDelete(n, j) PROVE TerminalKept
    BY <1>25 DEF TypeOK, Unborn, Undisturbed, TerminalKept, Settled, IsTerminal,
       Terminal, Absent, PruneDelete, Put, job, daemons, sweeps
  <1>26. ASSUME NEW n \in Node, NEW j \in Job, PruneRaise(n, j) PROVE TerminalKept
    BY <1>26 DEF TypeOK, Unborn, Undisturbed, TerminalKept, Settled, IsTerminal,
       Terminal, Absent, PruneRaise, PutRaises, Drop, job, daemons, sweeps
  <1>27. CASE UNCHANGED vars
    BY <1>27 DEF TypeOK, Unborn, Undisturbed, TerminalKept, Settled, IsTerminal,
       Terminal, Absent, vars
  <1>. QED
    BY <1>1, <1>2, <1>3, <1>4, <1>5, <1>6, <1>7, <1>8, <1>9, <1>10, <1>11,
       <1>12, <1>13, <1>14, <1>15, <1>16, <1>17, <1>18, <1>19, <1>20, <1>21,
       <1>22, <1>23, <1>24, <1>25, <1>26, <1>27 DEF Next, Step, Fail, Cancel

-----------------------------------------------------------------------------
(* Theorems *)

\* The variables stay within their types: no state reaches etcd that the sweeps
\* and the API do not know (jobs.py, Job).
THEOREM TypeCorrect == Spec => []TypeOK
  BY Inductive, PTL DEF IInv

\* What etcd reports as done or cancelled is what became of the handler
\* (jobs.py, _execute), whatever sweeps, late flushes and retentions of any
\* daemon wrote in between.
THEOREM OutcomesAreTrue == Spec => []OutcomeIsTrue
  <1>1. IInv => OutcomeIsTrue
    BY DEF IInv, OutcomeSettled, OutcomeIsTrue
  <1>. QED
    BY <1>1, Inductive, PTL

\* prune_old deletes only what has terminated, though it decides on a list it
\* read earlier (jobs.py, prune_old).
THEOREM RetentionIsSafe == Spec => RetentionSparesActive
  <1>1. IInv /\ [Next]_vars => [SparesActive]_vars
    BY RetentionStep DEF IInv
  <1>. QED
    BY <1>1, Inductive, PTL DEF Spec, RetentionSparesActive, SparesActive

\* While nothing was lost or stalled, a terminal state is final (jobs.py,
\* prune_stuck_running against _execute), whatever crashes and whoever leads.
THEOREM TerminalIsFinal == Spec => TerminalIsFinalUnlessDrops
  <1>1. IInv /\ [Next]_vars => [TerminalKept]_vars
    BY TerminalStep DEF IInv
  <1>. QED
    BY <1>1, Inductive, PTL DEF Spec, TerminalIsFinalUnlessDrops, TerminalKept

=============================================================================
