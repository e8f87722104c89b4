------------------------ MODULE LocalWatchdogProofs ------------------------
(***************************************************************************)
(* Theorems about LocalWatchdog, for any set of containers, threshold and  *)
(* limit of restarts, and any number of lapses and refusals.               *)
(*                                                                         *)
(* The loop guard compares the length of _restart_history with the limit,  *)
(* not the number of restarts since the container was healthy.  The        *)
(* argument is that the history is forgotten only where the container was  *)
(* healthy or gone, or the watchdog lost its memory, since its last        *)
(* restart (burst <= history), although a tick decides on rows that are    *)
(* out of date by then.                                                    *)
(***************************************************************************)
EXTENDS LocalWatchdog, TLAPS

\* Between two ticks there are no rows, and a restart is awaited only within a
\* tick, after the row of its container.
TickShape ==
    /\ ~ticking => \A c \in Container : rows[c] = "gone"
    /\ restarting # NoContainer => ticking /\ rows[restarting] = "seen"

\* Whoever is healthy or gone has not been restarted since; nor has whoever was
\* healthy or gone in the rows this tick has not come to yet.
FreshStart ==
    \A c \in Container :
        /\ health[c] \in {"healthy", "gone"} => burst[c] = 0
        /\ ticking /\ rows[c] \in {"healthy", "gone"} => burst[c] = 0

\* The history accounts for every restart, and has room for the one awaited.
Accounted ==
    /\ \A c \in Container : burst[c] <= history[c]
    /\ restarting # NoContainer => history[restarting] < LoopMax

IInv == TypeOK /\ TickShape /\ FreshStart /\ Accounted

-----------------------------------------------------------------------------
(* One step of the specification *)

\* A row that is dealt with was listed in the tick under way, and dealing with
\* it neither restarts nor changes the container.
LEMMA VisitStep ==
    ASSUME IInv, NEW c \in Container, Visit(c), rows[c] \notin {"seen", "gone"}
    PROVE  /\ ticking /\ ticking' = ticking
           /\ UNCHANGED <<health, mode, burst, lapses, refusals>>
           /\ rows' \in [Container -> Health \cup {"seen"}]
           /\ rows'[c] = "seen"
           /\ \A d \in Container \ {c} : rows'[d] = rows[d]
  BY DEF IInv, TypeOK, TickShape, Visit

\* The count of a row that is unhealthy once more stops at the threshold.
LEMMA CountedType ==
    ASSUME IInv, NEW c \in Container
    PROVE  Counted(c) \in 0..Threshold
  BY ThresholdAssumption DEF IInv, TypeOK, Counted

\* One step of the specification keeps the inductive invariant.
LEMMA IInvStep == IInv /\ [Next]_vars => IInv'
  <1> SUFFICES ASSUME IInv, [Next]_vars
               PROVE  IInv'
    OBVIOUS
  <1> USE ContainerAssumption, ThresholdAssumption
  <1>1. ASSUME NEW c \in Container, ContainerChanges(c) PROVE IInv'
    BY <1>1 DEF IInv, TypeOK, TickShape, FreshStart, Accounted, ContainerChanges,
       After, Health, memory, tick
  <1>2. CASE DockerPs
    BY <1>2 DEF IInv, TypeOK, TickShape, FreshStart, Accounted, DockerPs, Health, memory
  <1>3. CASE DockerPsFails
    BY <1>3 DEF IInv, TypeOK, TickShape, FreshStart, Accounted, DockerPsFails,
       Lapse, Health, memory
  <1>4. ASSUME NEW c \in Container, Calm(c) PROVE IInv'
    BY <1>4, VisitStep DEF IInv, TypeOK, TickShape, FreshStart, Accounted, Calm, Visit
  <1>5. ASSUME NEW c \in Container, Healthy(c) PROVE IInv'
    BY <1>5, VisitStep DEF IInv, TypeOK, TickShape, FreshStart, Accounted,
                           Healthy, Visit
  <1>6. ASSUME NEW c \in Container, Unhealthy(c) PROVE IInv'
    BY <1>6, VisitStep, CountedType DEF IInv, TypeOK, TickShape, FreshStart, Accounted,
       Unhealthy, Visit
  <1>7. ASSUME NEW c \in Container, LeaveAlone(c) PROVE IInv'
    BY <1>7, VisitStep, CountedType DEF IInv, TypeOK, TickShape, FreshStart, Accounted,
       LeaveAlone, Visit
  <1>8. ASSUME NEW c \in Container, Restart(c) PROVE IInv'
    BY <1>8, VisitStep, CountedType DEF IInv, TypeOK, TickShape, FreshStart, Accounted,
       Restart, Visit
  <1>9. ASSUME NEW c \in Container, Restarted(c) PROVE IInv'
    BY <1>9 DEF IInv, TypeOK, TickShape, FreshStart, Accounted, Restarted, Health
  <1>10. ASSUME NEW c \in Container, RestartFails(c) PROVE IInv'
    BY <1>10 DEF IInv, TypeOK, TickShape, FreshStart, Accounted, RestartFails, memory
  <1>11. CASE EndTick
    <2>1. TypeOK'
      <3>1. /\ unhealthy' \in [Container -> 0..Threshold]
            /\ history' \in [Container -> 0..LoopMax]
        BY <1>11 DEF IInv, TypeOK, EndTick
      <3>2. rows' \in [Container -> Health \cup {"seen"}]
        BY <1>11 DEF EndTick, Health
      <3>. QED
        BY <1>11, <3>1, <3>2 DEF IInv, TypeOK, EndTick
    <2>2. TickShape'
      BY <1>11 DEF IInv, TypeOK, TickShape, EndTick
    <2>3. FreshStart'
      BY <1>11 DEF IInv, TypeOK, FreshStart, EndTick
    <2>4. \A c \in Container : burst'[c] <= history'[c]
      BY <1>11 DEF IInv, TypeOK, FreshStart, Accounted, EndTick
    <2>. QED
      BY <1>11, <2>1, <2>2, <2>3, <2>4 DEF IInv, Accounted, EndTick
  <1>12. CASE DaemonRestarts
    <2>1. TypeOK'
      <3>1. /\ unhealthy' \in [Container -> 0..Threshold]
            /\ history' \in [Container -> 0..LoopMax]
            /\ burst' \in [Container -> Nat]
        BY <1>12 DEF DaemonRestarts, Lapse
      <3>2. rows' \in [Container -> Health \cup {"seen"}]
        BY <1>12 DEF DaemonRestarts, Health
      <3>3. lapses' \in 0..MaxLapses
        BY <1>12 DEF IInv, TypeOK, DaemonRestarts, Lapse
      <3>. QED
        BY <1>12, <3>1, <3>2, <3>3 DEF IInv, TypeOK, DaemonRestarts
    <2>2. TickShape' /\ FreshStart' /\ Accounted'
      BY <1>12 DEF TickShape, FreshStart, Accounted, DaemonRestarts, Lapse
    <2>. QED
      BY <2>1, <2>2 DEF IInv
  <1>13. CASE UNCHANGED vars
    BY <1>13 DEF IInv, TypeOK, TickShape, FreshStart, Accounted, vars
  <1>. QED
    BY <1>1, <1>2, <1>3, <1>4, <1>5, <1>6, <1>7, <1>8, <1>9, <1>10, <1>11,
       <1>12, <1>13 DEF Next, Tick, Look

\* The inductive invariant holds throughout.
LEMMA Inductive == Spec => []IInv
  <1>1. Init => IInv
    <2> SUFFICES ASSUME Init PROVE IInv
      OBVIOUS
    <2>1. TypeOK
      <3>1. /\ unhealthy \in [Container -> 0..Threshold]
            /\ history \in [Container -> 0..LoopMax]
            /\ burst \in [Container -> Nat]
            /\ lapses \in 0..MaxLapses /\ refusals \in 0..MaxRefusals
        BY ThresholdAssumption DEF Init
      <3>2. /\ health \in [Container -> Health]
            /\ rows \in [Container -> Health \cup {"seen"}]
        BY DEF Init, Health
      <3>. QED
        BY <3>1, <3>2 DEF Init, TypeOK
    <2>2. TickShape /\ FreshStart /\ Accounted
      BY DEF Init, TickShape, FreshStart, Accounted
    <2>. QED
      BY <2>1, <2>2 DEF IInv
  <1>. QED
    BY <1>1, IInvStep, PTL DEF Spec

-----------------------------------------------------------------------------
(* Theorems *)

\* The variables stay within their types; in particular _restart_history never
\* grows past watchdog_restart_loop_max (watchdog.py, _maybe_restart).
THEOREM TypeCorrect == Spec => []TypeOK
  BY Inductive, PTL DEF IInv

\* The loop guard holds (watchdog.py, _tick and _maybe_restart): no container is
\* restarted more than LoopMax times before it is healthy again, whatever the
\* containers do while a tick works on its rows.
THEOREM LoopGuard == Spec => []NoRestartStorm
  <1>1. IInv => NoRestartStorm
    <2> SUFFICES ASSUME IInv, NEW c \in Container
                 PROVE  burst[c] <= LoopMax
      BY DEF NoRestartStorm
    <2>1. burst[c] \in Nat /\ history[c] \in 0..LoopMax /\ burst[c] <= history[c]
      BY DEF IInv, TypeOK, Accounted
    <2>. QED
      BY <2>1, ThresholdAssumption
  <1>. QED
    BY <1>1, Inductive, PTL

=============================================================================
