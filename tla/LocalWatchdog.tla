---------------------------- MODULE LocalWatchdog ----------------------------
(***************************************************************************)
(* LocalComponentWatchdog (daemon/watchdog.py): every tick lists this      *)
(* host's containers with docker ps, and restarts those that were          *)
(* unhealthy Threshold times in a row, but LoopMax times at most before    *)
(* they are healthy again.                                                 *)
(*                                                                         *)
(* A tick is not atomic: it acts on the rows it listed at its beginning,   *)
(* one after another, and awaits every docker restart, while the           *)
(* containers go on changing.                                              *)
(*                                                                         *)
(* health[c]     the container as docker knows it now: healthy, unhealthy, *)
(*               "pending" (starting, restarting or without a healthcheck, *)
(*               which the tick treats alike), or "gone" when docker ps    *)
(*               would not list it                                         *)
(* mode          cfg.watchdog_mode                                         *)
(* unhealthy[c]  _consecutive_unhealthy, 0 if there is no entry; counted   *)
(*               up to Threshold, for the code only compares it with that  *)
(* history[c]    the length of _restart_history[c]                         *)
(* loopAlerted   _loop_alerted                                             *)
(* ticking       a tick is under way                                       *)
(* rows[c]       the row docker ps returned for c, "seen" once the tick    *)
(*               has dealt with it                                         *)
(* restarting    the container whose docker restart it awaits              *)
(* burst[c]      not in the code: how often the watchdog restarted c since *)
(*               c was last healthy or was created, or since the watchdog  *)
(*               last forgot what it knew (a lapse)                        *)
(* lapses        how often docker ps failed or the daemon was restarted    *)
(* refusals      how often docker restart failed                           *)
(***************************************************************************)
EXTENDS Naturals

CONSTANTS
    Container,      \* the watched containers (_watched)
    NoContainer,
    Threshold,      \* watchdog_unhealthy_threshold
    LoopMax,        \* watchdog_restart_loop_max
    MaxLapses,      \* bound on failures of docker ps and daemon restarts
    MaxRefusals     \* bound on failures of docker restart

ASSUME ContainerAssumption == NoContainer \notin Container
ASSUME ThresholdAssumption ==
    /\ Threshold \in Nat \ {0} /\ LoopMax \in Nat
    /\ MaxLapses \in Nat /\ MaxRefusals \in Nat

VARIABLES health, mode, unhealthy, history, loopAlerted,
          ticking, rows, restarting, burst, lapses, refusals

memory == <<unhealthy, history, loopAlerted>>
tick == <<ticking, rows, restarting>>
vars == <<health, mode, unhealthy, history, loopAlerted, ticking, rows,
          restarting, burst, lapses, refusals>>

Health == {"healthy", "unhealthy", "pending", "gone"}

TypeOK ==
    /\ health \in [Container -> Health]
    /\ mode \in {"auto", "monitor"}
    /\ unhealthy \in [Container -> 0..Threshold]
    /\ history \in [Container -> 0..LoopMax]
    /\ loopAlerted \in SUBSET Container
    /\ ticking \in BOOLEAN
    /\ rows \in [Container -> Health \cup {"seen"}]
    /\ restarting \in Container \cup {NoContainer}
    /\ burst \in [Container -> Nat]
    /\ lapses \in 0..MaxLapses
    /\ refusals \in 0..MaxRefusals

Init ==
    /\ health = [c \in Container |-> "pending"]
    /\ mode \in {"auto", "monitor"}
    /\ unhealthy = [c \in Container |-> 0]
    /\ history = [c \in Container |-> 0]
    /\ loopAlerted = {}
    /\ ticking = FALSE
    /\ rows = [c \in Container |-> "gone"]
    /\ restarting = NoContainer
    /\ burst = [c \in Container |-> 0]
    /\ lapses = 0
    /\ refusals = 0

-----------------------------------------------------------------------------
(* docker: what happens to the containers without the watchdog *)

\* Where a container can go by itself: the healthcheck changes its verdict,
\* the process dies and docker restarts it, somebody removes or recreates it.
After(h) ==
    IF h = "gone" THEN {"pending"} ELSE Health \ {h}

ContainerChanges(c) ==
    /\ \E h \in After(health[c]) :
          /\ health' = [health EXCEPT ![c] = h]
          /\ burst' = IF h \in {"healthy", "gone"} THEN [burst EXCEPT ![c] = 0]
                                                   ELSE burst
    /\ UNCHANGED <<mode, memory, tick, lapses, refusals>>

-----------------------------------------------------------------------------
(* _tick *)

\* What the watchdog knows of is reset or lost: the restarts from now on are
\* counted anew.
Lapse ==
    /\ lapses < MaxLapses
    /\ lapses' = lapses + 1
    /\ burst' = [c \in Container |-> 0]

\* docker ps answers.
DockerPs ==
    /\ ~ticking
    /\ ticking' = TRUE
    /\ rows' = health
    /\ UNCHANGED <<health, mode, memory, restarting, burst, lapses, refusals>>

\* docker ps fails: _docker_ps returns an empty list.
DockerPsFails ==
    /\ ~ticking
    /\ Lapse
    /\ ticking' = TRUE
    /\ rows' = [c \in Container |-> "gone"]
    /\ UNCHANGED <<health, mode, memory, restarting, refusals>>

\* The tick comes to container c.
Visit(c) ==
    /\ restarting = NoContainer
    /\ rows' = [rows EXCEPT ![c] = "seen"]
    /\ UNCHANGED <<health, mode, ticking, burst, lapses, refusals>>

\* Faulty variant: every recovery forgets the restarts, also one that the
\* container has just begun.
CalmForgets(c) ==
    /\ Visit(c)
    /\ rows[c] = "pending"
    /\ unhealthy' = [unhealthy EXCEPT ![c] = 0]
    /\ history' = [history EXCEPT ![c] = 0]
    /\ loopAlerted' = loopAlerted \ {c}
    /\ UNCHANGED restarting

\* A row that is not unhealthy resets the count.
Calm(c) ==
    /\ Visit(c)
    /\ rows[c] = "pending"
    /\ unhealthy' = [unhealthy EXCEPT ![c] = 0]
    /\ UNCHANGED <<history, loopAlerted, restarting>>

\* A healthy row, in addition, arms the watchdog again if it had given up.
Healthy(c) ==
    /\ Visit(c)
    /\ rows[c] = "healthy"
    /\ unhealthy' = [unhealthy EXCEPT ![c] = 0]
    /\ loopAlerted' = loopAlerted \ {c}
    /\ history' = IF c \in loopAlerted THEN [history EXCEPT ![c] = 0] ELSE history
    /\ UNCHANGED restarting

\* The count of an unhealthy row, and whether it has reached the threshold.
Counted(c) == IF unhealthy[c] < Threshold THEN unhealthy[c] + 1 ELSE Threshold
Due(c) == Counted(c) >= Threshold

\* An unhealthy row below the threshold.
Unhealthy(c) ==
    /\ Visit(c)
    /\ rows[c] = "unhealthy" /\ ~Due(c)
    /\ unhealthy' = [unhealthy EXCEPT ![c] = Counted(c)]
    /\ UNCHANGED <<history, loopAlerted, restarting>>

\* Faulty variant: at the limit it raises no alert.
LeaveSilently(c) ==
    /\ Visit(c)
    /\ rows[c] = "unhealthy" /\ Due(c)
    /\ unhealthy' = [unhealthy EXCEPT ![c] = Counted(c)]
    /\ c \in loopAlerted \/ history[c] >= LoopMax \/ mode = "monitor"
    /\ UNCHANGED <<history, loopAlerted, restarting>>

\* _maybe_restart leaves c alone: it has given up on c, it gives up now with a
\* COMPONENT_RESTART_LOOP, or it only monitors.
LeaveAlone(c) ==
    /\ Visit(c)
    /\ rows[c] = "unhealthy" /\ Due(c)
    /\ unhealthy' = [unhealthy EXCEPT ![c] = Counted(c)]
    /\ \/ /\ c \in loopAlerted
          /\ UNCHANGED loopAlerted
       \/ /\ c \notin loopAlerted /\ history[c] >= LoopMax
          /\ loopAlerted' = loopAlerted \cup {c}
       \/ /\ c \notin loopAlerted /\ history[c] < LoopMax /\ mode = "monitor"
          /\ UNCHANGED loopAlerted
    /\ UNCHANGED <<history, restarting>>

\* Faulty variant: the limit is not looked at.
RestartUnguarded(c) ==
    /\ Visit(c)
    /\ rows[c] = "unhealthy" /\ Due(c)
    /\ c \notin loopAlerted /\ mode = "auto"
    /\ unhealthy' = [unhealthy EXCEPT ![c] = Counted(c)]
    /\ restarting' = c
    /\ UNCHANGED <<history, loopAlerted>>

\* _maybe_restart begins docker restart and awaits it.
Restart(c) ==
    /\ Visit(c)
    /\ rows[c] = "unhealthy" /\ Due(c)
    /\ c \notin loopAlerted /\ history[c] < LoopMax /\ mode = "auto"
    /\ unhealthy' = [unhealthy EXCEPT ![c] = Counted(c)]
    /\ restarting' = c
    /\ UNCHANGED <<history, loopAlerted>>

\* docker has restarted the container, whatever state it was in by then.
Restarted(c) ==
    /\ restarting = c /\ health[c] # "gone"
    /\ restarting' = NoContainer
    /\ health' = [health EXCEPT ![c] = "pending"]
    /\ history' = [history EXCEPT ![c] = @ + 1]
    /\ unhealthy' = [unhealthy EXCEPT ![c] = 0]
    /\ burst' = [burst EXCEPT ![c] = @ + 1]
    /\ UNCHANGED <<mode, loopAlerted, ticking, rows, lapses, refusals>>

\* docker restart fails: the count stays, and the next tick tries again.
RestartFails(c) ==
    /\ restarting = c
    /\ \/ health[c] = "gone" /\ UNCHANGED refusals
       \/ /\ health[c] # "gone" /\ refusals < MaxRefusals
          /\ refusals' = refusals + 1
    /\ restarting' = NoContainer
    /\ UNCHANGED <<health, mode, memory, ticking, rows, burst, lapses>>

\* The end of the tick: what is known of containers that were not listed is
\* dropped, their history only if the alert was raised.
EndTick ==
    /\ ticking /\ restarting = NoContainer
    /\ \A c \in Container : rows[c] \in {"seen", "gone"}
    /\ ticking' = FALSE
    /\ unhealthy' = [c \in Container |-> IF rows[c] = "gone" THEN 0 ELSE unhealthy[c]]
    /\ history' = [c \in Container |->
                      IF rows[c] = "gone" /\ c \in loopAlerted THEN 0 ELSE history[c]]
    /\ loopAlerted' = {c \in loopAlerted : rows[c] # "gone"}
    /\ rows' = [c \in Container |-> "gone"]
    /\ UNCHANGED <<health, mode, restarting, burst, lapses, refusals>>

\* The daemon is restarted: the watchdog begins with empty dictionaries.
DaemonRestarts ==
    /\ Lapse
    /\ unhealthy' = [c \in Container |-> 0]
    /\ history' = [c \in Container |-> 0]
    /\ loopAlerted' = {}
    /\ ticking' = FALSE
    /\ rows' = [c \in Container |-> "gone"]
    /\ restarting' = NoContainer
    /\ UNCHANGED <<health, mode, refusals>>

-----------------------------------------------------------------------------
Look(c) ==
    Calm(c) \/ Healthy(c) \/ Unhealthy(c) \/ LeaveAlone(c) \/ Restart(c)

\* What the run loop does by itself while docker answers.
Tick ==
    \/ DockerPs \/ EndTick
    \/ \E c \in Container : Look(c) \/ Restarted(c) \/ RestartFails(c)

Next ==
    \/ Tick \/ DockerPsFails \/ DaemonRestarts
    \/ \E c \in Container : ContainerChanges(c)

Spec == Init /\ [][Next]_vars

\* The loop ticks on, and every docker command ends.
FairSpec == Spec /\ WF_vars(Tick)

-----------------------------------------------------------------------------
(* Properties *)

\* The loop guard (watchdog.py 154-195): until it is healthy, no
\* container is restarted more than LoopMax times, though ticks act on old
\* rows, restarts fail, and containers come, go and restart by themselves.
\* Only a failed docker ps, a restart of the daemon or the disappearance of the
\* container (ContainerChanges) begins a new count.
NoRestartStorm == \A c \in Container : burst[c] <= LoopMax

\* "after N consecutive ticks docker-restarts them", "let the operator inspect"
\* (watchdog.py 7-11): a container that stays unhealthy is restarted or
\* reported in the end, and does not starve behind others that keep failing.
SickIsHandled ==
    \A c \in Container :
        (mode = "auto" /\ health[c] = "unhealthy")
            ~> (health[c] # "unhealthy" \/ c \in loopAlerted)

=============================================================================
