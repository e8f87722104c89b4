------------------------------ MODULE Rollout ------------------------------
(***************************************************************************)
(* The two jobs that change every daemon's own cluster.env: rotate-token   *)
(* (daemon/workers/rotate_token.py), which asks the followers in parallel  *)
(* and rotates the leader last, and version-upgrade                        *)
(* (daemon/workers/version_upgrade.py), which upgrades the leader first    *)
(* and then one follower after another.  They run on the same daemons:     *)
(* both authenticate with the token the leader was started with, and a     *)
(* rotation ends with the recreation of every control plane, together with *)
(* the jobs it runs.                                                       *)
(*                                                                         *)
(* Old is 0 and new is 1, for tokens and for versions.                     *)
(* leader       the peer that leads                                        *)
(* token[n], auth[n]  CLUSTER_TOKEN in n's cluster.env; the token n's      *)
(*              running daemon was created with, which it presents and     *)
(*              accepts                                                    *)
(* sidecar[n]   a sidecar waits to recreate n's control plane              *)
(* tag[n], image[n]  MILVUS_IMAGE_TAG in n's cluster.env; what runs        *)
(* anchor       /cluster/milvus_version in etcd                            *)
(* rot, upg     the rotation and the upgrade, the last one of each: where  *)
(*              it stands, its runner, the peers it has not come to yet;   *)
(*              bad is set when a follower's rotation failed               *)
(* spoiled      not in the code: a rotation was left half-done             *)
(* moves, faults, rotations  how often leadership moved, something failed, *)
(*              and a rotation was submitted                               *)
(***************************************************************************)
EXTENDS Naturals, FiniteSets, FiniteSetsExt

CONSTANTS
    Node,           \* numbered like node-1, node-2, ...
    MaxMoves, MaxFaults, MaxRotations   \* bounds on what happens from outside

ASSUME NodeAssumption == Node \subseteq Nat \ {0} /\ Node # {} /\ IsFiniteSet(Node)
ASSUME BoundAssumption ==
    MaxMoves \in Nat /\ MaxFaults \in Nat /\ MaxRotations \in Nat

VARIABLES leader, token, auth, sidecar, tag, image, anchor, rot, upg, spoiled,
          moves, faults, rotations

secrets == <<token, auth, sidecar>>
versions == <<tag, image, anchor>>
vars == <<leader, secrets, versions, rot, upg, spoiled, moves, faults, rotations>>

TypeOK ==
    /\ leader \in Node
    /\ token \in [Node -> 0..1] /\ auth \in [Node -> 0..1]
    /\ sidecar \in [Node -> BOOLEAN]
    /\ tag \in [Node -> 0..1] /\ image \in [Node -> 0..1] /\ anchor \in 0..1
    /\ rot \in [at : {"idle", "followers", "self", "done", "failed"},
                runner : Node \cup {0}, todo : SUBSET Node, bad : BOOLEAN]
    /\ upg \in [at : {"idle", "next", "recreate", "done", "failed"},
                runner : Node \cup {0}, todo : SUBSET Node]
    /\ spoiled \in BOOLEAN
    /\ moves \in 0..MaxMoves /\ faults \in 0..MaxFaults /\ rotations \in 0..MaxRotations

RotEnd(at) == [at |-> at, runner |-> 0, todo |-> {}, bad |-> FALSE]
UpgEnd(at) == [at |-> at, runner |-> 0, todo |-> {}]

Init ==
    /\ leader = Min(Node)
    /\ token = [n \in Node |-> 0] /\ auth = [n \in Node |-> 0]
    /\ sidecar = [n \in Node |-> FALSE]
    /\ tag = [n \in Node |-> 0] /\ image = [n \in Node |-> 0] /\ anchor = 0
    /\ rot = RotEnd("idle") /\ upg = UpgEnd("idle")
    /\ spoiled = FALSE
    /\ moves = 0 /\ faults = 0 /\ rotations = 0

\* Something fails: a peer does not answer in time, a command fails.
Fault == faults < MaxFaults /\ faults' = faults + 1

LeaderMoves(n) ==
    /\ n # leader /\ moves < MaxMoves
    /\ leader' = n /\ moves' = moves + 1
    /\ UNCHANGED <<secrets, versions, rot, upg, spoiled, faults, rotations>>

-----------------------------------------------------------------------------
(* rotate-token *)

RotLive == rot.at \in {"followers", "self"}
UpgLive == upg.at \in {"next", "recreate"}

\* The rotation breaks off; if some peer has the new token, half-way.
RotBreaks(tokens) ==
    /\ rot' = RotEnd("failed")
    /\ spoiled' = (spoiled \/ \E n \in Node : tokens[n] = 1)

\* At most one rotation at a time is a restriction of this model: create
\* (jobs.py 154-183) accepts a second one.
SubmitRotate ==
    /\ ~RotLive /\ rotations < MaxRotations
    /\ rotations' = rotations + 1
    /\ rot' = [at |-> "followers", runner |-> leader, todo |-> Node \ {leader},
               bad |-> FALSE]
    /\ UNCHANGED <<leader, secrets, versions, upg, spoiled, moves, faults>>

\* rotate_self on n: cluster.env is written and rendered, and a sidecar
\* started, unless one of that name is still there.
RotateSelf(n) ==
    /\ token' = [token EXCEPT ![n] = 1]
    /\ sidecar' = [sidecar EXCEPT ![n] = TRUE]

\* require_token: daemon n accepts what runner r presents.
Accepts(n, r) == auth[n] = auth[r]

\* /rotate-self, authenticated with the runner's token.
RotateFollower(n) ==
    /\ rot.at = "followers" /\ n \in rot.todo
    /\ Accepts(n, rot.runner) /\ ~sidecar[n]
    /\ RotateSelf(n)
    /\ rot' = [rot EXCEPT !.todo = @ \ {n}]
    /\ UNCHANGED <<leader, auth, versions, upg, spoiled, moves, faults, rotations>>

\* The follower refuses the token, or its answer is an error or never comes:
\* nothing was written, or only cluster.env, or all went well over there.
RotateFollowerFails(n) ==
    /\ rot.at = "followers" /\ n \in rot.todo
    /\ \/ /\ ~Accepts(n, rot.runner)
          /\ UNCHANGED <<token, sidecar, faults>>
       \/ /\ Accepts(n, rot.runner) /\ sidecar[n]
          /\ token' = [token EXCEPT ![n] = 1]
          /\ UNCHANGED <<sidecar, faults>>
       \/ /\ Accepts(n, rot.runner) /\ Fault
          /\ \/ UNCHANGED <<token, sidecar>>
             \/ token' = [token EXCEPT ![n] = 1] /\ UNCHANGED sidecar
             \/ RotateSelf(n)
    /\ rot' = [rot EXCEPT !.todo = @ \ {n}, !.bad = TRUE]
    /\ UNCHANGED <<leader, auth, versions, upg, spoiled, moves, rotations>>

\* Faulty variant: the failures of followers are only logged.
FollowersLogged ==
    /\ rot.at = "followers" /\ rot.todo = {}
    /\ rot' = [rot EXCEPT !.at = "self", !.bad = FALSE]
    /\ UNCHANGED <<leader, secrets, versions, upg, spoiled, moves, faults, rotations>>

\* All followers have answered; one failure is enough to stop.
FollowersDone ==
    /\ rot.at = "followers" /\ rot.todo = {}
    /\ \/ /\ rot.bad /\ RotBreaks(token)
       \/ /\ ~rot.bad /\ rot' = [rot EXCEPT !.at = "self"]
          /\ UNCHANGED spoiled
    /\ UNCHANGED <<leader, secrets, versions, upg, moves, faults, rotations>>

\* The leader rotates itself last.
RotateLeader ==
    /\ rot.at = "self"
    /\ \/ /\ ~sidecar[rot.runner]
          /\ RotateSelf(rot.runner)
          /\ rot' = RotEnd("done")
          /\ UNCHANGED <<spoiled, faults>>
       \/ /\ sidecar[rot.runner]
          /\ token' = [token EXCEPT ![rot.runner] = 1]
          /\ RotBreaks(token')
          /\ UNCHANGED <<sidecar, faults>>
       \/ /\ Fault
          /\ \/ UNCHANGED token
             \/ token' = [token EXCEPT ![rot.runner] = 1]
          /\ RotBreaks(token')
          /\ UNCHANGED sidecar
    /\ UNCHANGED <<leader, auth, versions, upg, moves, rotations>>

\* The peer at which the upgrade stands: its runner first, then by number.
Turn == IF upg.runner \in upg.todo THEN upg.runner ELSE Min(upg.todo)

\* The sidecar recreates n's control plane from the rendered compose file: the
\* daemon has the token of the file, and what it was doing is lost.
SidecarFires(n) ==
    /\ sidecar[n]
    /\ sidecar' = [sidecar EXCEPT ![n] = FALSE]
    /\ auth' = [auth EXCEPT ![n] = token[n]]
    /\ upg' = IF UpgLive /\ (upg.runner = n \/ (upg.at = "recreate" /\ Turn = n))
              THEN UpgEnd("failed") ELSE upg
    /\ UNCHANGED token
    /\ IF RotLive /\ rot.runner = n THEN RotBreaks(token) ELSE UNCHANGED <<rot, spoiled>>
    /\ UNCHANGED <<leader, versions, moves, faults, rotations>>

\* The host is restarted before the sidecar's five seconds are over, or its
\* compose command fails: the daemon keeps the old token.
SidecarLost(n) ==
    /\ sidecar[n] /\ Fault
    /\ sidecar' = [sidecar EXCEPT ![n] = FALSE]
    /\ spoiled' = TRUE
    /\ UNCHANGED <<leader, token, auth, versions, rot, upg, moves, rotations>>

-----------------------------------------------------------------------------
(* version-upgrade *)

\* The operator runs the upgrade, again after it failed; when there is nothing
\* to upgrade it is a rolling restart.  One upgrade at a time, as for rotations.
SubmitUpgrade ==
    /\ ~UpgLive
    /\ upg' = [at |-> "next", runner |-> leader, todo |-> Node]
    /\ UNCHANGED <<leader, secrets, versions, rot, spoiled, moves, faults, rotations>>

\* The next peer, reached with the runner's token, changes its cluster.env.
UpgradeWrite ==
    /\ upg.at = "next" /\ upg.todo # {}
    /\ Accepts(Turn, upg.runner)
    /\ tag' = [tag EXCEPT ![Turn] = 1]
    /\ upg' = [upg EXCEPT !.at = "recreate"]
    /\ UNCHANGED <<leader, secrets, image, anchor, rot, spoiled, moves, faults, rotations>>

\* It renders, pulls, recreates its Milvus and waits for it.
UpgradeRecreate ==
    /\ upg.at = "recreate"
    /\ image' = [image EXCEPT ![Turn] = tag[Turn]]
    /\ upg' = [upg EXCEPT !.at = "next", !.todo = @ \ {Turn}]
    /\ UNCHANGED <<leader, secrets, tag, anchor, rot, spoiled, moves, faults, rotations>>

\* Faulty variant: the rollout goes on past a peer that failed.
UpgradeSkips ==
    /\ upg.at \in {"next", "recreate"} /\ upg.todo # {}
    /\ \/ ~Accepts(Turn, upg.runner) /\ UNCHANGED faults
       \/ Accepts(Turn, upg.runner) /\ Fault
    /\ upg' = [upg EXCEPT !.at = "next", !.todo = @ \ {Turn}]
    /\ UNCHANGED <<leader, secrets, versions, rot, spoiled, moves, rotations>>

\* The peer refuses the token, or a step of it fails, or its answer is late:
\* its Milvus may have been recreated all the same.  The rollout stops.
UpgradeFails ==
    /\ upg.at \in {"next", "recreate"} /\ upg.todo # {}
    /\ \/ /\ upg.at = "next" /\ ~Accepts(Turn, upg.runner)
          /\ UNCHANGED <<image, faults>>
       \/ /\ Accepts(Turn, upg.runner) /\ Fault
          /\ image' \in {image, [image EXCEPT ![Turn] = tag[Turn]]}
    /\ upg' = UpgEnd("failed")
    /\ UNCHANGED <<leader, secrets, tag, anchor, rot, spoiled, moves, rotations>>

\* Faulty variant: every upgrade that ends counts the version up.
PutAnchorCounts ==
    /\ upg.at = "next" /\ upg.todo = {}
    /\ anchor' = anchor + 1
    /\ upg' = UpgEnd("done")
    /\ UNCHANGED <<leader, secrets, tag, image, rot, spoiled, moves, faults, rotations>>

\* After the last peer the anchor is put; a failure of that is only logged.
PutAnchor ==
    /\ upg.at = "next" /\ upg.todo = {}
    /\ \/ anchor' = 1 /\ UNCHANGED faults
       \/ Fault /\ UNCHANGED anchor
    /\ upg' = UpgEnd("done")
    /\ UNCHANGED <<leader, secrets, tag, image, rot, spoiled, moves, rotations>>

-----------------------------------------------------------------------------
Rotate ==
    \/ FollowersDone \/ RotateLeader
    \/ \E n \in Node : RotateFollower(n) \/ RotateFollowerFails(n)

Upgrade == UpgradeWrite \/ UpgradeRecreate \/ UpgradeFails \/ PutAnchor

Next ==
    \/ SubmitRotate \/ Rotate
    \/ SubmitUpgrade \/ Upgrade
    \/ \E n \in Node : LeaderMoves(n) \/ SidecarFires(n) \/ SidecarLost(n)

Spec == Init /\ [][Next]_vars

\* Jobs go on, sidecars fire, and the operator repeats the upgrade.
FairSpec ==
    /\ Spec
    /\ WF_vars(Rotate) /\ WF_vars(Upgrade) /\ WF_vars(SubmitUpgrade)
    /\ \A n \in Node : WF_vars(SidecarFires(n))

-----------------------------------------------------------------------------
(* Properties *)

Upgraded == anchor = 1 /\ \A n \in Node : tag[n] = 1 /\ image[n] = 1

\* "Refresh the cluster-wide version anchor" only after the sweep
\* (version_upgrade.py 121-133): whatever fails, is repeated, or is killed by a
\* rotation, once the anchor has the new version every peer runs it.
AnchorIsTruth == anchor = 1 => \A n \in Node : tag[n] = 1 /\ image[n] = 1

\* An upgrade that is repeated succeeds in the end, although a rotation may
\* take the token away from under it and recreate the daemon that runs it:
\* when the rotation is over all daemons share one token again (rotate_token.py
\* 91-122).  A rotation that broke off half-way is the exception.
UpgradeConverges == <>[](Upgraded \/ spoiled)

=============================================================================
