--------------------------- MODULE RolloutProofs ---------------------------
(***************************************************************************)
(* Theorems about Rollout, for any finite set of peers and any number of   *)
(* handovers, faults and rotations.                                        *)
(*                                                                         *)
(* AnchorIsTruth is not inductive: the anchor is put by a job that has     *)
(* gone through the peers one by one, while rotations recreate daemons     *)
(* and upgrades are broken off and repeated around it.  The argument is    *)
(* that the peers an upgrade has left behind it run the new version, that  *)
(* the peer it stands at has the new tag before it is recreated, and that  *)
(* no peer runs a version its cluster.env does not have, so that recreating*)
(* a peer again never takes the version back.                              *)
(*                                                                         *)
(* Both jobs write to cluster.env of every peer.  The second half of the   *)
(* module is about that file and all who write to it (ClusterEnv).         *)
(***************************************************************************)
EXTENDS Rollout, ClusterEnv, TLAPS, WellFoundedInduction

\* No peer runs the new version without the new tag.
ImageHasTag == \A n \in Node : image[n] = 1 => tag[n] = 1

\* The peers the upgrade under way has come past run the new version.
Swept == UpgLive => \A n \in Node \ upg.todo : image[n] = 1

\* The peer whose Milvus is about to be recreated has the new tag.
Written == upg.at = "recreate" => upg.todo # {} /\ tag[Turn] = 1

IInv == TypeOK /\ ImageHasTag /\ Swept /\ Written /\ AnchorIsTruth

-----------------------------------------------------------------------------
(* Operators *)

\* A set of numbers has a minimum, and Min is it.
LEMMA MinInSet ==
    ASSUME NEW S \in SUBSET Nat, S # {}
    PROVE  Min(S) \in S /\ \A x \in S : Min(S) <= x
  <1>1. PICK m \in S : \A x \in S : ~(<<x, m>> \in OpToRel(<, Nat))
    BY WFMin, NatLessThanWellFounded
  <1>2. \A x \in S : m <= x
    <2> SUFFICES ASSUME NEW x \in S PROVE ~(x < m)
      OBVIOUS
    <2>1. <<x, m>> \in Nat \X Nat
      OBVIOUS
    <2>. QED
      BY <1>1, <2>1, Zenon DEF OpToRel
  <1>. QED
    BY <1>2 DEF Min

\* The peer at which an upgrade stands is one it has not done yet.
LEMMA TurnInTodo ==
    ASSUME TypeOK, upg.todo # {}
    PROVE  Turn \in upg.todo
  BY MinInSet, NodeAssumption DEF TypeOK, Turn

\* A function stays within its range when it changes at one argument.
LEMMA ExceptType ==
    ASSUME NEW T, NEW f \in [Node -> T], NEW n, NEW v \in T
    PROVE  [f EXCEPT ![n] = v] \in [Node -> T]
  OBVIOUS

\* A peer's token or tag becomes the new one.
LEMMA NewValueType ==
    ASSUME NEW f \in [Node -> 0..1], NEW n
    PROVE  [f EXCEPT ![n] = 1] \in [Node -> 0..1]
  <1>1. 1 \in 0..1
    OBVIOUS
  <1>. QED
    BY <1>1, ExceptType, Zenon

\* What a rotation ends with.
LEMMA RotBreaksType ==
    ASSUME TypeOK, NEW tokens, RotBreaks(tokens)
    PROVE  /\ rot' \in [at : {"idle", "followers", "self", "done", "failed"},
                        runner : Node \cup {0}, todo : SUBSET Node, bad : BOOLEAN]
           /\ spoiled' \in BOOLEAN
  BY DEF TypeOK, RotBreaks, RotEnd

\* A step of a rotation, or one that breaks an upgrade off, does not matter to
\* the versions.
LEMMA QuietVersions ==
    ASSUME IInv, TypeOK', UNCHANGED versions,
           upg' \in {upg, UpgEnd("failed"), UpgEnd("done")}
    PROVE  IInv'
  <1>1. (ImageHasTag /\ AnchorIsTruth)'
    BY DEF IInv, ImageHasTag, AnchorIsTruth, versions
  <1>2. (Swept /\ Written)'
    BY DEF IInv, Swept, Written, UpgLive, UpgEnd, Turn, versions
  <1>. QED
    BY <1>1, <1>2 DEF IInv

-----------------------------------------------------------------------------
(* One step of the specification *)

\* One step of the specification keeps the inductive invariant.
LEMMA IInvStep == IInv /\ [Next]_vars => IInv'
  <1> SUFFICES ASSUME IInv, [Next]_vars
               PROVE  IInv'
    OBVIOUS
  <1> USE NodeAssumption, BoundAssumption
  <1>0. TypeOK
    BY DEF IInv
  <1>1. CASE SubmitRotate
    <2>1. TypeOK'
      BY <1>0, <1>1 DEF TypeOK, SubmitRotate, secrets, versions
    <2>. QED
      BY <1>1, <2>1, QuietVersions DEF SubmitRotate
  <1>2. ASSUME NEW n \in Node, RotateFollower(n) PROVE IInv'
    <2>1. TypeOK'
      BY <1>0, <1>2 DEF TypeOK, RotateFollower, RotateSelf, versions
    <2>. QED
      BY <1>2, <2>1, QuietVersions DEF RotateFollower
  <1>3. ASSUME NEW n \in Node, RotateFollowerFails(n) PROVE IInv'
    <2>1. TypeOK'
      <3>1. /\ token' \in [Node -> 0..1] /\ sidecar' \in [Node -> BOOLEAN]
            /\ faults' \in 0..MaxFaults
        <4>1. token' = token \/ token' = [token EXCEPT ![n] = 1]
          BY <1>3 DEF RotateFollowerFails, RotateSelf
        <4>2. sidecar' = sidecar \/ sidecar' = [sidecar EXCEPT ![n] = TRUE]
          BY <1>3 DEF RotateFollowerFails, RotateSelf
        <4>3. faults' = faults \/ Fault
          BY <1>3 DEF RotateFollowerFails
        <4>. QED
          BY <1>0, <4>1, <4>2, <4>3, NewValueType DEF TypeOK, Fault
      <3>2. rot' \in [at : {"idle", "followers", "self", "done", "failed"},
                      runner : Node \cup {0}, todo : SUBSET Node, bad : BOOLEAN]
        BY <1>0, <1>3 DEF TypeOK, RotateFollowerFails
      <3>. QED
        BY <1>0, <1>3, <3>1, <3>2 DEF TypeOK, RotateFollowerFails, versions
    <2>. QED
      BY <1>3, <2>1, QuietVersions DEF RotateFollowerFails
  <1>4. CASE FollowersDone
    <2>1. TypeOK'
      BY <1>0, <1>4, RotBreaksType DEF TypeOK, FollowersDone, secrets, versions
    <2>. QED
      BY <1>4, <2>1, QuietVersions DEF FollowersDone
  <1>5. CASE RotateLeader
    <2>1. /\ token' \in [Node -> 0..1] /\ sidecar' \in [Node -> BOOLEAN]
          /\ faults' \in 0..MaxFaults
      <3>1. \/ token' = token
            \/ token' = [token EXCEPT ![rot.runner] = 1]
        BY <1>5 DEF RotateLeader, RotateSelf
      <3>2. \/ sidecar' = sidecar
            \/ sidecar' = [sidecar EXCEPT ![rot.runner] = TRUE]
        BY <1>5 DEF RotateLeader, RotateSelf
      <3>3. faults' = faults \/ Fault
        BY <1>5 DEF RotateLeader
      <3>. QED
        BY <1>0, <3>1, <3>2, <3>3, NewValueType DEF TypeOK, Fault
    <2>2. /\ rot' \in [at : {"idle", "followers", "self", "done", "failed"},
                       runner : Node \cup {0}, todo : SUBSET Node, bad : BOOLEAN]
          /\ spoiled' \in BOOLEAN
      <3>1. \/ rot' = RotEnd("done") /\ spoiled' = spoiled
            \/ RotBreaks(token')
        BY <1>5 DEF RotateLeader
      <3>. QED
        <4>1. rot' = RotEnd("done") \/ rot' = RotEnd("failed")
          BY <3>1 DEF RotBreaks
        <4>2. \/ spoiled' = spoiled
              \/ spoiled' = (spoiled \/ \E n \in Node : token'[n] = 1)
          BY <3>1, Zenon DEF RotBreaks
        <4>3. spoiled' \in BOOLEAN
          BY <1>0, <4>2 DEF TypeOK
        <4>4. \A at \in {"done", "failed"} :
                 RotEnd(at) \in [at : {"idle", "followers", "self", "done", "failed"},
                                 runner : Node \cup {0}, todo : SUBSET Node,
                                 bad : BOOLEAN]
          BY DEF RotEnd
        <4>. QED
          BY <4>1, <4>3, <4>4
    <2>3. TypeOK'
      BY <1>0, <1>5, <2>1, <2>2 DEF TypeOK, RotateLeader, versions
    <2>. QED
      BY <1>5, <2>3, QuietVersions DEF RotateLeader
  <1>6. ASSUME NEW n \in Node, SidecarFires(n) PROVE IInv'
    <2>1. upg' \in {upg, UpgEnd("failed")}
      BY <1>6 DEF SidecarFires
    <2>2. /\ rot' \in [at : {"idle", "followers", "self", "done", "failed"},
                       runner : Node \cup {0}, todo : SUBSET Node, bad : BOOLEAN]
          /\ spoiled' \in BOOLEAN
      BY <1>0, <1>6, RotBreaksType DEF TypeOK, SidecarFires
    <2>3. TypeOK'
      BY <1>0, <1>6, <2>1, <2>2 DEF TypeOK, SidecarFires, UpgEnd, versions
    <2>. QED
      BY <1>6, <2>1, <2>3, QuietVersions DEF SidecarFires
  <1>7. ASSUME NEW n \in Node, SidecarLost(n) PROVE IInv'
    <2>1. TypeOK'
      BY <1>0, <1>7 DEF TypeOK, SidecarLost, Fault, versions
    <2>. QED
      BY <1>7, <2>1, QuietVersions DEF SidecarLost
  <1>8. ASSUME NEW n \in Node, LeaderMoves(n) PROVE IInv'
    <2>1. TypeOK'
      BY <1>0, <1>8 DEF TypeOK, LeaderMoves, secrets, versions
    <2>. QED
      BY <1>8, <2>1, QuietVersions DEF LeaderMoves
  <1>9. CASE SubmitUpgrade
    <2>1. TypeOK'
      BY <1>0, <1>9 DEF TypeOK, SubmitUpgrade, secrets, versions
    <2>2. (ImageHasTag /\ AnchorIsTruth)'
      BY <1>9 DEF IInv, ImageHasTag, AnchorIsTruth, SubmitUpgrade, versions
    <2>3. (Swept /\ Written)'
      BY <1>9 DEF Swept, Written, SubmitUpgrade
    <2>. QED
      BY <2>1, <2>2, <2>3 DEF IInv
  <1>10. CASE UpgradeWrite
    <2>1. Turn \in Node /\ Turn' = Turn
      BY <1>0, <1>10, TurnInTodo DEF TypeOK, UpgradeWrite, Turn
    <2>2. TypeOK'
      <3>1. tag' \in [Node -> 0..1]
        BY <1>0, <1>10, NewValueType DEF TypeOK, UpgradeWrite
      <3>2. upg' \in [at : {"idle", "next", "recreate", "done", "failed"},
                      runner : Node \cup {0}, todo : SUBSET Node]
        BY <1>0, <1>10 DEF TypeOK, UpgradeWrite
      <3>. QED
        BY <1>0, <1>10, <3>1, <3>2 DEF TypeOK, UpgradeWrite, secrets
    <2>3. (ImageHasTag /\ AnchorIsTruth)'
      BY <1>0, <1>10 DEF IInv, TypeOK, ImageHasTag, AnchorIsTruth, UpgradeWrite
    <2>4. Swept'
      BY <1>0, <1>10 DEF IInv, TypeOK, Swept, UpgLive, UpgradeWrite
    <2>5. Written'
      BY <1>0, <1>10, <2>1 DEF TypeOK, Written, UpgradeWrite
    <2>. QED
      BY <2>2, <2>3, <2>4, <2>5 DEF IInv
  <1>11. CASE UpgradeRecreate
    <2>1. Turn \in upg.todo /\ tag[Turn] = 1
      BY <1>0, <1>11, TurnInTodo DEF IInv, Written, UpgradeRecreate
    <2>2. TypeOK'
      BY <1>0, <1>11 DEF TypeOK, UpgradeRecreate, secrets
    <2>3. (ImageHasTag /\ AnchorIsTruth)'
      BY <1>0, <1>11, <2>1 DEF IInv, TypeOK, ImageHasTag, AnchorIsTruth, UpgradeRecreate
    <2>4. Swept'
      BY <1>0, <1>11, <2>1 DEF IInv, TypeOK, Swept, UpgLive, UpgradeRecreate
    <2>5. Written'
      BY <1>0, <1>11 DEF TypeOK, Written, UpgradeRecreate
    <2>. QED
      BY <2>2, <2>3, <2>4, <2>5 DEF IInv
  <1>12. CASE UpgradeFails
    <2>1. Turn \in Node
      BY <1>0, <1>12, TurnInTodo DEF TypeOK, UpgradeFails
    <2>2. TypeOK'
      BY <1>0, <1>12, <2>1 DEF TypeOK, UpgradeFails, UpgEnd, Fault, secrets
    <2>3. (ImageHasTag /\ AnchorIsTruth)'
      BY <1>0, <1>12, <2>1 DEF IInv, TypeOK, ImageHasTag, AnchorIsTruth, UpgradeFails
    <2>4. (Swept /\ Written)'
      BY <1>12 DEF Swept, Written, UpgLive, UpgradeFails, UpgEnd
    <2>. QED
      BY <2>2, <2>3, <2>4 DEF IInv
  <1>13. CASE PutAnchor
    <2>1. TypeOK'
      BY <1>0, <1>13 DEF TypeOK, PutAnchor, UpgEnd, Fault, secrets
    <2>2. \A n \in Node : image[n] = 1 /\ tag[n] = 1
      BY <1>13 DEF IInv, Swept, UpgLive, ImageHasTag, PutAnchor
    <2>3. (ImageHasTag /\ AnchorIsTruth)'
      BY <1>13, <2>2 DEF ImageHasTag, AnchorIsTruth, PutAnchor
    <2>4. (Swept /\ Written)'
      BY <1>13 DEF Swept, Written, UpgLive, PutAnchor, UpgEnd
    <2>. QED
      BY <2>1, <2>3, <2>4 DEF IInv
  <1>14. CASE UNCHANGED vars
    <2>1. TypeOK'
      BY <1>0, <1>14 DEF TypeOK, vars, secrets, versions
    <2>. QED
      BY <1>14, <2>1, QuietVersions DEF vars
  <1>. QED
    BY <1>1, <1>2, <1>3, <1>4, <1>5, <1>6, <1>7, <1>8, <1>9, <1>10, <1>11,
       <1>12, <1>13, <1>14 DEF Next, Rotate, Upgrade

\* The inductive invariant holds throughout.
LEMMA Inductive == Spec => []IInv
  <1>1. Init => IInv
    <2> SUFFICES ASSUME Init PROVE IInv
      OBVIOUS
    <2>1. Min(Node) \in Node
      BY MinInSet, NodeAssumption
    <2>2. TypeOK
      <3>1. /\ token \in [Node -> 0..1] /\ auth \in [Node -> 0..1]
            /\ sidecar \in [Node -> BOOLEAN]
            /\ tag \in [Node -> 0..1] /\ image \in [Node -> 0..1] /\ anchor \in 0..1
        BY DEF Init
      <3>2. moves \in 0..MaxMoves /\ faults \in 0..MaxFaults /\ rotations \in 0..MaxRotations
        BY BoundAssumption DEF Init
      <3>3. /\ rot \in [at : {"idle", "followers", "self", "done", "failed"},
                        runner : Node \cup {0}, todo : SUBSET Node, bad : BOOLEAN]
            /\ upg \in [at : {"idle", "next", "recreate", "done", "failed"},
                        runner : Node \cup {0}, todo : SUBSET Node]
        BY DEF Init, RotEnd, UpgEnd
      <3>. QED
        BY <2>1, <3>1, <3>2, <3>3 DEF Init, TypeOK
    <2>3. ImageHasTag /\ Swept /\ Written /\ AnchorIsTruth
      BY DEF Init, ImageHasTag, Swept, Written, AnchorIsTruth, UpgLive, UpgEnd
    <2>. QED
      BY <2>2, <2>3 DEF IInv
  <1>. QED
    BY <1>1, IInvStep, PTL DEF Spec

-----------------------------------------------------------------------------
(* Theorems *)

\* The variables stay within their types, through rotations and upgrades that
\* run at the same time (rotate_token.py, version_upgrade.py).
THEOREM TypeCorrect == Spec => []TypeOK
  BY Inductive, PTL DEF IInv

\* /cluster/milvus_version has the new version only when every peer has it in
\* its cluster.env and runs it (version_upgrade.py, run_version_upgrade),
\* however often the upgrade was broken off, repeated or killed by a rotation.
THEOREM AnchorTold == Spec => []AnchorIsTruth
  BY Inductive, PTL DEF IInv

-----------------------------------------------------------------------------
(***************************************************************************)
(* The file cluster.env of one peer, with any of its writers at work and   *)
(* any number of writings, failures and exits of the daemon.  A write is   *)
(* lost, or the file found without a key, only because a writer does       *)
(* several steps from reading the file to replacing it; the argument       *)
(* follows the contents each writer carries (buf) in between.              *)
(*                                                                         *)
(* All threads of the daemon share the name of the temporary file, so what *)
(* is promised needs OneThreadAtATime.  handlers._lock orders those that   *)
(* take it, and no more, so LockKeepsWrites needs OneWithoutLock: of two   *)
(* that carry contents without the lock, one can bring back a value the    *)
(* other has taken away, and a holder of the lock that read in between     *)
(* takes it away once more.  And it is about the keys all writers of which *)
(* take the lock (Guarded): the leader's own upgrade writes                *)
(* MILVUS_IMAGE_TAG without it.                                            *)
(***************************************************************************)

\* No two threads of the daemon are between opening the temporary file and
\* renaming it.
OneThreadAtATime ==
    \A v, w \in Writer \cap Threads :
        pc[v] \in {"write", "replace"} /\ pc[w] \in {"write", "replace"} => v = w

\* w has read the file and has not replaced it yet.
Carries(w) == pc[w] \in {"open", "write", "replace"}

\* No two of those that take no lock do so at once.
OneWithoutLock == \A v, w \in Writer \ Locked : Carries(v) /\ Carries(w) => v = w

\* Nobody is past its last key.
KeyInRange == \A w \in Writer : key[w] <= Len(Keys[w])

\* A thread has the temporary file open exactly while it writes, and what it
\* renames is what it wrote.
TmpIsOwned ==
    \A w \in Writer :
        /\ fd[w] = IF pc[w] = "write" THEN "tmp" ELSE "none"
        /\ pc[w] \in {"open", "write"} => w \in Threads
        /\ w \in Threads /\ pc[w] = "replace" => tmp = buf[w]

\* Whoever carries contents carries every key.
BufIsWhole == \A w \in Writer : Carries(w) => \A k \in Key : buf[w][k] # 0

FileInv == EnvTypeOK /\ KeyInRange /\ TmpIsOwned /\ FileIsWhole /\ BufIsWhole

\* The lock is with the writer at work that takes it, and with nobody else.
LockIsHeld == \A w \in Writer : lock = w <=> w \in Locked /\ pc[w] # "idle"

\* No guarded key has a value from later than the latest writing of its writer.
Latest ==
    \A w \in Writer : \A k \in KeysOf({w}) \cap Guarded :
        (file[k] <= rounds[w] + 1) /\ (\A v \in Writer : buf[v][k] <= rounds[w] + 1)

\* The holder of the lock carries no value older than the file's, and a writer
\* without the lock none newer, of the guarded keys.
Ahead ==
    \A w \in Writer \cap Locked :
        Carries(w) => \A k \in Guarded : file[k] <= buf[w][k]

Behind ==
    \A w \in Writer \ Locked :
        Carries(w) => \A k \in Guarded : buf[w][k] <= file[k]

LockInv == LockIsHeld /\ Latest /\ Ahead /\ Behind

\* A guarded key has one writer, and that one takes the lock.
LEMMA KeyFacts ==
    /\ \A w \in DOMAIN Keys : Len(Keys[w]) \in 1..2
    /\ \A w \in DOMAIN Keys : \A i \in 1..Len(Keys[w]) : Keys[w][i] \in KeysOf({w})
    /\ \A w \in DOMAIN Keys : KeysOf({w}) \subseteq Key
    /\ \A w \in Writer \ Locked : \A k \in KeysOf({w}) : k \notin Guarded
    /\ \A v, w \in Writer : \A k \in KeysOf({v}) \cap Guarded : k \in KeysOf({w}) => v = w
    /\ Guarded \subseteq Key
  <1>1. /\ DOMAIN Keys = {"topology", "pulsar", "token", "upgrade", "lead", "cli"}
        /\ Keys["topology"] = <<"PEER_IPS", "PEER_NAMES">>
        /\ Keys["pulsar"] = <<"PULSAR_HOST">>
        /\ Keys["token"] = <<"CLUSTER_TOKEN">>
        /\ Keys["upgrade"] = <<"MILVUS_IMAGE_TAG">>
        /\ Keys["lead"] = <<"MILVUS_IMAGE_TAG">>
        /\ Keys["cli"] = <<"HOST_REPO_ROOT">>
    BY DEF Keys
  <1>2. /\ \A w \in DOMAIN Keys : Len(Keys[w]) \in 1..2
        /\ \A w \in DOMAIN Keys : DOMAIN Keys[w] = 1..Len(Keys[w])
    <2>1. Len(Keys["topology"]) = 2 /\ DOMAIN Keys["topology"] = 1..2
      BY <1>1
    <2>2. ASSUME NEW w \in DOMAIN Keys \ {"topology"}
          PROVE  Len(Keys[w]) = 1 /\ DOMAIN Keys[w] = 1..1
      <3>1. PICK k : Keys[w] = <<k>>
        BY <1>1
      <3>. QED
        BY <3>1
    <2>. QED
      BY <2>1, <2>2
  <1>3. /\ KeysOf({"topology"}) = {"PEER_IPS", "PEER_NAMES"}
        /\ KeysOf({"pulsar"}) = {"PULSAR_HOST"}
        /\ KeysOf({"token"}) = {"CLUSTER_TOKEN"}
        /\ KeysOf({"upgrade"}) = {"MILVUS_IMAGE_TAG"}
        /\ KeysOf({"lead"}) = {"MILVUS_IMAGE_TAG"}
        /\ KeysOf({"cli"}) = {"HOST_REPO_ROOT"}
    BY <1>1 DEF KeysOf
  <1>4. KeysOf(Locked) = {"PEER_IPS", "PEER_NAMES", "MILVUS_IMAGE_TAG"}
    BY <1>1 DEF KeysOf, Locked
  <1>5. Key = {"PEER_IPS", "PEER_NAMES", "PULSAR_HOST", "CLUSTER_TOKEN",
                   "MILVUS_IMAGE_TAG", "HOST_REPO_ROOT"}
    BY DEF Key, KeysOf, Keys
  <1>6. \A w \in DOMAIN Keys : \A i \in 1..Len(Keys[w]) : Keys[w][i] \in KeysOf({w})
    BY <1>2 DEF KeysOf
  <1>7. \A w \in DOMAIN Keys : KeysOf({w}) \subseteq Key
    BY <1>1, <1>3, <1>5
  <1>8. \A w \in Writer \ Locked : \A k \in KeysOf({w}) : k \notin Guarded
    <2>1. \A w \in Writer \ Locked : KeysOf({w}) \subseteq KeysOf(Writer \ Locked)
      BY DEF KeysOf
    <2>. QED
      BY <2>1 DEF Guarded
  <1>9. \A v, w \in Writer : \A k \in KeysOf({v}) \cap Guarded : k \in KeysOf({w}) => v = w
    <2> SUFFICES ASSUME NEW v \in Writer, NEW w \in Writer,
                        NEW k \in KeysOf({v}) \cap Guarded, k \in KeysOf({w})
                 PROVE  v = w
      OBVIOUS
    <2>1. v \in Locked /\ w \in Locked
      BY <1>8
    <2>. QED
      BY <1>3, <2>1 DEF Locked
  <1>10. Guarded \subseteq Key
    BY <1>4, <1>5 DEF Guarded
  <1>. QED
    BY <1>2, <1>6, <1>7, <1>8, <1>9, <1>10

\* Where a step puts a writer: back to "idle", or on within its key or to the next.
LEMMA AdvanceType ==
    ASSUME EnvTypeOK, KeyInRange, NEW w \in Writer, Advance(w)
    PROVE  /\ pc' = [pc EXCEPT ![w] = "read"] \/ pc' = [pc EXCEPT ![w] = "idle"]
           /\ key' \in [Writer -> 1..2] /\ KeyInRange'
           /\ lock' \in {lock, NoWriter}
  <1>1. Len(Keys[w]) \in 1..2 /\ \A v \in Writer : Len(Keys[v]) \in 1..2
    BY KeyFacts, WriterAssumption
  <1>2. CASE key[w] < Len(Keys[w])
    <2>1. /\ key' = [key EXCEPT ![w] = key[w] + 1] /\ pc' = [pc EXCEPT ![w] = "read"]
          /\ lock' \in {lock, NoWriter}
      BY <1>2 DEF Advance, GoTo
    <2>2. key' \in [Writer -> 1..2]
      <3>1. key \in [Writer -> 1..2] /\ key[w] \in 1..2
        BY DEF EnvTypeOK
      <3>2. PICK m \in 1..2 : m = Len(Keys[w])
        BY <1>1
      <3>3. key[w] < m
        BY <1>2, <3>2
      <3>4. key[w] + 1 \in 1..2
        BY <3>1, <3>3
      <3>. QED
        BY <2>1, <3>1, <3>4
    <2>3. KeyInRange'
      BY <1>1, <1>2, <2>1 DEF EnvTypeOK, KeyInRange
    <2>. QED
      BY <2>1, <2>2, <2>3
  <1>3. CASE ~(key[w] < Len(Keys[w]))
    <2>1. /\ key' = [key EXCEPT ![w] = 1] /\ pc' = [pc EXCEPT ![w] = "idle"]
          /\ lock' \in {lock, NoWriter}
      BY <1>3 DEF Advance, GoTo
    <2>2. key' \in [Writer -> 1..2]
      BY <1>1, <1>3, <2>1 DEF EnvTypeOK
    <2>3. KeyInRange'
      BY <1>1, <1>3, <2>1 DEF EnvTypeOK, KeyInRange
    <2>. QED
      BY <2>1, <2>2, <2>3
  <1>. QED
    BY <1>2, <1>3

\* Every step keeps the variables within their types.
LEMMA EnvTypeStep ==
    ASSUME EnvTypeOK, KeyInRange, [EnvNext]_envVars
    PROVE  EnvTypeOK' /\ KeyInRange'
  <1> USE DEF EnvTypeOK, KeyInRange
  <1>0. \A v \in Writer : Len(Keys[v]) \in 1..2
    BY KeyFacts, WriterAssumption
  <1>1. ASSUME NEW w \in Writer, Begin(w) PROVE EnvTypeOK' /\ KeyInRange'
    BY <1>1, EnvBoundAssumption DEF Begin, TakeLock, GoTo
  <1>2. ASSUME NEW w \in Writer, Read(w) PROVE EnvTypeOK' /\ KeyInRange'
    <2>1. [file EXCEPT ![MyKey(w)] = rounds[w] + 1] \in Contents
      <3>1. rounds[w] + 1 \in 0..(MaxRounds + 1)
        BY EnvBoundAssumption
      <3>. QED
        BY <3>1 DEF Contents
    <2>. QED
      BY <1>2, <2>1 DEF Read, GoTo
  <1>3. ASSUME NEW w \in Writer, OpenTmp(w) PROVE EnvTypeOK' /\ KeyInRange'
    <2>1. Empty \in Contents
      BY EnvBoundAssumption DEF Empty, Contents
    <2>. QED
      BY <1>3, <2>1 DEF OpenTmp, GoTo
  <1>4. ASSUME NEW w \in Writer, Write(w) PROVE EnvTypeOK' /\ KeyInRange'
    BY <1>4 DEF Write, GoTo
  <1>5. ASSUME NEW w \in Writer, Replace(w) PROVE EnvTypeOK' /\ KeyInRange'
    <2>1. Advance(w) /\ tmp # NoFile
      BY <1>5 DEF Replace
    <2>. QED
      BY <1>5, <2>1, AdvanceType DEF Replace
  <1>6. ASSUME NEW w \in Writer, Raise(w) PROVE EnvTypeOK' /\ KeyInRange'
    <2>1. fails' \in 0..MaxFails
      BY <1>6, EnvBoundAssumption DEF Raise, Raises
    <2>2. key' \in [Writer -> 1..2] /\ KeyInRange'
      BY <1>0, <1>6 DEF Raise, Leave
    <2>. QED
      BY <1>6, <2>1, <2>2 DEF Raise, Leave, GoTo
  <1>7. ASSUME NEW w \in Writer, Move(w) PROVE EnvTypeOK' /\ KeyInRange'
    <2>1. Advance(w)
      BY <1>7 DEF Move
    <2>. QED
      BY <1>7, <2>1, AdvanceType DEF Move
  <1>8. CASE ExitDaemon
    <2>1. fails' \in 0..MaxFails
      BY <1>8, EnvBoundAssumption DEF ExitDaemon
    <2>2. key' \in [Writer -> 1..2]
      BY <1>8 DEF ExitDaemon
    <2>3. KeyInRange'
      <3> SUFFICES ASSUME NEW w \in Writer PROVE 1 <= Len(Keys[w])
        BY <1>8 DEF ExitDaemon
      <3>1. PICK m \in 1..2 : m = Len(Keys[w])
        BY <1>0
      <3>. QED
        BY <3>1
    <2>4. pc' \in [Writer -> {"idle", "read", "open", "write", "replace"}]
      BY <1>8 DEF ExitDaemon
    <2>5. fd' \in [Writer -> {"none", "tmp", "file", "gone"}]
      BY <1>8 DEF ExitDaemon
    <2>6. /\ file' \in Contents /\ tmp' \in Contents \cup {NoFile}
          /\ lock' \in Writer \cup {NoWriter}
          /\ buf' \in [Writer -> Contents] /\ rounds' \in [Writer -> 0..MaxRounds]
      BY <1>8 DEF ExitDaemon
    <2> HIDE DEF KeyInRange
    <2>. QED
      BY <2>1, <2>2, <2>3, <2>4, <2>5, <2>6
  <1>9. CASE UNCHANGED envVars
    BY <1>9 DEF envVars, Contents
  <1>. QED
    BY <1>1, <1>2, <1>3, <1>4, <1>5, <1>6, <1>7, <1>8, <1>9 DEF EnvNext

\* While one thread of the daemon writes at a time, what is renamed is whole.
LEMMA FileStep ==
    ASSUME FileInv, EnvTypeOK',
           OneThreadAtATime, OneThreadAtATime', [EnvNext]_envVars
    PROVE  TmpIsOwned' /\ FileIsWhole' /\ BufIsWhole'
  <1>0. /\ EnvTypeOK /\ KeyInRange /\ TmpIsOwned /\ FileIsWhole /\ BufIsWhole
        /\ pc \in [Writer -> {"idle", "read", "open", "write", "replace"}]
        /\ buf \in [Writer -> Contents]
        /\ fd \in [Writer -> {"none", "tmp", "file", "gone"}]
    BY DEF FileInv, EnvTypeOK
  <1>1. ASSUME NEW w \in Writer, Begin(w) PROVE TmpIsOwned' /\ FileIsWhole' /\ BufIsWhole'
    <2>1. TmpIsOwned'
      BY <1>0, <1>1 DEF TmpIsOwned, Begin, GoTo
    <2>2. FileIsWhole'
      BY <1>0, <1>1 DEF FileIsWhole, Begin
    <2>3. BufIsWhole'
      BY <1>0, <1>1 DEF BufIsWhole, Carries, Begin, GoTo
    <2>. QED
      BY <2>1, <2>2, <2>3
  <1>2. ASSUME NEW w \in Writer, Read(w) PROVE TmpIsOwned' /\ FileIsWhole' /\ BufIsWhole'
    <2>1. TmpIsOwned'
      BY <1>0, <1>2 DEF TmpIsOwned, Read, GoTo
    <2>2. \A k \in Key : buf'[w][k] # 0
      <3>1. buf'[w] = [file EXCEPT ![MyKey(w)] = rounds[w] + 1]
        BY <1>0, <1>2 DEF Read
      <3>2. file \in [Key -> 0..(MaxRounds + 1)] /\ rounds[w] + 1 # 0
        BY <1>0, EnvBoundAssumption DEF EnvTypeOK, Contents
      <3>. QED
        BY <1>0, <3>1, <3>2 DEF FileIsWhole
    <2>3. BufIsWhole'
      BY <1>0, <1>2, <2>2 DEF BufIsWhole, Carries, Read, GoTo
    <2>4. FileIsWhole'
      BY <1>0, <1>2 DEF FileIsWhole, Read
    <2>. QED
      BY <2>1, <2>3, <2>4
  <1>3. ASSUME NEW w \in Writer, OpenTmp(w) PROVE TmpIsOwned' /\ FileIsWhole' /\ BufIsWhole'
    <2>1. \A v \in Writer \cap Threads : pc'[v] = "replace" => v = w
      BY <1>0, <1>3 DEF OneThreadAtATime, TmpIsOwned, OpenTmp, GoTo
    <2>2. TmpIsOwned'
      BY <1>0, <1>3, <2>1 DEF TmpIsOwned, OpenTmp, GoTo
    <2>3. FileIsWhole'
      BY <1>0, <1>3 DEF FileIsWhole, OpenTmp
    <2>4. BufIsWhole'
      BY <1>0, <1>3 DEF BufIsWhole, Carries, OpenTmp, GoTo
    <2>. QED
      BY <2>2, <2>3, <2>4
  <1>4. ASSUME NEW w \in Writer, Write(w) PROVE TmpIsOwned' /\ FileIsWhole' /\ BufIsWhole'
    <2>1. w \in Threads /\ fd[w] = "tmp" /\ tmp' = buf[w] /\ file' = file
      BY <1>0, <1>4 DEF TmpIsOwned, Write
    <2>2. \A v \in Writer \cap Threads : pc[v] = "replace" => v = w
      BY <1>4, <2>1 DEF OneThreadAtATime, Write
    <2>3. TmpIsOwned'
      BY <1>0, <1>4, <2>1, <2>2 DEF TmpIsOwned, Write, GoTo
    <2>4. BufIsWhole'
      BY <1>0, <1>4 DEF BufIsWhole, Carries, Write, GoTo
    <2>. QED
      BY <1>0, <2>1, <2>3, <2>4 DEF FileIsWhole
  <1>5. ASSUME NEW w \in Writer, Replace(w) PROVE TmpIsOwned' /\ FileIsWhole' /\ BufIsWhole'
    <2>1. w \in Threads /\ pc[w] = "replace" /\ tmp = buf[w] /\ file' = buf[w] /\ buf' = buf
      BY <1>0, <1>5 DEF TmpIsOwned, Replace
    <2>2. pc' = [pc EXCEPT ![w] = "read"] \/ pc' = [pc EXCEPT ![w] = "idle"]
      BY <1>0, <1>5, AdvanceType DEF Replace
    <2>3. \A v \in Writer : v # w => fd[v] = "none" /\ ~(v \in Threads /\ pc[v] = "replace")
      BY <1>0, <2>1 DEF OneThreadAtATime, TmpIsOwned
    <2>4. \A v \in Writer : fd'[v] = "none" /\ pc'[v] # "write"
      BY <1>0, <1>5, <2>1, <2>2, <2>3 DEF TmpIsOwned, Replace
    <2>5. TmpIsOwned'
      BY <1>0, <2>2, <2>3, <2>4 DEF TmpIsOwned
    <2>6. FileIsWhole'
      BY <1>0, <2>1 DEF FileIsWhole, BufIsWhole, Carries
    <2>7. BufIsWhole'
      BY <1>0, <2>1, <2>2 DEF BufIsWhole, Carries
    <2>. QED
      BY <2>5, <2>6, <2>7
  <1>6. ASSUME NEW w \in Writer, Raise(w) PROVE TmpIsOwned' /\ FileIsWhole' /\ BufIsWhole'
    <2>1. TmpIsOwned'
      BY <1>0, <1>6 DEF TmpIsOwned, Raise, GoTo, Leave
    <2>2. FileIsWhole'
      BY <1>0, <1>6 DEF FileIsWhole, Raise, Leave
    <2>3. BufIsWhole'
      BY <1>0, <1>6 DEF BufIsWhole, Carries, Raise, GoTo, Leave
    <2>. QED
      BY <2>1, <2>2, <2>3
  <1>7. ASSUME NEW w \in Writer, Move(w) PROVE TmpIsOwned' /\ FileIsWhole' /\ BufIsWhole'
    <2>1. w \notin Threads /\ pc[w] = "replace" /\ tmp' = tmp /\ file' = buf[w] /\ buf' = buf
      BY <1>7 DEF Move
    <2>2. pc' = [pc EXCEPT ![w] = "read"] \/ pc' = [pc EXCEPT ![w] = "idle"]
      BY <1>0, <1>7, AdvanceType DEF Move
    <2>3. fd' = fd
      BY <1>0, <1>7 DEF TmpIsOwned, Move
    <2>4. TmpIsOwned'
      BY <1>0, <2>1, <2>2, <2>3 DEF TmpIsOwned
    <2>5. FileIsWhole'
      BY <1>0, <2>1 DEF FileIsWhole, BufIsWhole, Carries
    <2>6. BufIsWhole'
      BY <1>0, <2>1, <2>2 DEF BufIsWhole, Carries
    <2>. QED
      BY <2>4, <2>5, <2>6
  <1>8. CASE ExitDaemon
    <2>1. TmpIsOwned'
      <3>1. "cli" \notin Threads
        BY DEF Threads
      <3>. QED
        BY <1>0, <1>8, <3>1 DEF TmpIsOwned, ExitDaemon
    <2>. QED
      BY <1>0, <1>8, <2>1 DEF FileIsWhole, BufIsWhole, Carries, ExitDaemon
  <1>9. CASE UNCHANGED envVars
    BY <1>0, <1>9 DEF TmpIsOwned, FileIsWhole, BufIsWhole, Carries, envVars
  <1>. QED
    BY <1>1, <1>2, <1>3, <1>4, <1>5, <1>6, <1>7, <1>8, <1>9 DEF EnvNext

\* Values are numbers.
LEMMA ValueType ==
    ASSUME EnvTypeOK
    PROVE  /\ \A k \in Key : file[k] \in Nat
           /\ \A w \in Writer : rounds[w] \in Nat /\ \A k \in Key : buf[w][k] \in Nat
  BY EnvBoundAssumption DEF EnvTypeOK, Contents

\* Whoever goes on to its next key keeps the lock, and nobody gives up another's.
LEMMA AdvanceLock ==
    ASSUME EnvTypeOK, LockIsHeld,
           NEW w \in Writer, pc[w] # "idle", Advance(w)
    PROVE  LockIsHeld'
  <1>1. CASE key[w] < Len(Keys[w])
    <2>1. pc' = [pc EXCEPT ![w] = "read"] /\ lock' = lock
      BY <1>1 DEF Advance, GoTo
    <2>. QED
      BY <2>1, WriterAssumption DEF LockIsHeld, EnvTypeOK
  <1>2. CASE ~(key[w] < Len(Keys[w]))
    <2>1. pc' = [pc EXCEPT ![w] = "idle"] /\ lock' = IF lock = w THEN NoWriter ELSE lock
      BY <1>2 DEF Advance, GoTo
    <2>. QED
      BY <2>1, WriterAssumption DEF LockIsHeld, EnvTypeOK
  <1>. QED
    BY <1>1, <1>2

\* Every step hands the lock over as it is to be.
LEMMA HeldStep ==
    ASSUME EnvTypeOK, LockIsHeld, [EnvNext]_envVars
    PROVE  LockIsHeld'
  <1>0. /\ pc \in [Writer -> {"idle", "read", "open", "write", "replace"}]
        /\ lock \in Writer \cup {NoWriter}
        /\ \A v \in Writer : v # NoWriter
    BY WriterAssumption DEF EnvTypeOK
  <1>1. ASSUME NEW w \in Writer, Begin(w) PROVE LockIsHeld'
    BY <1>0, <1>1 DEF LockIsHeld, Begin, TakeLock, GoTo
  <1>2. ASSUME NEW w \in Writer, Read(w) PROVE LockIsHeld'
    BY <1>0, <1>2 DEF LockIsHeld, Read, GoTo
  <1>3. ASSUME NEW w \in Writer, OpenTmp(w) PROVE LockIsHeld'
    BY <1>0, <1>3 DEF LockIsHeld, OpenTmp, GoTo
  <1>4. ASSUME NEW w \in Writer, Write(w) PROVE LockIsHeld'
    BY <1>0, <1>4 DEF LockIsHeld, Write, GoTo
  <1>5. ASSUME NEW w \in Writer, Replace(w) PROVE LockIsHeld'
    BY <1>0, <1>5, AdvanceLock DEF Replace
  <1>6. ASSUME NEW w \in Writer, Raise(w) PROVE LockIsHeld'
    BY <1>0, <1>6 DEF LockIsHeld, Raise, GoTo, Leave, Raises
  <1>7. ASSUME NEW w \in Writer, Move(w) PROVE LockIsHeld'
    BY <1>0, <1>7, AdvanceLock DEF Move
  <1>8. CASE ExitDaemon
    <2>1. "cli" \notin Locked
      BY DEF Locked
    <2>. QED
      BY <1>0, <1>8, <2>1 DEF LockIsHeld, ExitDaemon
  <1>9. CASE UNCHANGED envVars
    BY <1>9 DEF LockIsHeld, envVars
  <1>. QED
    BY <1>1, <1>2, <1>3, <1>4, <1>5, <1>6, <1>7, <1>8, <1>9 DEF EnvNext

\* A file that is replaced by what its writer carries stays on the right side of
\* what the others carry.
LEMMA PutKeeps ==
    ASSUME EnvTypeOK, LockInv, OneWithoutLock,
           NEW w \in Writer, pc[w] = "replace",
           file' = buf[w], buf' = buf, rounds' = rounds,
           pc' = [pc EXCEPT ![w] = "read"] \/ pc' = [pc EXCEPT ![w] = "idle"]
    PROVE  /\ Latest' /\ Ahead' /\ Behind'
           /\ w \in Locked => \A k \in Guarded : file'[k] >= file[k]
  <1>1. /\ LockIsHeld /\ Latest /\ Ahead /\ Behind
        /\ pc \in [Writer -> {"idle", "read", "open", "write", "replace"}]
    BY DEF LockInv, EnvTypeOK
  <1>2. Latest'
    BY <1>1 DEF Latest
  <1>3. \A k \in Guarded : file[k] \in Nat /\ \A v \in Writer : buf[v][k] \in Nat
    BY ValueType, KeyFacts
  <1>4. \A v \in Writer : Carries(v)' => v # w /\ Carries(v)
    BY <1>1 DEF Carries
  <1>5. Ahead'
    <2> SUFFICES ASSUME NEW v \in Writer \cap Locked, Carries(v)',
                        NEW k \in Guarded
                 PROVE  buf[w][k] <= buf[v][k]
      BY DEF Ahead
    <2>1. v # w /\ Carries(v) /\ lock = v
      BY <1>1, <1>4 DEF Carries, LockIsHeld
    <2>2. w \notin Locked
      BY <1>1, <2>1 DEF LockIsHeld
    <2>3. buf[w][k] <= file[k] /\ file[k] <= buf[v][k]
      BY <1>1, <2>1, <2>2 DEF Ahead, Behind, Carries
    <2>. QED
      BY <1>3, <2>3
  <1>6. Behind'
    <2> SUFFICES ASSUME NEW v \in Writer \ Locked, Carries(v)',
                        NEW k \in Guarded
                 PROVE  buf[v][k] <= buf[w][k]
      BY DEF Behind
    <2>1. v # w /\ Carries(v)
      BY <1>4
    <2>2. w \in Locked
      BY <2>1 DEF OneWithoutLock, Carries
    <2>3. buf[v][k] <= file[k] /\ file[k] <= buf[w][k]
      BY <1>1, <2>1, <2>2 DEF Ahead, Behind, Carries
    <2>. QED
      BY <1>3, <2>3
  <1>7. w \in Locked => \A k \in Guarded : file'[k] >= file[k]
    BY <1>1, <1>3 DEF Ahead, Carries
  <1>. QED
    BY <1>2, <1>5, <1>6, <1>7

\* A step that neither changes the file nor what anyone carries, and after which
\* nobody carries who did not before, keeps their order.
LEMMA QuietKeeps ==
    ASSUME LockInv, file' = file, buf' = buf, rounds' = rounds,
           \A v \in Writer : Carries(v)' => Carries(v)
    PROVE  Latest' /\ Ahead' /\ Behind'
  BY DEF LockInv, Latest, Ahead, Behind

\* Every step keeps the lock with its holder, and the holder ahead of the file.
LEMMA LockStep ==
    ASSUME FileInv, LockInv, OneWithoutLock, [EnvNext]_envVars
    PROVE  LockInv'
  <1>0. /\ EnvTypeOK /\ KeyInRange /\ TmpIsOwned
        /\ pc \in [Writer -> {"idle", "read", "open", "write", "replace"}]
        /\ LockIsHeld /\ Latest /\ Ahead /\ Behind
    BY DEF FileInv, LockInv, EnvTypeOK
  <1> SUFFICES Latest' /\ Ahead' /\ Behind'
    BY <1>0, HeldStep DEF LockInv
  <1>1. ASSUME NEW w \in Writer, Begin(w) PROVE Latest' /\ Ahead' /\ Behind'
    <2>1. Latest'
      <3> SUFFICES ASSUME NEW v \in Writer, NEW k \in KeysOf({v}) \cap Guarded
                   PROVE  file[k] <= rounds'[v] + 1 /\ \A u \in Writer : buf[u][k] <= rounds'[v] + 1
        BY <1>1 DEF Latest, Begin
      <3>1. k \in Key
        BY KeyFacts, WriterAssumption
      <3>2. rounds[v] \in Nat /\ rounds'[v] \in Nat /\ rounds[v] <= rounds'[v]
        BY <1>0, <1>1, ValueType DEF Begin, EnvTypeOK
      <3>3. file[k] <= rounds[v] + 1 /\ \A u \in Writer : buf[u][k] <= rounds[v] + 1
        BY <1>0 DEF Latest
      <3>4. file[k] \in Nat /\ \A u \in Writer : buf[u][k] \in Nat
        BY <1>0, <3>1, ValueType
      <3>. QED
        BY <3>2, <3>3, <3>4
    <2>2. Ahead' /\ Behind'
      BY <1>0, <1>1 DEF Ahead, Behind, Carries, Begin, GoTo
    <2>. QED
      BY <2>1, <2>2
  <1>2. ASSUME NEW w \in Writer, Read(w) PROVE Latest' /\ Ahead' /\ Behind'
    <2> DEFINE c == [file EXCEPT ![MyKey(w)] = rounds[w] + 1]
    <2>1. /\ buf' = [buf EXCEPT ![w] = c] /\ file' = file /\ rounds' = rounds /\ lock' = lock
          /\ pc[w] = "read" /\ pc'[w] # "idle" /\ \A v \in Writer : v # w => pc'[v] = pc[v]
      BY <1>0, <1>2 DEF Read, GoTo
    <2>2. MyKey(w) \in KeysOf({w}) /\ MyKey(w) \in Key
      <3>1. key[w] \in 1..Len(Keys[w]) /\ w \in DOMAIN Keys
        <4>1. w \in DOMAIN Keys /\ key[w] \in 1..2 /\ key[w] <= Len(Keys[w])
          BY <1>0, WriterAssumption DEF EnvTypeOK, KeyInRange
        <4>2. PICK m \in 1..2 : m = Len(Keys[w])
          BY <4>1, KeyFacts
        <4>. QED
          BY <4>1, <4>2
      <3>. QED
        BY <3>1, KeyFacts DEF MyKey
    <2>3. \A k \in Key : c[k] = IF k = MyKey(w) THEN rounds[w] + 1 ELSE file[k]
      BY <1>0 DEF EnvTypeOK, Contents
    <2>4. \A v \in Writer : buf'[v] = IF v = w THEN c ELSE buf[v]
      BY <1>0, <2>1 DEF EnvTypeOK
    <2> HIDE DEF c
    <2>5. Latest'
      <3> SUFFICES ASSUME NEW v \in Writer, NEW k \in KeysOf({v}) \cap Guarded, NEW u \in Writer
                   PROVE  file[k] <= rounds[v] + 1 /\ buf'[u][k] <= rounds[v] + 1
        BY <2>1 DEF Latest
      <3>1. file[k] <= rounds[v] + 1 /\ buf[u][k] <= rounds[v] + 1
        BY <1>0 DEF Latest
      <3>2. k \in Key /\ (k = MyKey(w) => v = w)
        BY <2>2, KeyFacts, WriterAssumption
      <3>3. c[k] <= rounds[v] + 1
        BY <1>0, <2>3, <3>1, <3>2, ValueType
      <3>. QED
        BY <2>4, <3>1, <3>3
    <2>6. Ahead'
      <3> SUFFICES ASSUME NEW v \in Writer \cap Locked, Carries(v)',
                          NEW k \in Guarded
                   PROVE  file[k] <= buf'[v][k]
        BY <2>1 DEF Ahead
      <3>1. CASE v = w
        <4>1. file[k] \in Nat /\ k \in Key
          BY <1>0, ValueType, KeyFacts
        <4>2. k = MyKey(w) => file[k] <= rounds[w] + 1
          BY <1>0, <2>2 DEF Latest
        <4>. QED
          BY <2>3, <2>4, <3>1, <4>1, <4>2
      <3>2. CASE v # w
        BY <1>0, <2>1, <2>4, <3>2 DEF Ahead, Carries
      <3>. QED
        BY <3>1, <3>2
    <2>7. Behind'
      <3> SUFFICES ASSUME NEW v \in Writer \ Locked, Carries(v)',
                          NEW k \in Guarded
                   PROVE  buf'[v][k] <= file[k]
        BY <2>1 DEF Behind
      <3>1. CASE v = w
        <4>1. file[k] \in Nat /\ k \in Key /\ k # MyKey(w)
          BY <1>0, <2>2, <3>1, ValueType, KeyFacts, WriterAssumption
        <4>. QED
          BY <2>3, <2>4, <3>1, <4>1
      <3>2. CASE v # w
        BY <1>0, <2>1, <2>4, <3>2 DEF Behind, Carries
      <3>. QED
        BY <3>1, <3>2
    <2>. QED
      BY <2>5, <2>6, <2>7
  <1>3. ASSUME NEW w \in Writer, OpenTmp(w) PROVE Latest' /\ Ahead' /\ Behind'
    <2>1. file' = file /\ buf' = buf /\ rounds' = rounds
      BY <1>0, <1>3 DEF OpenTmp
    <2>2. \A v \in Writer : Carries(v)' => Carries(v)
      BY <1>0, <1>3 DEF Carries, OpenTmp, GoTo
    <2>. QED
      BY <2>1, <2>2, QuietKeeps
  <1>4. ASSUME NEW w \in Writer, Write(w) PROVE Latest' /\ Ahead' /\ Behind'
    <2>1. file' = file /\ buf' = buf /\ rounds' = rounds
      BY <1>0, <1>4 DEF Write, TmpIsOwned
    <2>2. \A v \in Writer : Carries(v)' => Carries(v)
      BY <1>0, <1>4 DEF Carries, Write, GoTo
    <2>. QED
      BY <2>1, <2>2, QuietKeeps
  <1>5. ASSUME NEW w \in Writer, Replace(w) PROVE Latest' /\ Ahead' /\ Behind'
    <2>1. /\ pc[w] = "replace" /\ file' = buf[w] /\ buf' = buf /\ rounds' = rounds
          /\ Advance(w)
      BY <1>0, <1>5 DEF Replace, TmpIsOwned
    <2>2. pc' = [pc EXCEPT ![w] = "read"] \/ pc' = [pc EXCEPT ![w] = "idle"]
      BY <1>0, <2>1, AdvanceType
    <2>. QED
      BY <1>0, <2>1, <2>2, PutKeeps
  <1>6. ASSUME NEW w \in Writer, Raise(w) PROVE Latest' /\ Ahead' /\ Behind'
    <2>1. file' = file /\ buf' = buf /\ rounds' = rounds
      BY <1>0, <1>6 DEF Raise
    <2>2. \A v \in Writer : Carries(v)' => Carries(v)
      BY <1>0, <1>6 DEF Carries, Raise, GoTo, Leave, Raises
    <2>. QED
      BY <2>1, <2>2, QuietKeeps
  <1>7. ASSUME NEW w \in Writer, Move(w) PROVE Latest' /\ Ahead' /\ Behind'
    <2>1. /\ pc[w] = "replace" /\ file' = buf[w] /\ buf' = buf /\ rounds' = rounds
          /\ Advance(w)
      BY <1>0, <1>7 DEF Move
    <2>2. pc' = [pc EXCEPT ![w] = "read"] \/ pc' = [pc EXCEPT ![w] = "idle"]
      BY <1>0, <2>1, AdvanceType
    <2>. QED
      BY <1>0, <2>1, <2>2, PutKeeps
  <1>8. CASE ExitDaemon
    <2>1. file' = file /\ buf' = buf /\ rounds' = rounds
      BY <1>8 DEF ExitDaemon
    <2>2. \A v \in Writer : Carries(v)' => Carries(v)
      BY <1>0, <1>8 DEF Carries, ExitDaemon
    <2>. QED
      BY <2>1, <2>2, QuietKeeps
  <1>9. CASE UNCHANGED envVars
    BY <1>0, <1>9 DEF Latest, Ahead, Behind, Carries, envVars
  <1>. QED
    BY <1>1, <1>2, <1>3, <1>4, <1>5, <1>6, <1>7, <1>8, <1>9 DEF EnvNext

\* The step of a writer that takes the lock takes back nothing of what the others
\* that take it have written.
LEMMA KeptStep ==
    ASSUME FileInv, LockInv, OneWithoutLock,
           EnvNext, NEW w \in Writer \cap Locked, pc'[w] # pc[w],
           NEW k \in Guarded
    PROVE  file'[k] >= file[k]
  <1>0. /\ EnvTypeOK /\ KeyInRange /\ TmpIsOwned
        /\ pc \in [Writer -> {"idle", "read", "open", "write", "replace"}]
        /\ file[k] \in Nat
    BY ValueType, KeyFacts DEF FileInv, EnvTypeOK
  <1>1. ASSUME NEW v \in Writer, Replace(v) \/ Move(v) PROVE file'[k] >= file[k]
    <2>1. /\ pc[v] = "replace" /\ file' = buf[v] /\ buf' = buf /\ rounds' = rounds
          /\ Advance(v)
      BY <1>0, <1>1 DEF Replace, Move, TmpIsOwned
    <2>2. pc' = [pc EXCEPT ![v] = "read"] \/ pc' = [pc EXCEPT ![v] = "idle"]
      BY <1>0, <2>1, AdvanceType
    <2>3. v = w
      BY <1>0, <2>2
    <2>. QED
      BY <1>0, <2>1, <2>2, <2>3, PutKeeps
  <1>2. ASSUME NEW v \in Writer,
               Begin(v) \/ Read(v) \/ OpenTmp(v) \/ Write(v) \/ Raise(v)
        PROVE  file'[k] >= file[k]
    <2>1. file' = file
      BY <1>0, <1>2 DEF TmpIsOwned, Begin, Read, OpenTmp, Write, Raise
    <2>. QED
      BY <1>0, <2>1
  <1>3. CASE ExitDaemon
    BY <1>0, <1>3 DEF ExitDaemon
  <1>. QED
    BY <1>1, <1>2, <1>3 DEF EnvNext

\* The invariants hold at first.
LEMMA EnvInvInit ==
    ASSUME EnvInit
    PROVE  FileInv /\ LockInv
  <1>1. EnvTypeOK
    BY EnvBoundAssumption DEF EnvInit, EnvTypeOK, Contents, Empty
  <1>2. KeyInRange
    <2> SUFFICES ASSUME NEW w \in Writer PROVE 1 <= Len(Keys[w])
      BY DEF KeyInRange, EnvInit
    <2>1. PICK m \in 1..2 : m = Len(Keys[w])
      BY KeyFacts, WriterAssumption
    <2>. QED
      BY <2>1
  <1>3. TmpIsOwned /\ FileIsWhole /\ BufIsWhole
    BY DEF TmpIsOwned, FileIsWhole, BufIsWhole, Carries, EnvInit
  <1>4. LockIsHeld /\ Ahead /\ Behind
    BY WriterAssumption DEF LockIsHeld, Ahead, Behind, Carries, EnvInit
  <1>5. Latest
    <2>1. \A w \in Writer : \A k \in KeysOf({w}) : k \in Key
      BY KeyFacts, WriterAssumption
    <2>. QED
      BY <2>1 DEF Latest, EnvInit, Empty
  <1>. QED
    BY <1>1, <1>2, <1>3, <1>4, <1>5 DEF FileInv, LockInv

\* The variables of cluster.env stay within their types, whoever writes to it.
THEOREM EnvTypeCorrect == EnvSpec => []EnvTypeOK
  <1>1. EnvInit => EnvTypeOK /\ KeyInRange
    BY EnvInvInit DEF FileInv
  <1>2. EnvTypeOK /\ KeyInRange /\ [EnvNext]_envVars => (EnvTypeOK /\ KeyInRange)'
    BY EnvTypeStep
  <1>. QED
    BY <1>1, <1>2, PTL DEF EnvSpec

\* FileInv holds as long as no two threads of the daemon write at once.
LEMMA FileInductive == EnvSpec /\ []OneThreadAtATime => []FileInv
  <1>1. EnvInit => FileInv
    BY EnvInvInit
  <1>2. FileInv /\ OneThreadAtATime /\ OneThreadAtATime' /\ [EnvNext]_envVars => FileInv'
    <2> SUFFICES ASSUME FileInv, OneThreadAtATime, OneThreadAtATime', [EnvNext]_envVars
                 PROVE  FileInv'
      OBVIOUS
    <2>1. EnvTypeOK' /\ KeyInRange'
      BY EnvTypeStep DEF FileInv
    <2>. QED
      BY <2>1, FileStep DEF FileInv
  <1>. QED
    BY <1>1, <1>2, PTL DEF EnvSpec

\* A reader of cluster.env finds every key at any time (handlers.py, _upsert_kv:
\* the temporary file and os.replace), though system calls fail half-way and the
\* daemon exits, whoever writes and however often, as long as no two threads of
\* the daemon are between open and os.replace at once.
THEOREM FileStaysWhole == EnvSpec /\ []OneThreadAtATime => []FileIsWhole
  BY FileInductive, PTL DEF FileInv

\* handlers._lock is with the topology handler or /upgrade-self exactly while that
\* one is at work, one at a time, and is never left behind (handlers.py 80-81 and
\* api.py 645-647, "async with"): not by an exception, not by an exit of the
\* daemon, however the threads interleave.  No other writer ever has it, not even
\* the leader's own upgrade (version_upgrade.py 112).
THEOREM LockFollowsWork == EnvSpec => []LockIsHeld
  <1>1. EnvInit => LockIsHeld
    BY EnvInvInit DEF LockInv
  <1>2. EnvTypeOK /\ LockIsHeld /\ [EnvNext]_envVars => LockIsHeld'
    BY HeldStep
  <1>. QED
    BY <1>1, <1>2, EnvTypeCorrect, PTL DEF EnvSpec

\* No step of a writer that takes handlers._lock undoes what another one that
\* takes it has written (handlers.py, on_topology_change; api.py, /upgrade-self)
\* to a key nobody writes without it, whatever writers without the lock, the
\* leader's own upgrade among them, put back in between, one at a time, and
\* wherever writes fail or the daemon exits.
THEOREM LockKeepsWrites ==
    EnvSpec /\ []OneThreadAtATime /\ []OneWithoutLock => LockedWritesAreKept
  <1>1. EnvInit => LockInv
    BY EnvInvInit
  <1>2. FileInv /\ LockInv /\ OneWithoutLock /\ [EnvNext]_envVars => LockInv'
    BY LockStep
  <1>3. FileInv /\ LockInv /\ OneWithoutLock /\ [EnvNext]_envVars =>
            [\A w \in Writer \cap Locked :
                pc'[w] # pc[w] =>
                    \A k \in KeysOf(Locked \ {w}) \cap Guarded :
                        file'[k] >= file[k]]_envVars
    <2> SUFFICES ASSUME FileInv, LockInv, OneWithoutLock, EnvNext,
                        NEW w \in Writer \cap Locked, pc'[w] # pc[w],
                        NEW k \in KeysOf(Locked \ {w}) \cap Guarded
                 PROVE  file'[k] >= file[k]
      OBVIOUS
    <2>. QED
      BY KeptStep
  <1>. QED
    BY <1>1, <1>2, <1>3, FileInductive, PTL DEF EnvSpec, LockedWritesAreKept

\* Where one thread of the daemon writes, and one writer takes no lock, both
\* promises hold without a condition on how their steps interleave.
COROLLARY OneThreadOneWithoutLock ==
    ASSUME \A v, w \in Writer \cap Threads : v = w,
           \A v, w \in Writer \ Locked : v = w
    PROVE  EnvSpec => []FileIsWhole /\ LockedWritesAreKept
  <1>1. OneThreadAtATime /\ OneWithoutLock
    BY DEF OneThreadAtATime, OneWithoutLock
  <1>. QED
    BY <1>1, FileStaysWhole, LockKeepsWrites, PTL

=============================================================================
