----------------------------- MODULE ClusterEnv -----------------------------
(***************************************************************************)
(* The file cluster.env of one peer, and those who rewrite single keys of  *)
(* it: threads of the daemon through _upsert_kv (daemon/handlers.py) for   *)
(* the topology handler, for /admin/sync-pulsar-host and for /rotate-self; *)
(* sed -i for an upgrade (daemon/workers/version_upgrade.py), which comes  *)
(* to a follower through /upgrade-self ("upgrade") and which the leader's  *)
(* worker calls for its own peer ("lead"); and the operator's commands     *)
(* through env_upsert_kv (lib/env.sh).                                     *)
(*                                                                         *)
(* The topology handler and /upgrade-self hold handlers._lock; the others  *)
(* take no lock, the leader's own upgrade among them.  _upsert_kv writes a *)
(* temporary file named after the process, so all threads of the daemon    *)
(* share the name; sed and the commands have temporary files of their own. *)
(*                                                                         *)
(* A value of a key is the number of the writing that wrote it, 0 if the   *)
(* file does not have the key.                                             *)
(*                                                                         *)
(* file      the contents of cluster.env                                   *)
(* tmp       those of the daemon's temporary file, NoFile if there is none *)
(* lock      the holder of handlers._lock, NoWriter if it is free          *)
(* pc[w]     "idle", "read", "open", "write", "replace"                    *)
(* key[w]    the number of the key, among those w writes in turn           *)
(* buf[w]    the contents w has read, with its own key changed             *)
(* fd[w]     where the file is that w has open: "tmp", "file" (it has been *)
(*           renamed), "gone" (and then replaced), "none"                  *)
(* rounds[w] how often w has begun                                         *)
(* fails     system calls that failed and exits of the daemon so far       *)
(*                                                                         *)
(* The names of the specification begin with Env: RolloutProofs extends    *)
(* both Rollout, whose jobs are two of the writers, and this module.       *)
(***************************************************************************)
EXTENDS Naturals, Sequences

CONSTANTS
    Writer,     \* those at work
    NoWriter,   \* nobody holds the lock
    NoFile,     \* no temporary file
    MaxRounds,  \* bound on how often each writes
    MaxFails    \* bound on failed system calls and on exits of the daemon

\* The keys each writes, in this order.
Keys == [topology |-> <<"PEER_IPS", "PEER_NAMES">>,
         pulsar   |-> <<"PULSAR_HOST">>,
         token    |-> <<"CLUSTER_TOKEN">>,
         upgrade  |-> <<"MILVUS_IMAGE_TAG">>,
         lead     |-> <<"MILVUS_IMAGE_TAG">>,
         cli      |-> <<"HOST_REPO_ROOT">>]

Locked == {"topology", "upgrade"}
Threads == {"topology", "pulsar", "token"}
KeysOf(writers) == UNION {{Keys[w][i] : i \in DOMAIN Keys[w]} : w \in writers}
Key == KeysOf(DOMAIN Keys)

\* The keys all writers of which take the lock.
Guarded == KeysOf(Locked) \ KeysOf(Writer \ Locked)

ASSUME WriterAssumption ==
    Writer \subseteq DOMAIN Keys /\ NoWriter \notin DOMAIN Keys
ASSUME EnvBoundAssumption == MaxRounds \in Nat /\ MaxFails \in Nat

VARIABLES file, tmp, lock, pc, key, buf, fd, rounds, fails
envVars == <<file, tmp, lock, pc, key, buf, fd, rounds, fails>>

Contents == [Key -> 0..(MaxRounds + 1)]
Empty == [k \in Key |-> 0]

EnvTypeOK ==
    /\ file \in Contents
    /\ tmp \in Contents \cup {NoFile}
    /\ lock \in Writer \cup {NoWriter}
    /\ pc \in [Writer -> {"idle", "read", "open", "write", "replace"}]
    /\ key \in [Writer -> 1..2]
    /\ buf \in [Writer -> Contents]
    /\ fd \in [Writer -> {"none", "tmp", "file", "gone"}]
    /\ rounds \in [Writer -> 0..MaxRounds]
    /\ fails \in 0..MaxFails

EnvInit ==
    /\ file = [k \in Key |-> 1]
    /\ tmp = NoFile
    /\ lock = NoWriter
    /\ pc = [w \in Writer |-> "idle"]
    /\ key = [w \in Writer |-> 1]
    /\ buf = [w \in Writer |-> Empty]
    /\ fd = [w \in Writer |-> "none"]
    /\ rounds = [w \in Writer |-> 0]
    /\ fails = 0

-----------------------------------------------------------------------------
GoTo(w, label) == pc' = [pc EXCEPT ![w] = label]

\* Faulty variant: nobody takes the lock.
TakeLockNever(w) == UNCHANGED lock

TakeLock(w) ==
    IF w \in Locked THEN lock = NoWriter /\ lock' = w ELSE UNCHANGED lock

Begin(w) ==
    /\ pc[w] = "idle" /\ rounds[w] < MaxRounds
    /\ TakeLock(w)
    /\ rounds' = [rounds EXCEPT ![w] = @ + 1]
    /\ GoTo(w, "read")
    /\ UNCHANGED <<file, tmp, key, buf, fd, fails>>

MyKey(w) == Keys[w][key[w]]

\* The lines are read, and one is changed or appended.
Read(w) ==
    /\ pc[w] = "read"
    /\ buf' = [buf EXCEPT ![w] = [file EXCEPT ![MyKey(w)] = rounds[w] + 1]]
    /\ GoTo(w, IF w \in Threads THEN "open" ELSE "replace")
    /\ UNCHANGED <<file, tmp, lock, key, fd, rounds, fails>>

\* Faulty variants: cluster.env is moved away first; it is itself opened for
\* writing.
OpenTmpMoves(w) ==
    /\ pc[w] = "open"
    /\ tmp' = file
    /\ file' = NoFile
    /\ fd' = [fd EXCEPT ![w] = "tmp"]
    /\ GoTo(w, "write")
    /\ UNCHANGED <<lock, key, buf, rounds, fails>>

OpenTmpInPlace(w) ==
    /\ pc[w] = "open"
    /\ file' = Empty
    /\ fd' = [fd EXCEPT ![w] = "file"]
    /\ GoTo(w, "write")
    /\ UNCHANGED <<tmp, lock, key, buf, rounds, fails>>

\* open(tmp, "w"): created, or emptied if another thread has it open.
OpenTmp(w) ==
    /\ pc[w] = "open"
    /\ tmp' = Empty
    /\ fd' = [fd EXCEPT ![w] = "tmp"]
    /\ GoTo(w, "write")
    /\ UNCHANGED <<file, lock, key, buf, rounds, fails>>

\* The lines are written when the file is closed, wherever it is by now.
Write(w) ==
    /\ pc[w] = "write"
    /\ tmp' = IF fd[w] = "tmp" THEN buf[w] ELSE tmp
    /\ file' = IF fd[w] = "file" THEN buf[w] ELSE file
    /\ fd' = [fd EXCEPT ![w] = "none"]
    /\ GoTo(w, "replace")
    /\ UNCHANGED <<lock, key, buf, rounds, fails>>

\* The writer is done with a key; it goes on to the next, or is done.
Advance(w) ==
    IF key[w] < Len(Keys[w])
    THEN /\ key' = [key EXCEPT ![w] = @ + 1]
         /\ GoTo(w, "read")
         /\ UNCHANGED lock
    ELSE /\ key' = [key EXCEPT ![w] = 1]
         /\ GoTo(w, "idle")
         /\ lock' = IF lock = w THEN NoWriter ELSE lock

\* os.replace(tmp, path), by whichever thread comes first.
Replace(w) ==
    /\ pc[w] = "replace" /\ w \in Threads /\ tmp # NoFile
    /\ file' = tmp
    /\ tmp' = NoFile
    /\ fd' = [v \in Writer |->
                CASE fd[v] = "tmp" -> "file"
                  [] fd[v] = "file" -> "gone"
                  [] OTHER -> fd[v]]
    /\ Advance(w)
    /\ UNCHANGED <<buf, rounds, fails>>

\* The exception leaves w; what it wrote so far stays in the temporary file.
Leave(w) ==
    /\ key' = [key EXCEPT ![w] = 1]
    /\ fd' = [fd EXCEPT ![w] = "none"]
    /\ GoTo(w, "idle")

\* open, write, chmod or replace raises; replace does so, too, when another
\* thread has renamed the file already.
Raises(w) ==
    /\ w \in Threads /\ pc[w] \in {"open", "write", "replace"}
    /\ IF pc[w] = "replace" /\ tmp = NoFile
       THEN UNCHANGED fails
       ELSE fails < MaxFails /\ fails' = fails + 1

\* Faulty variant: the lock is not released on an exception.
RaiseKeepsLock(w) ==
    /\ Raises(w) /\ Leave(w)
    /\ UNCHANGED <<file, tmp, lock, buf, rounds>>

Raise(w) ==
    /\ Raises(w) /\ Leave(w)
    /\ lock' = IF lock = w THEN NoWriter ELSE lock
    /\ UNCHANGED <<file, tmp, buf, rounds>>

\* The daemon goes, with its threads and the sed it has started; the operator's
\* commands go on.
ExitDaemon ==
    /\ fails < MaxFails /\ fails' = fails + 1
    /\ lock' = NoWriter
    /\ pc' = [w \in Writer |-> IF w = "cli" THEN pc[w] ELSE "idle"]
    /\ key' = [w \in Writer |-> 1]
    /\ fd' = [w \in Writer |-> "none"]
    /\ UNCHANGED <<file, tmp, buf, rounds>>

\* sed -i and mv rename a file nobody else knows.
Move(w) ==
    /\ pc[w] = "replace" /\ w \notin Threads
    /\ file' = buf[w]
    /\ fd' = [v \in Writer |-> IF fd[v] = "file" THEN "gone" ELSE fd[v]]
    /\ Advance(w)
    /\ UNCHANGED <<tmp, buf, rounds, fails>>

EnvNext ==
    \/ \E w \in Writer :
          \/ Begin(w) \/ Read(w) \/ OpenTmp(w) \/ Write(w)
          \/ Replace(w) \/ Raise(w) \/ Move(w)
    \/ ExitDaemon

EnvSpec == EnvInit /\ [][EnvNext]_envVars

\* Threads and commands run to their end, and the lock is fair.
EnvFairness ==
    \A w \in Writer :
       /\ WF_envVars(Read(w)) /\ WF_envVars(OpenTmp(w)) /\ WF_envVars(Write(w))
       /\ WF_envVars(Replace(w) \/ Raise(w)) /\ WF_envVars(Move(w))
       /\ SF_envVars(Begin(w))

EnvFairSpec == EnvSpec /\ EnvFairness

-----------------------------------------------------------------------------
(* Properties *)

\* A reader of cluster.env finds every key at any time (handlers.py 705-706),
\* though writes fail half-way and the daemon exits, as long as one thread of
\* the daemon writes at a time.
FileIsWhole == \A k \in Key : file[k] # 0

\* handlers._lock keeps those that take it from undoing each other's writes
\* (handlers.py 69-71, api.py 629-635) of the keys that are written under it
\* only, whatever one that takes no lock, the leader's own upgrade
\* (version_upgrade.py 112) or an operator's command, puts back in between.
LockedWritesAreKept ==
    [][ \A w \in Writer \cap Locked :
          pc'[w] # pc[w] =>
             \A k \in KeysOf(Locked \ {w}) \cap Guarded : file'[k] >= file[k] ]_envVars

\* Nobody waits for ever, although writers fail while they hold the lock (the
\* exception leaves "async with", handlers.py 80-81 and api.py 645-651).
EveryWriterGetsItsTurn == \A w \in Writer : <>(rounds[w] = MaxRounds)

=============================================================================
