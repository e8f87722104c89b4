---------------------------- MODULE MCClusterEnv ----------------------------
(* The writers differ, so there is no symmetry to use. *)
EXTENDS ClusterEnv
=============================================================================
