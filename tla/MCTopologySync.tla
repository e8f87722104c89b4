--------------------------- MODULE MCTopologySync ---------------------------
(* Peers are numbers, ordered by their names; there is no symmetry to use. *)
EXTENDS TopologySync
=============================================================================
