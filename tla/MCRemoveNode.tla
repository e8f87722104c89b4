---------------------------- MODULE MCRemoveNode ----------------------------
(* The boot peer is a particular one; there is no symmetry to use. *)
EXTENDS RemoveNode
=============================================================================
