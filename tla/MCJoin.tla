------------------------------- MODULE MCJoin -------------------------------
(* Model-checking instances of Join.  Temporal properties admit no symmetry *)
(* between daemons or between joiners.                                       *)
EXTENDS Join
=============================================================================
