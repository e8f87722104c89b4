------------------------------- MODULE MCJobs -------------------------------
(* Model-checking instances of Jobs.  Temporal properties admit no symmetry *)
(* between the daemons.                                                     *)
EXTENDS Jobs
=============================================================================
