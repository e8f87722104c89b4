--------------------------- MODULE MCLocalWatchdog ---------------------------
(* LocalWatchdog for TLC. *)
EXTENDS LocalWatchdog
=============================================================================
