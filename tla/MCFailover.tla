------------------------------ MODULE MCFailover ------------------------------
(* A primary and two backups. *)
EXTENDS Failover
==============================================================================
