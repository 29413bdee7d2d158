---------------------------- MODULE MCPrintJobs ----------------------------
(***************************************************************************)
(* PrintJobs for TLC: one worker, as docker/supervisord.conf deploys it.   *)
(***************************************************************************)
EXTENDS PrintJobs
=============================================================================
