----------------------------- MODULE MCScanJobs -----------------------------
(***************************************************************************)
(* ScanJobs for TLC: one worker, as docker/supervisord.conf deploys it.    *)
(***************************************************************************)
EXTENDS ScanJobs
=============================================================================
