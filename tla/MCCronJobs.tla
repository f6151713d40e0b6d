----------------------------- MODULE MCCronJobs -----------------------------
(* CronJobs with one job and the requests of one editor. *)
EXTENDS CronJobs

CONSTANTS j1, e1
=============================================================================
