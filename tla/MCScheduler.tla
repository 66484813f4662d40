---------------------------- MODULE MCScheduler ----------------------------
(* Scheduler with a few threads, and the places where a signal may come. *)
EXTENDS Scheduler

CONSTANTS t1, t2, t3, t4

Everywhere == OnThread \cup OnMain \cup {"caller", "destroy"}
=============================================================================
