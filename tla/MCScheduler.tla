---------------------------- MODULE MCScheduler ----------------------------
(* The scheduler with four processes, one of which never sleeps.           *)
EXTENDS Scheduler

MCCallers == 1..(MAX_NUM_PROCESSES - 1)
MCSleepTimes == {0, 1, 3}
=============================================================================
