-------------------------- MODULE MCSchedulerQueue --------------------------
(* Small instances of SchedulerQueue for TLC: the buffer wraps twice.       *)
EXTENDS SchedulerQueue
=============================================================================
