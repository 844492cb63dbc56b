---------------------------- MODULE MCScheduler ----------------------------
(* A small instance of Scheduler: one schedule, of an Agent or of an       *)
(* extension, with interval or cron timing.                                *)
EXTENDS Scheduler
=============================================================================
