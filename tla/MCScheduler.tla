---------------------------- MODULE MCScheduler ----------------------------
(***************************************************************************)
(* Schedules for small instances of Scheduler.                              *)
(***************************************************************************)
EXTENDS Scheduler

MCPlanOf == [s \in Schedules |-> CHOOSE plan \in Plans : TRUE]
MCSlots  == [s \in Schedules |-> {1, 2}]
=============================================================================
