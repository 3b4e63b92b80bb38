----------------------------- MODULE MCScheduler ------------------------------
(***************************************************************************)
(* The scheduler with the idle thread below, the main thread above and the   *)
(* others between them.                                                      *)
(***************************************************************************)
EXTENDS Scheduler

Priorities == [t \in Threads |-> IF t = Main THEN 0 ELSE IF t = Idle THEN 2 ELSE 1]
=============================================================================
