---------------------------- MODULE MCScheduler ----------------------------
(* A small instance of Scheduler for TLC: a source with two series and one  *)
(* without any.                                                             *)
EXTENDS SchedulerProofs, TLC

CONSTANTS ine, empty, x, y

MCSeriesOf == ine :> {x, y} @@ empty :> {}
=============================================================================
