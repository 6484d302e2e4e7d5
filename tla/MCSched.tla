------------------------------ MODULE MCSched ------------------------------
(* The scheduler with one or two segments, two idle tasks and a few others. *)
EXTENDS Sched
=============================================================================
