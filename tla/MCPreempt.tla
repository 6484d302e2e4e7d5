----------------------------- MODULE MCPreempt -----------------------------
(* Kernel calls interleaved with the timer interrupt, for two or three tasks. *)
EXTENDS Preempt
=============================================================================
