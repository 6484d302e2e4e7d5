---------------------------- MODULE MCInterrupts ----------------------------
(* Two tasks, one letter and the keys that change it. *)
EXTENDS Interrupts
=============================================================================
