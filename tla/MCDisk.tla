------------------------------- MODULE MCDisk -------------------------------
(***************************************************************************)
(* Bytes of two values, so that four sectors' addresses need all four      *)
(* bytes of an address, and counts of up to three both bytes of a count.   *)
(***************************************************************************)
EXTENDS Disk
=============================================================================
