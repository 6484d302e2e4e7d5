------------------------------ MODULE MCPaging ------------------------------
(***************************************************************************)
(* Two callers start programs in a memory of 24 pages with 6 entries each. *)
(* Neither callers nor programs are told apart by the specification.       *)
(***************************************************************************)
EXTENDS Paging, TLC

Interchangeable == Permutations(Callers) \cup Permutations(Programs)
=============================================================================
