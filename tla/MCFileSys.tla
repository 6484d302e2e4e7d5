----------------------------- MODULE MCFileSys -----------------------------
(***************************************************************************)
(* A disk of sectors with two cells each, and clients with one open file   *)
(* each.  Neither clients nor bytes are told apart by the specification.   *)
(***************************************************************************)
EXTENDS FileSys, TLC

Interchangeable == Permutations(Clients) \cup Permutations(Bytes)
=============================================================================
