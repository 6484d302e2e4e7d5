----------------------------- MODULE MCConsole -----------------------------
(***************************************************************************)
(* A screen of three rows and two columns, one task that prints and the    *)
(* keyboard's handler.  Characters are not told apart.                     *)
(***************************************************************************)
EXTENDS Console, TLC

Interchangeable == Permutations(Chars)
=============================================================================
