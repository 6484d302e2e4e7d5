------------------------------ MODULE MCPaths ------------------------------
(***************************************************************************)
(* Three files or directories with two names, one of which begins like the *)
(* other, paths of up to three names, and two clients.                     *)
(***************************************************************************)
EXTENDS Paths, TLC

SomeNames == {<<"a">>, <<"a", "b">>}

SomePaths == {<<>>, << <<"a">> >>, << <<"a", "b">> >>, << <<"a">>, <<"a">> >>,
              << <<"a">>, <<"a", "b">> >>, << <<"a">>, <<"a">>, <<"a", "b">> >>}

Interchangeable == Permutations(Clients)
=============================================================================
