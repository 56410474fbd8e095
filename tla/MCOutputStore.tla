---------------------------- MODULE MCOutputStore ----------------------------
(* OutputStore for TLC: two processes, one of them with two goroutines. *)
EXTENDS OutputStore

SomeWorkers == {<<1, 1>>, <<1, 2>>, <<2, 1>>}
SomeSearchers == {<<2, 1>>}
SomeBodies == {<<"a", "b", "a", "b", "a">>, <<"a", "a">>}
SomeQueries == {<<"a">>, <<"a", "a">>, <<"a", "b", "a">>}

=============================================================================
