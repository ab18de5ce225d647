----------------------------- MODULE MCThreadpool -----------------------------
(* A small instance of Threadpool for TLC. *)
EXTENDS Threadpool

\* A plain node, a node without work and two products in a row.
OneGraph == {<<"op", "nop", "mul", "mul">>}
PoolThreads == 0..NThreads - 1
=============================================================================
