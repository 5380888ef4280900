------------------------------ MODULE MCErlang ------------------------------
(* Two processes, two blocks for resources, two contexts, lists of up to two  *)
(* routes: enough for two calls that make routers at once, or for one router  *)
(* that is resolved in one process while the other drops it.                  *)
EXTENDS Erlang
CONSTANTS p1, p2, r1, r2, c1, c2
=============================================================================
