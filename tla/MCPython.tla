------------------------------ MODULE MCPython ------------------------------
(* Small instances of Python for TLC: two threads, one context, one builder   *)
(* and the routers and dispatchers made after it.                             *)
EXTENDS Python
CONSTANTS t1, t2, c1, b1, r1, d1
SymmetryDef == Permutations(Threads)
=============================================================================
