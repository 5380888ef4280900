------------------------------- MODULE MCCpp -------------------------------
(* Two builders, two routers and two handlers, so that each can be moved to  *)
(* an object that has something to lose; one dispatcher.                     *)
EXTENDS Cpp
CONSTANTS b1, b2, r1, r2, n1, n2, d1, h1, h2
SymmetryDef == Permutations(Builders) \cup Permutations(Routers) \cup Permutations(Natives)
               \cup Permutations(Contexts)
=============================================================================
