----------------------------- MODULE MCBuilder -----------------------------
(* Small instances of History, and so of Builder, for TLC.                 *)
EXTENDS History

CONSTANTS c1, c2, MaxRoutes

NamesDef == {1, 2, 3}

(* Every shape of conflict at the root and one level down, with prefixes   *)
(* shared by several routes, and the ill-formed endings.  The third names  *)
(* fill the symbol tables and the root's children in the middle of a call. *)
PatternsDef ==
    LET a == Lit(1)  b == Lit(2)  c == Lit(3)  x == Par(1)  y == Par(2)
    IN  { <<End>>, <<Wildcard, End>>, <<Illegal>>,
          <<a, End>>, <<a, Trailing>>, <<a, Wildcard, End>>,
          <<a, b, End>>, <<a, b, Trailing>>, <<a, a, End>>,
          <<a, x, End>>, <<a, x, b, End>>, <<a, y, Trailing>>,
          <<b, End>>, <<x, End>>, <<x, Wildcard, End>>, <<x, y, End>>,
          <<y, a, Trailing>>, <<Wildcard, a, End>>, <<a, Wildcard, Trailing>>,
          <<a, b, Illegal>>, <<b, x, a, End>>,
          <<c, Par(3), x, End>> }

FewRoutes == Cardinality(Held(tree)) <= MaxRoutes
=============================================================================
