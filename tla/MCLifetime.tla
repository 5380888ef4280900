----------------------------- MODULE MCLifetime -----------------------------
(* Small instances of Lifetime for TLC.                                    *)
EXTENDS Lifetime

CONSTANTS c1, c2, r1, r2, MaxRoutes

NamesDef == {1, 2}

(* A terminal of each kind, a parameter, conflicts and a bad ending        *)
PatternsDef ==
    LET a == Lit(1)  x == Par(1)
    IN  { <<End>>, <<a, Trailing>>, <<a, Wildcard, End>>, <<a, x, End>>, <<a, Illegal>> }

FewRoutes == Cardinality(Held(tree)) <= MaxRoutes
=============================================================================
