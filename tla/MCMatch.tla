------------------------------- MODULE MCMatch -------------------------------
(* Small instances of Match for TLC: trees that are compiled, trees that are  *)
(* then matched by one thread, and trees that are matched by two.  A route's  *)
(* context is the route, so that an answer tells which route was found.       *)
EXTENDS Match

CONSTANTS d1, d2, fallback

NamesDef == {1, 2, 3}

Agree(q) == \A i, j \in DOMAIN q : i < j => Compatible(q[i], q[j])
(* Routes in every order, which is the order of the children; or in one.    *)
Lists(list, sizes) == UNION {{q \in [1..n -> list] : Agree(q)} : n \in sizes}
Sets(list, sizes) == {q \in {SetToSeq(S) : S \in UNION {kSubset(n, list) : n \in sizes}} : Agree(q)}
TreesOf(lists) == {TreeOf(q, q) : q \in lists}

CompileList ==
    LET a == Lit(1)  b == Lit(2)  c == Lit(3)  x == Par(1)  y == Par(2)
    IN  { <<End>>, <<Wildcard>>, <<c, End>>, <<c, Trailing>>, <<c, Wildcard>>, <<a, Trailing>>,
          <<b, a, End>>, <<b, c, Wildcard>>, <<c, y, End>>, <<c, y, x, End>>,
          <<a, y, b, Wildcard>>, <<b, a, x, Trailing>> }
CompileTrees == TreesOf(Lists(CompileList, 0..3) \cup Sets(CompileList, {4}))

RouteList ==
    LET a == Lit(1)  b == Lit(2)  x == Par(1)  y == Par(2)
    IN  { <<End>>, <<Wildcard>>, <<a, End>>, <<a, Trailing>>, <<a, Wildcard>>,
          <<b, End>>, <<b, a, End>>, <<b, a, Wildcard>>, <<a, x, End>>, <<a, x, y, Trailing>>,
          <<a, b, y, a, End>>, <<y, b, Wildcard>>, <<y, x, End>>, <<a, b, b, End>> }
MatchTrees == TreesOf(Sets(RouteList, 1..3))

(* Routes of trees that tell the dispatchers apart when they interleave.    *)
FewLists ==
    LET a == Lit(1)  b == Lit(2)  x == Par(1)  y == Par(2)
    IN  { << <<a, Wildcard>>, <<a, a, x, End>>, <<b, y, Wildcard>> >>,
          << <<Wildcard>>, <<a, b, Trailing>>, <<a, Wildcard>> >>,
          << <<y, x, End>>, <<y, End>>, <<End>>, <<y, x, Wildcard>> >> }
FewTrees == TreesOf(FewLists)

TreesDef == CompileTrees \cup MatchTrees \cup FewTrees
ContextsDef == CompileList \cup RouteList \cup (UNION {ToSet(q) : q \in FewLists}) \cup {fallback}

PathsOf(names, lengths) ==
    (UNION {{[i \in 1..n |-> Lit(s[i])] \o <<e>> : s \in [1..n -> names], e \in {End, Trailing, Illegal}}
             : n \in lengths}) \ {<<Trailing>>}

PathsDef == PathsOf({1, 2, 3}, 0..1) \cup PathsOf({1, 2}, 2..3) \cup PathsOf({1, 3}, {2})
            \cup {<<Lit(1), Lit(2), Lit(i), Lit(j), e>> : i, j \in {1, 2}, e \in {End, Trailing, Illegal}}
FewPaths == PathsOf({1, 2}, {2}) \cup {<<End>>, <<Lit(1), Trailing>>, <<Lit(1), Lit(1), Lit(1), End>>}
NextPaths == {<<Lit(1), End>>, <<Lit(1), Lit(2), Illegal>>, <<Lit(2), Lit(1), Lit(1), End>>}

-----------------------------------------------------------------------------
(* How many threads make requests depends on the tree; the first request of *)
(* a single thread is any, later ones are a few.                            *)
VARIABLE threads

ThreadsOf(t) == IF t \in FewTrees THEN 2 ELSE IF t \in MatchTrees THEN 1 ELSE 0

SomeInit == MatchInit /\ threads = ThreadsOf(tree)

SomeNext ==
    /\ \/ GraphNext /\ UNCHANGED disp
       \/ \E d \in Dispatchers : MatchStep(d)
       \/ threads = 1 /\ \E p \in (IF disp[d1] = Idle THEN PathsDef ELSE NextPaths) : Dispatch(d1, p)
       \/ threads = 2 /\ \E d \in Dispatchers, p \in FewPaths : Dispatch(d, p)
    /\ UNCHANGED threads

someVars == <<matchVars, threads>>
SomeSpec == /\ SomeInit /\ [][SomeNext]_someVars
            /\ \A d \in Dispatchers : WF_someVars(MatchStep(d) /\ UNCHANGED threads)
=============================================================================
