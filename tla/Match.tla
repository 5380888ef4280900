-------------------------------- MODULE Match --------------------------------
(***************************************************************************)
(* router.c and dispatcher.c: dispatchers, each in a thread of its own,    *)
(* resolve request paths against one compiled router.  route_match takes   *)
(* one token per step, so the steps of the threads interleave; they share  *)
(* the router, which no step changes.                                      *)
(*                                                                         *)
(* A path is the sequence of tokens that lexer_next finds in it: literals, *)
(* then END, TRAILING or ILLEGAL.  A parameter's value points into the     *)
(* path: it is the position of its first token, and a literal's value ends *)
(* where the token does, a wildcard's where the path does.                 *)
(***************************************************************************)
EXTENDS Graph

CONSTANTS Dispatchers,  \* one per thread
          Paths,        \* the request paths
          Fallback      \* the context of the fallback route
(* A context stands for the record that is returned: &router->fallback is  *)
(* not one of the records in terminals.base.                               *)
ASSUME MatchAssumption ==
    /\ \A p \in Paths : /\ p \in Seq(Literals \cup {End, Trailing, Illegal}) /\ p # <<>>
                        /\ \A i \in 1..Len(p) : (i = Len(p)) <=> (p[i] \notin Literals)
    /\ Fallback \in Contexts
    /\ \A t \in Trees : \A r \in Held(t) : HeldContext(t, r) # Fallback

VARIABLE disp           \* the state of each dispatcher and of its thread

matchVars == <<graphVars, disp>>

WILDCARD_PARAM == NoName    \* the name "_", which no pattern can declare

(* pc: "idle" before the first request, "match" in route_match, "done"     *)
(* after it, "undefined" once a parameter is written beyond the array.     *)
(* path, at: the lexer; cursor: the node's offset; w_edge: where the edge  *)
(* of the most specific wildcard seen leads, 0 if none, and w_param what   *)
(* it would bind; result: the context found.                               *)
Idle == [pc |-> "idle", path |-> <<>>, at |-> 0, cursor |-> 0,
         w_edge |-> 0, w_param |-> 0, params |-> <<>>, result |-> NULL]

MatchInit == GraphInit /\ disp = [d \in Dispatchers |-> Idle]

-----------------------------------------------------------------------------
(* Mutant: all dispatchers record parameters in one array.                 *)
BecomeShared(d, state) ==
    /\ disp' = [e \in Dispatchers |-> IF e = d THEN state
                                      ELSE [disp[e] EXCEPT !.params = state.params]]
    /\ UNCHANGED graphVars

Become(d, state) == disp' = [disp EXCEPT ![d] = state] /\ UNCHANGED graphVars

(* Mutant: the parameter count is not reset.                               *)
DispatchKeeping(d, p) ==
    /\ phase = "done" /\ disp[d].pc \in {"idle", "done"}
    /\ Become(d, [Idle EXCEPT !.pc = "match", !.path = p, !.at = 1, !.params = disp[d].params])

(* wrouter_nresolve or wrouter_ndispatch: lexer_load, then route_match     *)
(* from the root with no parameters and no wildcard.                       *)
Dispatch(d, p) ==
    /\ phase = "done" /\ disp[d].pc \in {"idle", "done"}
    /\ Become(d, [Idle EXCEPT !.pc = "match", !.path = p, !.at = 1])

(* route_match at a node: the token, the node word, and the most specific  *)
(* wildcard, this node's if it has one.  A value is a position in the      *)
(* path, and the pointer of a token without text is null.                  *)
NodeOf(d) == disp[d].cursor
Tok(d) == disp[d].path[disp[d].at]
HasWildcard(d) == HasFlag(Word(NodeOf(d)), FLAG_WILDCARD)
(* Mutants: the least specific wildcard is kept; none is.                  *)
WEdgeFirst(d) == IF HasWildcard(d) /\ disp[d].w_edge = 0 THEN WildcardEdge(NodeOf(d))
                 ELSE disp[d].w_edge
WEdgeHere(d) == IF HasWildcard(d) THEN WildcardEdge(NodeOf(d)) ELSE 0
WEdge(d) == IF HasWildcard(d) THEN WildcardEdge(NodeOf(d)) ELSE disp[d].w_edge
WParam(d) == IF HasWildcard(d) THEN (IF Tok(d) \in Literals THEN disp[d].at ELSE 0)
             ELSE disp[d].w_param

(* The literal edge, from 1, that carries symbol s; 0 if there is none.    *)
(* The pairs are searched as terminals are, by code of route_match's own.  *)
FindEdge(o, s) ==
    IF s = 0 THEN 0 ELSE Search([i \in 1..LiteralCount(Word(o)) |-> EdgeSymbol(o, i)], s)

Edge(d) == FindEdge(NodeOf(d), Resolve(LiteralNames, Tok(d).str))

(* param_next: the next entry of an array of max_params; what happens when *)
(* there is none is undefined.                                             *)
Bind(d, name, value, state) ==
    IF Len(disp[d].params) < stats.max_params
    THEN [state EXCEPT !.params = Append(disp[d].params, <<name, value>>)]
    ELSE [Idle EXCEPT !.pc = "undefined"]

Finished(d, c) == [disp[d] EXCEPT !.pc = "done", !.result = c, !.w_edge = 0, !.w_param = 0,
                                  !.cursor = 0]

NextNode(d, o) == [disp[d] EXCEPT !.cursor = o, !.at = @ + 1,
                                  !.w_edge = WEdge(d), !.w_param = WParam(d)]

Matching(d) == disp[d].pc = "match"
AtLiteral(d) == Matching(d) /\ Tok(d) \in Literals
AtLost(d) == AtLiteral(d) /\ Edge(d) = 0 /\ ~HasFlag(Word(NodeOf(d)), FLAG_PARAM)

FollowEdge(d) ==
    /\ AtLiteral(d) /\ Edge(d) # 0
    /\ Become(d, NextNode(d, EdgeTarget(NodeOf(d), Edge(d))))

FollowParam(d) ==
    /\ AtLiteral(d) /\ Edge(d) = 0 /\ HasFlag(Word(NodeOf(d)), FLAG_PARAM)
    /\ Become(d, Bind(d, ParamSymbol(NodeOf(d)), disp[d].at, NextNode(d, ParamEdge(NodeOf(d)))))

TakeWildcard(d) ==
    /\ AtLost(d) /\ WEdge(d) # 0
    /\ Become(d, Bind(d, WILDCARD_PARAM, WParam(d), Finished(d, Lookup(WEdge(d)))))

TakeTrailing(d) ==
    /\ Matching(d) /\ Tok(d) = Trailing /\ HasFlag(Word(NodeOf(d)), FLAG_TRAILING)
    /\ Become(d, Finished(d, Lookup(TrailingEdge(NodeOf(d)))))

TakeTerminal(d) ==
    /\ Matching(d) /\ Tok(d) = End /\ HasFlag(Word(NodeOf(d)), FLAG_TERMINAL)
    /\ Become(d, Finished(d, Lookup(NodeOf(d))))

(* Mutant: an illegal token is not looked at.                              *)
NotFoundLegal(d) ==
    /\ \/ AtLost(d) /\ WEdge(d) = 0
       \/ Matching(d) /\ Tok(d) = Trailing /\ ~HasFlag(Word(NodeOf(d)), FLAG_TRAILING)
       \/ Matching(d) /\ Tok(d) = End /\ ~HasFlag(Word(NodeOf(d)), FLAG_TERMINAL)
    /\ Become(d, [Finished(d, Fallback) EXCEPT !.params = <<>>])

(* No route: no parameters, and the dispatcher answers with the fallback.  *)
NotFound(d) ==
    /\ \/ AtLost(d) /\ WEdge(d) = 0
       \/ Matching(d) /\ Tok(d) = Trailing /\ ~HasFlag(Word(NodeOf(d)), FLAG_TRAILING)
       \/ Matching(d) /\ Tok(d) = End /\ ~HasFlag(Word(NodeOf(d)), FLAG_TERMINAL)
       \/ Matching(d) /\ Tok(d) = Illegal
    /\ Become(d, [Finished(d, Fallback) EXCEPT !.params = <<>>])

MatchStep(d) ==
    \/ FollowEdge(d) \/ FollowParam(d) \/ TakeWildcard(d)
    \/ TakeTrailing(d) \/ TakeTerminal(d) \/ NotFound(d)

MatchNext ==
    \/ GraphNext /\ UNCHANGED disp
    \/ \E d \in Dispatchers : MatchStep(d) \/ \E p \in Paths : Dispatch(d, p)

MatchSpec == MatchInit /\ [][MatchNext]_matchVars

(* A thread that has entered route_match runs on: it takes no lock and     *)
(* waits for nobody.                                                       *)
MatchFairSpec == MatchSpec /\ \A d \in Dispatchers : WF_matchVars(MatchStep(d))

-----------------------------------------------------------------------------
(* What a path should find, said of routes: the step a path token can      *)
(* take, the one route that fits a path exactly, the wildcards over it.    *)
Fits(step, token) == step = token \/ (step \in Params /\ token \in Literals)
Along(k, p) == Len(k) < Len(p) /\ \A i \in DOMAIN k : Fits(k[i], p[i])
Exact(r, p) == Last(r) # Wildcard /\ Along(Front(r), p) /\ Len(r) = Len(p) /\ Last(r) = Last(p)
Covers(r, p) == Last(r) = Wildcard /\ Along(Front(r), p) /\ p[Len(r)] \in Literals

(* A finite set of numbers in ascending order.                             *)
Ascending(S) == [n \in 1..Cardinality(S) |-> CHOOSE i \in S : Cardinality({j \in S : j < i}) = n - 1]

(* The parameters a route's own steps bind on a path, by symbol.           *)
Bindings(r) ==
    LET at == Ascending({i \in DOMAIN r : r[i] \in Params})
    IN  [n \in DOMAIN at |-> <<Resolve(ParamNames, r[at[n]].str), at[n]>>]

Answered(d) == disp[d].pc = "done"

(* Every request is answered: the loop of route_match leaves through one   *)
(* of its exits whatever the path, and whatever other threads do.          *)
RequestsAnswered == \A d \in Dispatchers : Matching(d) ~> ~Matching(d)

(* The route that fits a path exactly is found, whatever wildcards and     *)
(* other branches the tree has and whatever this and other dispatchers     *)
(* resolved before; its parameters are bound in order, and no others.      *)
ExactRouteFound ==
    \A d \in Dispatchers : Answered(d) =>
        \A r \in Held(tree) : Exact(r, disp[d].path) =>
            disp[d].result = HeldContext(tree, r) /\ disp[d].params = Bindings(r)

(* Any other answer than the fallback is a wildcard that covers the path,  *)
(* the most specific such ("Wildcards are evaluated as a fallback. The     *)
(* most specific wildcard will match", README): the route's own parameters *)
(* come first, and the last one is the rest of the path from where the     *)
(* wildcard stands.                                                        *)
WildcardIsMostSpecific ==
    \A d \in Dispatchers :
        LET p == disp[d].path
            ps == disp[d].params
        IN  (Answered(d) /\ disp[d].result # Fallback /\ ~\E r \in Held(tree) : Exact(r, p)) =>
            \E r \in Held(tree) :
                /\ Covers(r, p) /\ disp[d].result = HeldContext(tree, r)
                /\ \A s \in Held(tree) : Covers(s, p) => Len(s) <= Len(r)
                /\ Len(ps) > Len(Bindings(r)) /\ Last(ps) = <<WILDCARD_PARAM, Len(r)>>
                /\ Bindings(r) = SubSeq(ps, 1, Len(Bindings(r)))

(* The fallback is answered, without parameters, only when no route fits   *)
(* exactly and, if a wildcard covers the path, every literal of the path   *)
(* has a segment to go to: it is the end of the path that has no route.    *)
FallbackIsLast ==
    \A d \in Dispatchers :
        LET p == disp[d].path
        IN  (Answered(d) /\ disp[d].result = Fallback) =>
            /\ disp[d].params = <<>>
            /\ \A r \in Held(tree) : ~Exact(r, p)
            /\ (\E r \in Held(tree) : Covers(r, p)) =>
                   \E k \in DOMAIN tree : Len(k) = Len(p) - 1 /\ Along(k, p)

(* graph_stats has "reserve[d] space for [the] wildcard parameter"         *)
(* (graph.c:59): no parameter is written beyond the dispatcher's array.    *)
ParamsWithinArray == \A d \in Dispatchers : disp[d].pc # "undefined"

(* "Wildcards are evaluated as a fallback. The most specific wildcard will *)
(* match" (README, Constraints): a well-formed path that a wildcard covers *)
(* does not end at the fallback route.                                     *)
WildcardsAreFallback ==
    \A d \in Dispatchers :
        (Answered(d) /\ Last(disp[d].path) # Illegal /\ disp[d].result = Fallback) =>
            \A r \in Held(tree) : ~Covers(r, disp[d].path)

(* "Illegal paths should not match the wildcard and fallback instead"      *)
(* (tests/test_router.c).                                                  *)
IllegalPathsFallBack ==
    \A d \in Dispatchers :
        (Answered(d) /\ Last(disp[d].path) = Illegal) => disp[d].result = Fallback
=============================================================================
