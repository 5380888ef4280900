-------------------------------- MODULE Tree --------------------------------
(***************************************************************************)
(* The builder's tree of segments (segment.h, segment.c).  A segment is    *)
(* named by the literal and parameter steps that lead to it from the root, *)
(* which stand for the child and special.param pointers; a tree is a       *)
(* function from those names to segments.                                  *)
(***************************************************************************)
EXTENDS Routes

CONSTANTS Contexts,     \* what a route carries: its handler and context
          NULL,         \* the null wrouter_route_t pointer
          MaxChildren   \* NODE_MAX_CHILD_COUNT
ASSUME TreeAssumption == NULL \notin Contexts /\ MaxChildren \in Nat

Root == <<>>

(* children lists the names of the literal children, oldest first; its     *)
(* length is child_count.  special is a union: param is the name of the    *)
(* parameter segment under SPEC_PARAM, wildcard the route under            *)
(* SPEC_WILDCARD, and either is null when its allocation failed.           *)
Segment == [children : Seq(Names),
            spec     : {"SPEC_NONE", "SPEC_PARAM", "SPEC_WILDCARD"},
            param    : Names \cup {NoName},
            wildcard : Contexts \cup {NULL},
            trailing : Contexts \cup {NULL},
            terminal : Contexts \cup {NULL}]

NewSegment == [children |-> <<>>, spec |-> "SPEC_NONE", param |-> NoName,
               wildcard |-> NULL, trailing |-> NULL, terminal |-> NULL]

(* The tree with a new segment entered by step tok under segment k.        *)
Grow(tree, k, tok) ==
    [q \in DOMAIN tree \cup {Append(k, tok)} |->
        IF q = Append(k, tok) THEN NewSegment ELSE tree[q]]

FindChild(tree, k, n) == Contains(tree[k].children, n)

HasRoom(tree, k) == Len(tree[k].children) < MaxChildren

(* Mutant: the new child goes to the head of the list.                     *)
AppendChildFirst(tree, k, n) ==
    Grow([tree EXCEPT ![k].children = <<n>> \o @], k, Lit(n))

AppendChild(tree, k, n) ==
    Grow([tree EXCEPT ![k].children = Append(@, n)], k, Lit(n))

(* Mutant: the parameter is named, its segment forgotten.                  *)
SetParamUnlinked(tree, k, n) == [tree EXCEPT ![k].param = n]

SetParam(tree, k, n) == Grow([tree EXCEPT ![k].param = n], k, Par(n))

-----------------------------------------------------------------------------
WithTerminal(tree) == {k \in DOMAIN tree : tree[k].terminal # NULL}
WithTrailing(tree) == {k \in DOMAIN tree : tree[k].trailing # NULL}
WithWildcard(tree) == {k \in DOMAIN tree : tree[k].wildcard # NULL}

(* The routes that the terminals of a tree stand for, and their contexts.  *)
Held(tree) == {Append(k, End) : k \in WithTerminal(tree)}
              \cup {Append(k, Trailing) : k \in WithTrailing(tree)}
              \cup {Append(k, Wildcard) : k \in WithWildcard(tree)}

HeldContext(tree, r) ==
    LET seg == tree[Front(r)]
    IN  CASE Last(r) = End      -> seg.terminal
          [] Last(r) = Trailing -> seg.trailing
          [] OTHER              -> seg.wildcard

(* The number of terminals among those of the tree that hold context c.    *)
HeldCount(tree, c) == Cardinality({r \in Held(tree) : HeldContext(tree, r) = c})

(* What the compiler relies on: pointers and names agree, a segment never  *)
(* has both a parameter and literals, no special pointer is null.          *)
Linked(tree) ==
    /\ Root \in DOMAIN tree
    /\ \A k \in DOMAIN tree \ {Root} :
          /\ Front(k) \in DOMAIN tree
          /\ \/ Last(k) \in Literals /\ FindChild(tree, Front(k), Last(k).str)
             \/ Last(k) = Par(tree[Front(k)].param)
    /\ \A k \in DOMAIN tree :
          /\ \A i \in DOMAIN tree[k].children : Append(k, Lit(tree[k].children[i])) \in DOMAIN tree
          /\ IsInjective(tree[k].children)
          /\ tree[k].param # NoName => Append(k, Par(tree[k].param)) \in DOMAIN tree
          /\ tree[k].param # NoName <=> tree[k].spec = "SPEC_PARAM"
          /\ tree[k].wildcard # NULL <=> tree[k].spec = "SPEC_WILDCARD"
          /\ tree[k].param = NoName \/ tree[k].children = <<>>

(* Linked, and every segment but the root lies on the way to a route.      *)
SoundTree(tree) ==
    Linked(tree) /\ \A k \in DOMAIN tree \ {Root} : \E r \in Held(tree) : IsStrictPrefix(k, r)

(* The words of the compiled graph: one per segment, two per edge into a   *)
(* segment other than the root, and an edge and a node for each trailing   *)
(* slash and each wildcard.                                                *)
GraphSize(tree) ==
    LET segments == Cardinality(DOMAIN tree)
    IN  segments + 2 * (segments - 1) + 2 * Cardinality(WithTrailing(tree))
                 + 2 * Cardinality(WithWildcard(tree))

-----------------------------------------------------------------------------
(* The tree of a list of compatible routes and their contexts: a segment   *)
(* for every way to a route, children in the order they were first needed. *)

(* The numbers in S, the smallest first.                                   *)
Ordered(S) ==
    [n \in 1..Cardinality(S) |-> CHOOSE i \in S : Cardinality({j \in S : j < i}) = n - 1]

WaysTo(routes) == {Root} \cup
    UNION {{Prefix(routes[i], n) : n \in 0..(Len(routes[i]) - 1)} : i \in DOMAIN routes}

(* The routes that go on from segment k, and the step each takes there.    *)
After(routes, k) == {i \in DOMAIN routes : IsStrictPrefix(k, routes[i])}
StepFrom(routes, k, i) == routes[i][Len(k) + 1]

(* The routes that are the first to need a literal child of k.             *)
FirstUses(routes, k) ==
    {i \in After(routes, k) :
        /\ StepFrom(routes, k, i) \in Literals
        /\ \A j \in After(routes, k) : j < i => StepFrom(routes, k, j) # StepFrom(routes, k, i)}

ParamsFrom(routes, k) ==
    {StepFrom(routes, k, i).str : i \in {j \in After(routes, k) : StepFrom(routes, k, j) \in Params}}

ContextGiven(routes, contexts, r) ==
    IF r \in ToSet(routes) THEN contexts[CHOOSE i \in DOMAIN routes : routes[i] = r] ELSE NULL

SegmentOf(routes, contexts, k) ==
    LET order      == Ordered(FirstUses(routes, k))
        names      == ParamsFrom(routes, k)
        context(t) == ContextGiven(routes, contexts, Append(k, t))
    IN  [children |-> [n \in DOMAIN order |-> StepFrom(routes, k, order[n]).str],
         spec     |-> IF names # {} THEN "SPEC_PARAM"
                      ELSE IF context(Wildcard) # NULL THEN "SPEC_WILDCARD"
                      ELSE "SPEC_NONE",
         param    |-> IF names # {} THEN CHOOSE n \in names : TRUE ELSE NoName,
         wildcard |-> context(Wildcard),
         trailing |-> context(Trailing),
         terminal |-> context(End)]

TreeOf(routes, contexts) == [k \in WaysTo(routes) |-> SegmentOf(routes, contexts, k)]
=============================================================================
