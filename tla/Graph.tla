-------------------------------- MODULE Graph --------------------------------
(***************************************************************************)
(* graph.c, terminal.c and symbol_compile: the flat graph that             *)
(* wrouter_compile makes of the builder's tree.  graph_stats and           *)
(* graph_compile recurse over the tree; here the calls not yet made are    *)
(* kept on a stack, each with what its caller still wants done for it.     *)
(*                                                                         *)
(* The graph is a sequence of 16-bit words.  Offset o of the code is the   *)
(* word graph[o + 1].                                                      *)
(***************************************************************************)
EXTENDS Tree

CONSTANTS Trees,        \* the trees that builders hand over
          MaxSize,      \* UINT16_MAX: the largest graph, and word
          LinearSearch  \* 16: the longest list that is searched linearly

(* A node word counts the literals in its low bits (graph.h:9).            *)
FLAG_TERMINAL == 4096
ASSUME GraphAssumption ==
    /\ \A t \in Trees : /\ IsFiniteSet(DOMAIN t) /\ DOMAIN t \subseteq Seq(Step)
                        /\ t \in [DOMAIN t -> Segment] /\ SoundTree(t)
                        /\ \A k \in DOMAIN t : Len(t[k].children) <= MaxChildren
    /\ MaxChildren < FLAG_TERMINAL
    /\ MaxSize \in Nat /\ LinearSearch \in Nat

VARIABLES tree,    \* builder->root
          phase,   \* "stats", "compile", "done", or "out_of_range"
          stats,   \* graph_stats_t
          work,    \* the stack of what is left to do
          graph,   \* the words written so far
          refs,    \* terminals: the offsets of terminal nodes
          base     \*            and the route of each

graphVars == <<tree, phase, stats, work, graph, refs, base>>

-----------------------------------------------------------------------------
(* Node words: twelve bits count the literals, four are flags (graph.h).   *)
FLAG_PARAM    == 8192
FLAG_WILDCARD == 16384
FLAG_TRAILING == 32768

Flag(f, on) == IF on THEN f ELSE 0

NodeWord(s) == Len(s.children)
               + Flag(FLAG_TERMINAL, s.terminal # NULL)
               + Flag(FLAG_PARAM,    s.spec = "SPEC_PARAM")
               + Flag(FLAG_WILDCARD, s.spec = "SPEC_WILDCARD")
               + Flag(FLAG_TRAILING, s.trailing # NULL)

LiteralCount(w) == w % FLAG_TERMINAL
HasFlag(w, f) == (w \div f) % 2 = 1

(* Symbols number the names of a table from 1, in their order; 0 is none.  *)
LiteralNames == UNION {ToSet(tree[k].children) : k \in DOMAIN tree}
ParamNames == {tree[k].param : k \in DOMAIN tree} \ {NoName}
Resolve(names, n) == IF n \in names THEN Cardinality({m \in names : m <= n}) ELSE 0

-----------------------------------------------------------------------------
(* graph_stats: one call per segment.  The parameter's segment is counted  *)
(* before the literals'; depth is param_depth at the call.                 *)
Visit(k, d) == [seg |-> k, depth |-> d]

ChildPaths(k) == [i \in DOMAIN tree[k].children |-> Append(k, Lit(tree[k].children[i]))]
ParamPath(k) == Append(k, Par(tree[k].param))

SegmentTerminals(s) == Flag(1, s.terminal # NULL) + Flag(1, s.trailing # NULL)
                       + Flag(1, s.spec = "SPEC_WILDCARD")

(* Mutant: the node of a trailing slash is not counted.                    *)
SegmentWordsShort(s) == 1 + Flag(1, s.trailing # NULL) + Flag(2, s.spec # "SPEC_NONE")
                        + 2 * Len(s.children)

SegmentWords(s) == 1 + Flag(2, s.trailing # NULL) + Flag(2, s.spec # "SPEC_NONE")
                   + 2 * Len(s.children)

(* Mutant: no space for the wildcard beside the parameters before it.      *)
NeedsParamShort(s, d) == \/ s.spec = "SPEC_WILDCARD" /\ d > stats.max_params
                         \/ s.spec = "SPEC_PARAM" /\ d + 1 > stats.max_params

NeedsParam(s, d) == \/ s.spec = "SPEC_WILDCARD" /\ d >= stats.max_params
                    \/ s.spec = "SPEC_PARAM" /\ d + 1 > stats.max_params

CountSegment ==
    LET k == Head(work).seg
        d == Head(work).depth
        s == tree[k]
    IN  /\ phase = "stats" /\ work # <<>>
        /\ stats' = [terminals  |-> stats.terminals + SegmentTerminals(s),
                     size       |-> stats.size + SegmentWords(s),
                     max_params |-> stats.max_params + Flag(1, NeedsParam(s, d))]
        /\ work' = (IF s.spec = "SPEC_PARAM" THEN <<Visit(ParamPath(k), d + 1)>> ELSE <<>>)
                   \o [i \in DOMAIN s.children |-> Visit(ChildPaths(k)[i], d)]
                   \o Tail(work)
        /\ UNCHANGED <<tree, phase, graph, refs, base>>

(* Mutant: only the terminals are checked.                                 *)
CheckRangeOfTerminals ==
    /\ phase = "stats" /\ work = <<>>
    /\ IF stats.terminals > MaxSize
       THEN phase' = "out_of_range" /\ work' = <<>>
       ELSE phase' = "compile" /\ work' = <<[do |-> "node", seg |-> Root, edge |-> 0]>>
    /\ UNCHANGED <<tree, stats, graph, refs, base>>

(* The range check of wrouter_compile, before anything is allocated.       *)
CheckRange ==
    /\ phase = "stats" /\ work = <<>>
    /\ IF stats.size > MaxSize \/ stats.terminals > MaxSize
       THEN phase' = "out_of_range" /\ work' = <<>>
       ELSE phase' = "compile" /\ work' = <<[do |-> "node", seg |-> Root, edge |-> 0]>>
    /\ UNCHANGED <<tree, stats, graph, refs, base>>

-----------------------------------------------------------------------------
(* What is left of graph_compile: a call for a segment, or the appending   *)
(* of the node of a wildcard or trailing slash, each with the offset of    *)
(* the edge that is to point at it (0 for the root's); and the sorting of  *)
(* a segment's n literal edges, whose first word is at the given offset.   *)
Node(k, e)  == [do |-> "node", seg |-> k, edge |-> e]
Leaf(c, e)  == [do |-> "leaf", route |-> c, edge |-> e]
Sort(o, n)  == [do |-> "sort", edge |-> o, count |-> n]

Narrow(o) == o % (MaxSize + 1)                    \* the cast to uint16_t
Here == Len(graph)                                \* *pcur - g

(* The graph with the edge pointing here.  A caller stores the edge when   *)
(* the call returns; the offset it stores is the callee's first word.      *)
Linking(e) == IF e = 0 THEN graph ELSE [graph EXCEPT ![e + 1] = Narrow(Here)]

AppendTerminal(c) == refs' = Append(refs, Narrow(Here)) /\ base' = Append(base, c)

CompileNode ==
    LET s == tree[Head(work).seg]
        k == Head(work).seg
        special == CASE s.spec = "SPEC_PARAM"    -> <<Resolve(ParamNames, s.param), 0>>
                     [] s.spec = "SPEC_WILDCARD" -> <<0>>
                     [] OTHER                    -> <<>>
        trailing == IF s.trailing # NULL THEN <<0>> ELSE <<>>
        n == Len(s.children)
        first == Here + 1 + Len(special) + Len(trailing)      \* l_edge_base
        edges == [i \in 1..(2 * n) |->
                    IF i % 2 = 1 THEN Resolve(LiteralNames, s.children[(i + 1) \div 2]) ELSE 0]
    IN  /\ phase = "compile" /\ work # <<>> /\ Head(work).do = "node"
        /\ graph' = Linking(Head(work).edge) \o <<NodeWord(s)>> \o special \o trailing \o edges
        /\ IF s.terminal # NULL THEN AppendTerminal(s.terminal) ELSE UNCHANGED <<refs, base>>
        /\ work' = [i \in 1..n |-> Node(ChildPaths(k)[i], first + 2 * i - 1)]
                   \o (IF n > 0 THEN <<Sort(first, n)>> ELSE <<>>)
                   \o (IF s.spec = "SPEC_PARAM" THEN <<Node(ParamPath(k), Here + 2)>> ELSE <<>>)
                   \o (IF s.spec = "SPEC_WILDCARD" THEN <<Leaf(s.wildcard, Here + 1)>> ELSE <<>>)
                   \o (IF s.trailing # NULL
                       THEN <<Leaf(s.trailing, Here + 1 + Len(special))>> ELSE <<>>)
                   \o Tail(work)
        /\ UNCHANGED <<tree, phase, stats>>

CompileLeaf ==
    /\ phase = "compile" /\ work # <<>> /\ Head(work).do = "leaf"
    /\ graph' = Append(Linking(Head(work).edge), FLAG_TERMINAL)
    /\ AppendTerminal(Head(work).route)
    /\ work' = Tail(work)
    /\ UNCHANGED <<tree, phase, stats>>

(* The pairs of n edges starting at offset o, in the order of their symbols. *)
Pairs(o, n) == [i \in 1..n |-> <<graph[o + 2 * i - 1], graph[o + 2 * i]>>]
(* Mutant: edges in the order of their targets.                            *)
ByTarget(p, q) == p[2] < q[2]

BySymbol(p, q) == p[1] < q[1]

(* qsort: the pair that i - 1 others precede goes to place i.  No two edges *)
(* of a segment have the same symbol, so there are no ties.                *)
Sorted(s) ==
    LET before(j) == Cardinality({h \in DOMAIN s : BySymbol(s[h], s[j])})
    IN  [i \in DOMAIN s |-> s[CHOOSE j \in DOMAIN s : before(j) = i - 1]]

SortEdges ==
    LET o == Head(work).edge
        n == Head(work).count
        sorted == Sorted(Pairs(o, n))
    IN  /\ phase = "compile" /\ work # <<>> /\ Head(work).do = "sort"
        /\ graph' = [i \in DOMAIN graph |->
                        IF i \in (o + 1)..(o + 2 * n)
                        THEN sorted[(i - o + 1) \div 2][IF (i - o) % 2 = 1 THEN 1 ELSE 2]
                        ELSE graph[i]]
        /\ work' = Tail(work)
        /\ UNCHANGED <<tree, phase, stats, refs, base>>

CompileDone ==
    /\ phase = "compile" /\ work = <<>>
    /\ phase' = "done"
    /\ UNCHANGED <<tree, stats, work, graph, refs, base>>

GraphInit ==
    /\ tree \in Trees
    /\ phase = "stats"
    /\ stats = [terminals |-> 0, size |-> 0, max_params |-> 0]
    /\ work = <<Visit(Root, 0)>>
    /\ graph = <<>> /\ refs = <<>> /\ base = <<>>

GraphNext == CountSegment \/ CheckRange \/ CompileNode \/ CompileLeaf \/ SortEdges \/ CompileDone

GraphSpec == GraphInit /\ [][GraphNext]_graphVars

-----------------------------------------------------------------------------
(* Reading the graph: the parts of the node at offset o.                   *)
Word(o) == graph[o + 1]
SpecialSize(o) == IF HasFlag(Word(o), FLAG_PARAM) THEN 2
                  ELSE IF HasFlag(Word(o), FLAG_WILDCARD) THEN 1 ELSE 0
ParamSymbol(o)  == Word(o + 1)
ParamEdge(o)    == Word(o + 2)
WildcardEdge(o) == Word(o + 1)
TrailingEdge(o) == Word(o + 1 + SpecialSize(o))
LiteralBase(o)  == o + 1 + SpecialSize(o) + Flag(1, HasFlag(Word(o), FLAG_TRAILING))
EdgeSymbol(o, i) == Word(LiteralBase(o) + 2 * (i - 1))
EdgeTarget(o, i) == Word(LiteralBase(o) + 2 * (i - 1) + 1)

(* The position, from 1, of v among ascending keys, 0 if it is not there.   *)
(* Short lists are scanned; on long ones the search is that of K&R, over   *)
(* positions low..high-1 (from 0).                                         *)
Search(keys, v) ==
    LET n == Len(keys)
        find[range \in (0..n) \X (0..n)] ==
            LET low == range[1]
                high == range[2]
                mid == low + (high - low) \div 2
            IN  IF low >= high THEN 0
                ELSE IF v < keys[mid + 1] THEN find[<<low, mid>>]
                ELSE IF v > keys[mid + 1] THEN find[<<mid + 1, high>>]
                ELSE mid + 1
        hits == {i \in 1..n : keys[i] = v}
    IN  IF n > LinearSearch THEN find[<<0, n>>]
        ELSE IF hits = {} THEN 0 ELSE Min(hits)

(* terminal_lookup: the route of the node at offset o, NULL if none.       *)
Lookup(o) == IF Search(refs, o) = 0 THEN NULL ELSE base[Search(refs, o)]

-----------------------------------------------------------------------------
(* The terminals come out of the traversal in strictly ascending order of  *)
(* their offsets, although leaves are appended between the nodes: the      *)
(* binary search of terminal_lookup assumes it "from the compilation       *)
(* stage" (terminal.c:37).                                                 *)
TerminalsSorted == \A i, j \in 1..Len(refs) : i < j => refs[i] < refs[j]

(* The buffers allocated from graph_stats are never overrun and are full   *)
(* at the end: two separate traversals agree on every segment.             *)
FillsAllocation ==
    /\ phase \in {"compile", "done"} =>
          /\ Len(graph) <= stats.size /\ Len(refs) <= stats.terminals
          /\ stats.size = GraphSize(tree) /\ stats.terminals = Cardinality(Held(tree))
    /\ phase = "done" => Len(graph) = stats.size /\ Len(refs) = stats.terminals

(* The offset that the steps of path k lead to in the finished graph.      *)
Reach(k) ==
    LET edge(o, step) ==
            IF step \in Params THEN ParamEdge(o)
            ELSE EdgeTarget(o, CHOOSE i \in 1..LiteralCount(Word(o)) :
                                   EdgeSymbol(o, i) = Resolve(LiteralNames, step.str))
        at[i \in 0..Len(k)] == IF i = 0 THEN 0 ELSE edge(at[i - 1], k[i])
    IN  at[Len(k)]

(* The finished graph is the tree: from every node the words lead to the   *)
(* nodes of its segment's children, parameter, wildcard and trailing       *)
(* slash, literal edges are in the strict order that the binary search     *)
(* over them needs, every terminal is found under its offset and nowhere   *)
(* else, and no two segments share a node.                                 *)
GraphIsTree ==
    phase = "done" =>
        /\ \A k \in DOMAIN tree :
              LET o == Reach(k)
                  w == Word(o)
                  s == tree[k]
              IN  /\ LiteralCount(w) = Len(s.children)
                  /\ \A i, j \in 1..LiteralCount(w) : i < j => EdgeSymbol(o, i) < EdgeSymbol(o, j)
                  /\ Lookup(o) = s.terminal
                  /\ HasFlag(w, FLAG_TERMINAL) <=> s.terminal # NULL
                  /\ HasFlag(w, FLAG_PARAM) <=> s.spec = "SPEC_PARAM"
                  /\ HasFlag(w, FLAG_WILDCARD) <=> s.wildcard # NULL
                  /\ HasFlag(w, FLAG_TRAILING) <=> s.trailing # NULL
                  /\ HasFlag(w, FLAG_PARAM) => ParamSymbol(o) = Resolve(ParamNames, s.param)
                  /\ HasFlag(w, FLAG_WILDCARD) => Lookup(WildcardEdge(o)) = s.wildcard
                  /\ HasFlag(w, FLAG_TRAILING) => Lookup(TrailingEdge(o)) = s.trailing
        /\ \A j, k \in DOMAIN tree : j # k => Reach(j) # Reach(k)

(* max_params is the most parameters that one route binds, the wildcard    *)
(* counted: what a dispatcher's array is sized by.                         *)
ParamsOf(r) == Cardinality({i \in DOMAIN r : r[i] \in Params \cup {Wildcard}})
MaxParamsExact ==
    phase # "stats" => stats.max_params = Max({0} \cup {ParamsOf(r) : r \in Held(tree)})
=============================================================================
