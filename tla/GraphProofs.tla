----------------------------- MODULE GraphProofs ----------------------------
(***************************************************************************)
(* Theorems about Graph, for all sound trees, whatever their size, the     *)
(* names of their segments and the limits of the graph.                    *)
(*                                                                         *)
(* Both traversals recurse, and what is left of the recursion is a stack   *)
(* of items of the tree: the segments, the wildcards and trailing slashes, *)
(* which become nodes, and the sorting of a segment's edges. No item on    *)
(* the stack is below another. An item is done with unless it is below one *)
(* on the stack, so a step that pops an item and pushes its children is    *)
(* done with one item more.                                                *)
(* Part 1: graph_stats. The counters are sums over the segments done with, *)
(*   and max_params is the largest need among them.                        *)
(* Part 2: graph_compile. Every item done with has an offset; nodes do not *)
(*   overlap, every word of them is as the tree has it, except the edges   *)
(*   to nodes that are not placed yet and the order of edges that are not  *)
(*   sorted yet, and the terminals are listed. When the stack is empty     *)
(*   there are no such exceptions.                                         *)
(***************************************************************************)
EXTENDS Graph, SequenceTheorems, DataProofs

-----------------------------------------------------------------------------
(* Part 1.                                                                 *)

(* Segments are named by the steps to them; Illegal, which no route holds, *)
(* ends the name of the sort of a segment's edges. Under: q is k or below  *)
(* it. Rest: what is below the items on the stack.                         *)
Under(k, q) == Len(k) <= Len(q) /\ \A i \in 1..Len(k) : q[i] = k[i]
Kids(N, k) == {c \in N : c # <<>> /\ Front(c) = k}
Rest(N, lab) == {q \in N : \E i \in 1..Len(lab) : Under(lab[i], q)}

(* No item on the stack is below another.                                  *)
Apart(lab) == \A i, j \in 1..Len(lab) : i # j => ~Under(lab[i], lab[j])

(* The items of a tree, each with a call or an entry of the stack of its   *)
(* own: the segments and the leaves, which become nodes of the graph, and  *)
(* the sorts, which do not.                                                *)
SortOf(k) == Append(k, Illegal)
WithChildren(t) == {k \in DOMAIN t : t[k].children # <<>>}
SortItems(t) == {SortOf(k) : k \in WithChildren(t)}
Leaves(t) == {Append(k, Trailing) : k \in WithTrailing(t)}
             \cup {Append(k, Wildcard) : k \in WithWildcard(t)}
Real(t) == DOMAIN t \cup Leaves(t)
Items(t) == Real(t) \cup SortItems(t)

(* The items that terminals refer to, and the routes there.                *)
Ends(t) == WithTerminal(t) \cup Leaves(t)
ContextOf(t, x) == IF x \in DOMAIN t THEN t[x].terminal
                   ELSE IF Last(x) = Wildcard THEN t[Front(x)].wildcard ELSE t[Front(x)].trailing

(* The parts of a node: a word, the special edge, the trailing edge, the   *)
(* literal edges; and where the edge of a token is in it.                  *)
SpecialLen(s) == IF s.spec = "SPEC_PARAM" THEN 2 ELSE IF s.spec = "SPEC_WILDCARD" THEN 1 ELSE 0
LiteralsAt(s) == 1 + SpecialLen(s) + Flag(1, s.trailing # NULL)
NodeLen(s) == LiteralsAt(s) + 2 * Len(s.children)
Index(s, n) == CHOOSE i \in 1..Len(s.children) : s.children[i] = n
EdgeAt(s, tok) ==
    IF tok \in Params THEN 2
    ELSE IF tok = Wildcard THEN 1
    ELSE IF tok = Trailing THEN 1 + SpecialLen(s)
    ELSE IF tok = Illegal THEN LiteralsAt(s)
    ELSE LiteralsAt(s) + 2 * Index(s, tok.str) - 1

(* The entry of the stack for an item, when the nodes are at pos.          *)
Entry(t, pos, x) ==
    IF x = Root THEN Node(Root, 0)
    ELSE LET s == t[Front(x)]
             e == pos[Front(x)] + EdgeAt(s, Last(x))
         IN  IF x \in DOMAIN t THEN Node(x, e)
             ELSE IF Last(x) = Wildcard THEN Leaf(s.wildcard, e)
             ELSE IF Last(x) = Trailing THEN Leaf(s.trailing, e)
             ELSE Sort(e, Len(s.children))

(* The words and the terminals of an item.                                 *)
SizeF(t) == [x \in Real(t) |-> IF x \in DOMAIN t THEN NodeLen(t[x]) ELSE 1]
EndF(t) == [x \in Real(t) |-> IF x \in Ends(t) THEN 1 ELSE 0]

(* The nodes that are written and the segments whose edges are not sorted  *)
(* yet, when the items of lab are on the stack.                            *)
Placed(t, lab) == Real(t) \ Rest(Items(t), lab)
Unsorted(t, lab) == {k \in DOMAIN t : SortOf(k) \in Rest(Items(t), lab)}

LitKid(k, n) == Append(k, Lit(n))

(* The stack holds the items of lab; a sort comes after the calls below    *)
(* its segment's literals.                                                 *)
Stacked(t, w, lab, pos) ==
    /\ lab \in Seq(Items(t)) /\ Apart(lab)
    /\ w = [i \in 1..Len(lab) |-> Entry(t, pos, lab[i])]
    /\ \A i, j \in 1..Len(lab) : (i < j /\ Last(lab[i]) = Illegal /\ lab[i] # <<>>) =>
          \A n \in ToSet(t[Front(lab[i])].children) : ~Under(LitKid(Front(lab[i]), n), lab[j])

(* Nodes lie one beside the other, the root's first.                       *)
Allotted(t, g, P, pos) ==
    /\ Len(g) = SumFunctionOnSet(SizeF(t), P)
    /\ \A x \in P : pos[x] + SizeF(t)[x] <= Len(g)
    /\ \A x, y \in P : x = y \/ pos[x] + SizeF(t)[x] <= pos[y] \/ pos[y] + SizeF(t)[y] <= pos[x]
    /\ Root \in P => pos[Root] = 0

LitNames(t) == UNION {ToSet(t[k].children) : k \in DOMAIN t}
ParNames(t) == {t[k].param : k \in DOMAIN t} \ {NoName}
SymAt(g, o, s, i) == g[o + LiteralsAt(s) + 2 * i - 1]
TgtAt(g, o, s, i) == g[o + LiteralsAt(s) + 2 * i]

(* The edges of a segment, in ascending order of their symbols.            *)
SortedEdges(t, g, k, pos) ==
    LET s == t[k]
        Pair(i, j) == /\ SymAt(g, pos[k], s, i) = Resolve(LitNames(t), s.children[j])
                      /\ TgtAt(g, pos[k], s, i) = pos[LitKid(k, s.children[j])]
    IN  /\ \A i \in 1..Len(s.children) : \E j \in 1..Len(s.children) : Pair(i, j)
        /\ \A j \in 1..Len(s.children) : \E i \in 1..Len(s.children) : Pair(i, j)
        /\ \A i, j \in 1..Len(s.children) :
              i < j => SymAt(g, pos[k], s, i) < SymAt(g, pos[k], s, j)

(* Every word is as it should be, except for the edges to nodes that are   *)
(* not placed and the order of edges that are not sorted.                  *)
Written(t, g, P, U, pos) ==
    /\ \A k \in P \cap DOMAIN t :
          LET s == t[k]
          IN  /\ g[pos[k] + 1] = NodeWord(s)
              /\ s.spec = "SPEC_PARAM" => g[pos[k] + 2] = Resolve(ParNames(t), s.param)
              /\ k \in U => \A i \in 1..Len(s.children) :
                                SymAt(g, pos[k], s, i) = Resolve(LitNames(t), s.children[i])
              /\ k \notin U => /\ \A n \in ToSet(s.children) : LitKid(k, n) \in P
                               /\ SortedEdges(t, g, k, pos)
    /\ \A x \in P \ {Root} :
          (Last(x) \in Literals => Front(x) \in U) =>
              g[pos[Front(x)] + EdgeAt(t[Front(x)], Last(x)) + 1] = pos[x]

(* The terminals placed, in ascending order of their offsets.              *)
Terminals(t, rf, bs, P, pos) ==
    /\ Len(rf) = SumFunctionOnSet(EndF(t), P) /\ Len(bs) = Len(rf)
    /\ \A i \in 1..Len(rf) : \E x \in P \cap Ends(t) : rf[i] = pos[x] /\ bs[i] = ContextOf(t, x)
    /\ \A x \in P \cap Ends(t) : \E i \in 1..Len(rf) : rf[i] = pos[x]
    /\ \A i, j \in 1..Len(rf) : i < j => rf[i] < rf[j]

(* All of it.                                                              *)
Built(t, w, g, rf, bs, lab, pos) ==
    /\ Stacked(t, w, lab, pos)
    /\ Allotted(t, g, Placed(t, lab), pos)
    /\ Written(t, g, Placed(t, lab), Unsorted(t, lab), pos)
    /\ Terminals(t, rf, bs, Placed(t, lab), pos)

(* The parameters on the way to a segment; the words and terminals that    *)
(* graph_stats counts for it; the segments visited.                        *)
ParamCount(k) == Cardinality({i \in DOMAIN k : k[i] \in Params})
SegW(t) == [k \in DOMAIN t |-> SegmentWords(t[k])]
SegT(t) == [k \in DOMAIN t |-> SegmentTerminals(t[k])]
Pending(w) == [i \in 1..Len(w) |-> w[i].seg]
Visited(t, w) == DOMAIN t \ Rest(DOMAIN t, Pending(w))

(* max_params is the largest need of the segments visited.                 *)
ParamBound(t, w, V, m) ==
    /\ \A k \in V : ParamCount(k) <= m
    /\ \A i \in 1..Len(w) : w[i].depth <= m
    /\ \A k \in V : t[k].spec # "SPEC_NONE" => ParamCount(k) + 1 <= m
    /\ m = 0 \/ \E k \in V : t[k].spec # "SPEC_NONE" /\ ParamCount(k) + 1 = m

(* graph_stats half way: what it has counted is what is visited.           *)
Counted(t, w, st) ==
    /\ w \in Seq([seg : DOMAIN t, depth : Nat])
    /\ Apart(Pending(w))
    /\ \A i \in 1..Len(w) : w[i].depth = ParamCount(w[i].seg)
    /\ st.size = SumFunctionOnSet(SegW(t), Visited(t, w))
    /\ st.terminals = SumFunctionOnSet(SegT(t), Visited(t, w))
    /\ ParamBound(t, w, Visited(t, w), st.max_params)

Spots(t) == [Real(t) -> Nat]
(* The items that a call leaves on the stack: all that are right under x.  *)
Heirs(t, x, kids) ==
    /\ kids \in Seq(Items(t))
    /\ \A i \in 1..Len(kids) : kids[i] \in Kids(Items(t), x)
    /\ \A c \in Kids(Items(t), x) : \E i \in 1..Len(kids) : kids[i] = c
    /\ \A i, j \in 1..Len(kids) : kids[i] = kids[j] => i = j
    /\ \A i, j \in 1..Len(kids) : i < j /\ Last(kids[i]) = Illegal => Last(kids[j]) \notin Literals
(* The words that a call appends for item x.                               *)
Block(t, x, block) ==
    /\ block \in Seq(Nat) /\ Len(block) = SizeF(t)[x]
    /\ x \in DOMAIN t =>
          /\ block[1] = NodeWord(t[x])
          /\ t[x].spec = "SPEC_PARAM" => block[2] = Resolve(ParNames(t), t[x].param)
          /\ \A i \in 1..Len(t[x].children) :
                block[LiteralsAt(t[x]) + 2 * i - 1] = Resolve(LitNames(t), t[x].children[i])
(* The graph with the edge to x, and no other word, written.               *)
Linked1(t, x, pos, g, g1) ==
    /\ g1 \in Seq(Nat) /\ Len(g1) = Len(g)
    /\ \A i \in 1..Len(g) :
          g1[i] = g[i] \/ (x # Root /\ i = pos[Front(x)] + EdgeAt(t[Front(x)], Last(x)) + 1)
    /\ x # Root => g1[pos[Front(x)] + EdgeAt(t[Front(x)], Last(x)) + 1] = Len(g)

(* The terminal of x, if it has one, is listed with offset h.              *)
Listed(t, x, h, C, rf, bs, rf2, bs2) ==
    /\ ContextOf(t, x) \in C \/ x \notin Ends(t)
    /\ x \in Ends(t) => rf2 = Append(rf, h) /\ bs2 = Append(bs, ContextOf(t, x))
    /\ x \notin Ends(t) => rf2 = rf /\ bs2 = bs
Entries(t, pos, kids) == [i \in 1..Len(kids) |-> Entry(t, pos, kids[i])]

(* How a step changes the offsets, the graph and the stack.                *)
Moved(pos, x, h) == [pos EXCEPT ![x] = h]
SameBut(pos, pos2, x) == \A y : y # x => pos2[y] = pos[y]

Settled(P, pos, pos2, h) == \A y \in P : pos2[y] = pos[y] /\ pos[y] < h

Longer(t, x, g, g2) == Len(g2) = Len(g) + SizeF(t)[x]

Fewer(t, lab, lab2, x) == x \in Rest(Items(t), lab) /\ Rest(Items(t), lab2) = Rest(Items(t), lab) \ {x}

(* Every name but the root's extends another of the set.                   *)
Closed(N) == N \subseteq Seq(Token) /\ \A q \in N : q # <<>> => Front(q) \in N

(* Sequences.                                                              *)
LEMMA SeqIs == ASSUME NEW A, NEW u \in Seq(A) PROVE u = [i \in 1..Len(u) |-> u[i]]
OBVIOUS

LEMMA Shortened ==
    ASSUME NEW T, NEW s \in Seq(T), NEW n \in 0..Len(s)
    PROVE  /\ SubSeq(s, 1, n) \in Seq(T) /\ Len(SubSeq(s, 1, n)) = n
           /\ \A i \in 1..n : SubSeq(s, 1, n)[i] = s[i]
<1>1. Len(s) \in Nat /\ n \in Nat
  BY LenProperties
<1>2. \A i \in 1..n : s[i] \in T
  BY <1>1, ElementOfSeq
<1> QED BY <1>1, <1>2, SubSeqProperties

LEMMA FrontOf ==
    ASSUME NEW T, NEW s \in Seq(T), s # <<>>
    PROVE  /\ Front(s) \in Seq(T) /\ Len(Front(s)) = Len(s) - 1 /\ Len(s) > 0 /\ Len(s) \in Nat
           /\ \A i \in 1..(Len(s) - 1) : Front(s)[i] = s[i]
           /\ Last(s) = s[Len(s)] /\ Last(s) \in T
           /\ s = Append(Front(s), Last(s))
<1>1. Len(s) > 0 /\ Len(s) \in Nat /\ Len(s) - 1 \in 0..Len(s)
  OBVIOUS
<1>2. /\ Front(s) \in Seq(T) /\ Len(Front(s)) = Len(s) - 1
      /\ \A i \in 1..(Len(s) - 1) : Front(s)[i] = s[i]
  BY <1>1, Shortened DEF Front
<1>3. Last(s) = s[Len(s)] /\ Last(s) \in T
  BY <1>1 DEF Last
<1>4. s = Append(Front(s), Last(s))
  BY <1>1, <1>2, <1>3
<1> QED
  BY <1>1, <1>2, <1>3, <1>4

LEMMA AppendOf ==
    ASSUME NEW T, NEW s \in Seq(T), NEW e \in T
    PROVE  /\ Append(s, e) \in Seq(T) /\ Append(s, e) # <<>> /\ Len(Append(s, e)) = Len(s) + 1
           /\ \A i \in 1..Len(s) : Append(s, e)[i] = s[i]
           /\ Append(s, e)[Len(s) + 1] = e
           /\ Front(Append(s, e)) = s /\ Last(Append(s, e)) = e
<1>1. /\ Append(s, e) \in Seq(T) /\ Append(s, e) # <<>> /\ Len(Append(s, e)) = Len(s) + 1
      /\ \A i \in 1..Len(s) : Append(s, e)[i] = s[i]
      /\ Append(s, e)[Len(s) + 1] = e
  OBVIOUS
<1>2. /\ Front(Append(s, e)) \in Seq(T) /\ Len(Front(Append(s, e))) = Len(s)
      /\ \A i \in 1..Len(s) : Front(Append(s, e))[i] = s[i]
  BY <1>1, LenProperties, Shortened DEF Front
<1>3. Front(Append(s, e)) = s
  BY <1>2
<1>4. Last(Append(s, e)) = e
  BY <1>1 DEF Last
<1> QED
  BY <1>1, <1>3, <1>4

(* The order of names.                                                     *)
LEMMA UnderFacts ==
    ASSUME NEW T, NEW a \in Seq(T), NEW b \in Seq(T), NEW q \in Seq(T)
    PROVE  /\ Under(a, a)
           /\ Under(a, b) /\ Under(b, q) => Under(a, q)
           /\ Under(a, b) /\ Under(b, a) => a = b
           /\ Under(a, b) /\ Len(a) = Len(b) => a = b
           /\ Under(a, q) /\ Under(b, q) /\ Len(a) <= Len(b) => Under(a, b)
BY DEF Under

LEMMA UnderFront ==
    ASSUME NEW T, NEW a \in Seq(T), NEW q \in Seq(T), q # <<>>
    PROVE  /\ Under(Front(q), q)
           /\ Under(a, q) <=> Under(a, Front(q)) \/ a = q
<1>1. /\ Front(q) \in Seq(T) /\ Len(Front(q)) = Len(q) - 1 /\ Len(q) > 0 /\ Len(q) \in Nat
      /\ \A i \in 1..(Len(q) - 1) : Front(q)[i] = q[i]
  BY FrontOf
<1>2. Under(Front(q), q)
  BY <1>1 DEF Under
<1>3. Under(a, Front(q)) \/ a = q => Under(a, q)
  BY <1>1, <1>2, UnderFacts
<1>4. ASSUME Under(a, q), a # q PROVE Under(a, Front(q))
  <2>1. Len(a) <= Len(q) - 1
    BY <1>1, <1>4, UnderFacts DEF Under
  <2> QED
    BY <1>1, <1>4, <2>1 DEF Under
<1> QED
  BY <1>2, <1>3, <1>4

LEMMA PrefixIn ==
    ASSUME NEW N, Closed(N), NEW q \in N, NEW n \in 0..Len(q)
    PROVE  SubSeq(q, 1, n) \in N
<1> DEFINE S == {d \in Nat : d <= Len(q) => SubSeq(q, 1, Len(q) - d) \in N}
<1>1. q \in Seq(Token) /\ Len(q) \in Nat
  BY DEF Closed
<1>2. 0 \in S
  <2>1. SubSeq(q, 1, Len(q)) = q /\ Len(q) - 0 = Len(q)
    BY <1>1, SubSeqFull
  <2> QED
    BY <2>1
<1>3. ASSUME NEW d \in S PROVE d + 1 \in S
  <2>1. SUFFICES ASSUME d + 1 <= Len(q) PROVE SubSeq(q, 1, Len(q) - (d + 1)) \in N
    BY <1>3
  <2> DEFINE p == SubSeq(q, 1, Len(q) - d)
  <2>2. d \in Nat /\ d <= Len(q) /\ p \in N /\ Len(q) - d \in 0..Len(q) /\ Len(q) - (d + 1) \in 0..Len(q)
    BY <1>1, <1>3, <2>1
  <2>3. /\ p \in Seq(Token) /\ Len(p) = Len(q) - d /\ p # <<>>
        /\ \A i \in 1..(Len(q) - d) : p[i] = q[i]
    <3>1. /\ p \in Seq(Token) /\ Len(p) = Len(q) - d
          /\ \A i \in 1..(Len(q) - d) : p[i] = q[i]
      BY <1>1, <2>2, Shortened
    <3> HIDE DEF p
    <3>2. Len(p) # 0
      BY <1>1, <2>1, <2>2, <3>1
    <3> QED
      BY <3>1, <3>2
  <2>4. /\ Front(p) \in N /\ Front(p) \in Seq(Token) /\ Len(Front(p)) = Len(q) - d - 1
        /\ \A i \in 1..(Len(q) - d - 1) : Front(p)[i] = p[i]
    BY <2>2, <2>3, FrontOf DEF Closed
  <2> HIDE DEF p
  <2>5. /\ SubSeq(q, 1, Len(q) - (d + 1)) \in Seq(Token)
        /\ Len(SubSeq(q, 1, Len(q) - (d + 1))) = Len(q) - (d + 1)
        /\ \A i \in 1..(Len(q) - (d + 1)) : SubSeq(q, 1, Len(q) - (d + 1))[i] = q[i]
    BY <1>1, <2>1, <2>2, Shortened
  <2>6. Len(q) - (d + 1) = Len(q) - d - 1
    BY <1>1, <2>2
  <2>7. SubSeq(q, 1, Len(q) - (d + 1)) = Front(p)
    BY <1>1, <2>2, <2>3, <2>4, <2>5, <2>6
  <2> QED
    BY <2>4, <2>7
<1>4. S = Nat
  <2> HIDE DEF S
  <2>1. S \subseteq Nat
    BY DEF S
  <2> QED
    BY <1>2, <1>3, <2>1, Induction
<1>5. n \in Nat /\ Len(q) - n \in Nat /\ Len(q) - (Len(q) - n) = n /\ Len(q) - n <= Len(q)
  BY <1>1
<1>6. Len(q) - n \in S
  BY <1>4, <1>5
<1>7. Len(q) - n <= Len(q) => SubSeq(q, 1, Len(q) - (Len(q) - n)) \in N
  BY <1>6
<1> QED
  BY <1>5, <1>7

(* The way to what is below leads over a child.                            *)
LEMMA UnderKid ==
    ASSUME NEW N, Closed(N), NEW k \in N, NEW q \in N, Under(k, q), q # k
    PROVE  \E c \in Kids(N, k) : Under(c, q)
<1> DEFINE c == SubSeq(q, 1, Len(k) + 1)
<1>1. k \in Seq(Token) /\ q \in Seq(Token) /\ Len(k) \in Nat /\ Len(q) \in Nat
  BY DEF Closed
<1>2. Len(k) < Len(q) /\ Len(k) + 1 \in 0..Len(q) /\ \A i \in 1..Len(k) : q[i] = k[i]
  BY <1>1, UnderFacts DEF Under
<1>3. c \in N
  BY <1>1, <1>2, PrefixIn
<1>4. c \in Seq(Token) /\ Len(c) = Len(k) + 1 /\ c # <<>> /\ \A i \in 1..(Len(k) + 1) : c[i] = q[i]
  BY <1>1, <1>2, Shortened
<1> HIDE DEF c
<1>5. Front(c) \in Seq(Token) /\ Len(Front(c)) = Len(k) /\ \A i \in 1..Len(k) : Front(c)[i] = c[i]
  <2>1. /\ Front(c) \in Seq(Token) /\ Len(Front(c)) = Len(c) - 1
        /\ \A i \in 1..(Len(c) - 1) : Front(c)[i] = c[i]
    BY <1>4, FrontOf
  <2>2. Len(c) - 1 = Len(k)
    BY <1>1, <1>4
  <2> QED
    BY <2>1, <2>2
<1>6. Front(c) = k
  <2>1. \A i \in 1..Len(k) : c[i] = q[i]
    BY <1>1, <1>4
  <2> QED
    BY <1>1, <1>2, <1>5, <2>1
<1>7. Under(c, q)
  BY <1>1, <1>2, <1>4 DEF Under
<1> QED
  BY <1>3, <1>4, <1>6, <1>7 DEF Kids

LEMMA KidFacts ==
    ASSUME NEW N, Closed(N), NEW k \in N, NEW c \in Kids(N, k)
    PROVE  /\ c \in N /\ c \in Seq(Token) /\ c # <<>> /\ k \in Seq(Token)
           /\ Front(c) = k /\ Len(c) = Len(k) + 1 /\ Len(k) \in Nat
           /\ Under(k, c) /\ c = Append(k, Last(c))
<1>1. c \in N /\ c # <<>> /\ Front(c) = k /\ c \in Seq(Token) /\ k \in Seq(Token) /\ Len(k) \in Nat
  BY DEF Kids, Closed
<1>2. Under(k, c)
  BY <1>1, UnderFront
<1>3. Len(k) = Len(c) - 1 /\ Len(c) \in Nat /\ c = Append(k, Last(c))
  BY <1>1, FrontOf
<1>4. Len(c) = Len(k) + 1
  BY <1>3
<1> QED
  BY <1>1, <1>2, <1>3, <1>4

(* A stack of names, none under another.  When the topmost is replaced by  *)
(* all names right under it, exactly that one leaves the names to come.    *)
LEMMA StackStep ==
    ASSUME NEW N, Closed(N), NEW lab \in Seq(N), lab # <<>>, Apart(lab), NEW kids \in Seq(N),
           \A i \in 1..Len(kids) : kids[i] \in Kids(N, lab[1]),
           \A c \in Kids(N, lab[1]) : \E i \in 1..Len(kids) : kids[i] = c,
           \A i, j \in 1..Len(kids) : kids[i] = kids[j] => i = j
    PROVE  /\ kids \o Tail(lab) \in Seq(N)
           /\ Apart(kids \o Tail(lab))
           /\ lab[1] \in Rest(N, lab)
           /\ Rest(N, kids \o Tail(lab)) = Rest(N, lab) \ {lab[1]}
<1> DEFINE new == kids \o Tail(lab)
           x == lab[1]
           n == Len(kids)
<1>1. /\ n \in Nat /\ Len(lab) \in Nat /\ Len(lab) > 0 /\ x \in N
      /\ Tail(lab) \in Seq(N) /\ Len(Tail(lab)) = Len(lab) - 1
      /\ \A i \in 1..(Len(lab) - 1) : Tail(lab)[i] = lab[i + 1]
  OBVIOUS
<1>2. /\ new \in Seq(N) /\ Len(new) = n + (Len(lab) - 1)
      /\ \A i \in 1..n : new[i] = kids[i]
      /\ \A i \in (n + 1)..(n + (Len(lab) - 1)) : new[i] = Tail(lab)[i - n]
  BY <1>1
<1>3. \A i \in (n + 1)..(n + (Len(lab) - 1)) : i - n + 1 \in 2..Len(lab) /\ new[i] = lab[i - n + 1]
  BY <1>1, <1>2
<1>4. \A m \in 2..Len(lab) : m + n - 1 \in (n + 1)..(n + (Len(lab) - 1)) /\ new[m + n - 1] = lab[m]
  <2>1. ASSUME NEW m \in 2..Len(lab)
        PROVE  m + n - 1 \in (n + 1)..(n + (Len(lab) - 1)) /\ (m + n - 1) - n + 1 = m
    BY <1>1
  <2> QED
    BY <1>3, <2>1
<1> HIDE DEF new
<1>5. \A i \in 1..Len(new) : i \in 1..n \/ i \in (n + 1)..(n + (Len(lab) - 1))
  BY <1>1, <1>2
<1>6. x \in Seq(Token) /\ \A m \in 1..Len(lab) : lab[m] \in N /\ lab[m] \in Seq(Token)
  BY <1>1 DEF Closed
<1>7. \A m \in 2..Len(lab) : ~Under(x, lab[m]) /\ ~Under(lab[m], x)
  BY <1>1 DEF Apart
<1>8. \A i \in 1..n : /\ kids[i] \in N /\ kids[i] \in Seq(Token) /\ kids[i] # <<>> /\ Front(kids[i]) = x
                      /\ Len(kids[i]) = Len(x) + 1 /\ Under(x, kids[i])
  BY <1>1, KidFacts
<1>9. ASSUME NEW i \in 1..n, NEW j \in 1..n, i # j PROVE ~Under(kids[i], kids[j])
  BY <1>8, <1>9, UnderFacts
<1>10. ASSUME NEW i \in 1..n, NEW m \in 2..Len(lab)
       PROVE  ~Under(kids[i], lab[m]) /\ ~Under(lab[m], kids[i])
  <2>1. m \in 1..Len(lab)
    BY <1>1
  <2>2. ~Under(kids[i], lab[m])
    BY <1>6, <1>7, <1>8, <2>1, UnderFacts
  <2>3. Under(lab[m], kids[i]) => Under(lab[m], x) \/ lab[m] = kids[i]
    <3>1. lab[m] \in Seq(Token) /\ kids[i] \in Seq(Token) /\ kids[i] # <<>> /\ Front(kids[i]) = x
      BY <1>6, <1>8, <2>1
    <3> QED
      BY ONLY <3>1, UnderFront
  <2>4. lab[m] # kids[i]
    BY <1>7, <1>8
  <2> QED
    BY <1>7, <2>2, <2>3, <2>4
<1>11. Apart(new)
  <2> SUFFICES ASSUME NEW i \in 1..Len(new), NEW j \in 1..Len(new), i # j PROVE ~Under(new[i], new[j])
    BY DEF Apart
  <2>1. CASE i \in 1..n /\ j \in 1..n
    BY <1>2, <1>9, <2>1
  <2>2. CASE i \in 1..n /\ j \in (n + 1)..(n + (Len(lab) - 1))
    BY <1>2, <1>3, <1>10, <2>2
  <2>3. CASE i \in (n + 1)..(n + (Len(lab) - 1)) /\ j \in 1..n
    BY <1>2, <1>3, <1>10, <2>3
  <2>4. CASE i \in (n + 1)..(n + (Len(lab) - 1)) /\ j \in (n + 1)..(n + (Len(lab) - 1))
    <3>1. i - n + 1 \in 1..Len(lab) /\ j - n + 1 \in 1..Len(lab) /\ i - n + 1 # j - n + 1
      BY <1>1, <2>4
    <3> QED
      BY <1>3, <2>4, <3>1 DEF Apart
  <2> QED
    BY <1>5, <2>1, <2>2, <2>3, <2>4
<1>12. x \in Rest(N, lab)
  BY <1>1, <1>6, UnderFacts DEF Rest
<1>13. ASSUME NEW q \in Rest(N, new) PROVE q \in Rest(N, lab) /\ q # x
  <2>1. q \in N /\ q \in Seq(Token)
    BY DEF Rest, Closed
  <2>2. PICK i \in 1..Len(new) : Under(new[i], q)
    BY DEF Rest
  <2>3. CASE i \in 1..n
    <3>1. Under(kids[i], q) /\ Under(x, q)
      BY <1>2, <1>6, <1>8, <2>1, <2>2, <2>3, UnderFacts
    <3>2. q # x
      BY <1>6, <1>8, <2>3, <3>1 DEF Under
    <3> QED
      BY <1>1, <2>1, <3>1, <3>2 DEF Rest
  <2>4. CASE i \in (n + 1)..(n + (Len(lab) - 1))
    <3>1. i - n + 1 \in 2..Len(lab) /\ Under(lab[i - n + 1], q)
      BY <1>3, <2>2, <2>4
    <3>2. i - n + 1 \in 1..Len(lab)
      BY <1>1, <3>1
    <3> QED
      BY <1>7, <2>1, <3>1, <3>2 DEF Rest
  <2> QED
    BY <1>5, <2>2, <2>3, <2>4
<1>14. ASSUME NEW q \in Rest(N, lab), q # x PROVE q \in Rest(N, new)
  <2>1. q \in N
    BY DEF Rest
  <2>2. PICK m \in 1..Len(lab) : Under(lab[m], q)
    BY DEF Rest
  <2>3. CASE m = 1
    <3>1. PICK c \in Kids(N, x) : Under(c, q)
      BY <1>1, <1>14, <2>1, <2>2, <2>3, UnderKid
    <3>2. PICK i \in 1..n : kids[i] = c
      BY <3>1
    <3>3. i \in 1..Len(new) /\ new[i] = c
      BY <1>1, <1>2, <3>2
    <3> QED
      BY <2>1, <3>1, <3>3 DEF Rest
  <2>4. CASE m # 1
    <3>1. m \in 2..Len(lab)
      BY <1>1, <2>2, <2>4
    <3>2. m + n - 1 \in (n + 1)..(n + (Len(lab) - 1)) /\ new[m + n - 1] = lab[m]
      BY <1>4, <3>1
    <3>3. m + n - 1 \in 1..Len(new)
      BY <1>1, <1>2, <3>1, <3>2
    <3> QED
      BY <2>1, <2>2, <3>2, <3>3 DEF Rest
  <2> QED
    BY <2>3, <2>4
<1>15. Rest(N, new) = Rest(N, lab) \ {x}
  BY <1>13, <1>14
<1> QED
  BY <1>2, <1>11, <1>12, <1>15 DEF new

(* The next name is one to come; the root alone is before all, nothing     *)
(* before none.                                                            *)
LEMMA RestFacts ==
    ASSUME NEW N, Closed(N), Root \in N
    PROVE  Rest(N, <<Root>>) = N /\ Rest(N, <<>>) = {} /\ Apart(<<Root>>)
<1>1. \A q \in N : Under(Root, q)
  <2> TAKE q \in N
  <2>1. q \in Seq(Token) /\ Len(q) \in Nat
    BY DEF Closed
  <2> QED
    BY <2>1 DEF Under, Root
<1>2. Rest(N, <<Root>>) = N
  <2>1. Len(<<Root>>) = 1 /\ <<Root>>[1] = Root
    OBVIOUS
  <2> QED
    BY <1>1, <2>1 DEF Rest
<1>3. Rest(N, <<>>) = {}
  BY DEF Rest
<1>4. Apart(<<Root>>)
  BY DEF Apart
<1> QED
  BY <1>2, <1>3, <1>4

-----------------------------------------------------------------------------
(* Segments and items of a tree.                                           *)

(* What the assumption on the trees says of one of them.                   *)
TreeFit(t) == /\ IsFiniteSet(DOMAIN t) /\ DOMAIN t \subseteq Seq(Step)
              /\ t \in [DOMAIN t -> Segment] /\ SoundTree(t)
              /\ \A k \in DOMAIN t : Len(t[k].children) <= MaxChildren

LEMMA TreesFit == \A t \in Trees : TreeFit(t)
BY GraphAssumption DEF TreeFit

(* Tokens by their kinds.                                                  *)
LEMMA TokenKinds ==
    /\ Step \subseteq Token /\ Literals \subseteq Step /\ Params \subseteq Step /\ Literals \cap Params = {}
    /\ \A e \in {End, Trailing, Wildcard, Illegal} : e \in Token /\ e \notin Step
    /\ Trailing # Wildcard /\ Trailing # Illegal /\ Wildcard # Illegal
    /\ End # Trailing /\ End # Wildcard /\ End # Illegal
    /\ \A n \in Names : /\ Lit(n) \in Literals /\ Par(n) \in Params
                        /\ Lit(n).str = n /\ Par(n).str = n /\ n # NoName /\ n \in Nat
    /\ \A n, m : Lit(n) # Par(m) /\ (Lit(n) = Lit(m) => n = m) /\ (Par(n) = Par(m) => n = m)
    /\ Par(NoName) \notin Step
    /\ \A e \in Literals : e.str \in Names /\ e = Lit(e.str)
    /\ \A e \in Params : e.str \in Names /\ e = Par(e.str)
<1>1. NoName \notin Names /\ Names \subseteq Nat
  BY NamesAssumption DEF NoName
<1>2. \A n, m : Lit(n) # Par(m) /\ (Lit(n) = Lit(m) => n = m) /\ (Par(n) = Par(m) => n = m)
  BY DEF Lit, Par
<1>3. Lit(NoName).type = "LITERAL" /\ \A n : Lit(n).str = n /\ Par(n).str = n
                                              /\ Lit(n).type = "LITERAL" /\ Par(n).type = "PARAM"
  BY DEF Lit, Par
<1>4. \A e \in Step : (e \in Literals \/ e \in Params) /\ e.type \in {"LITERAL", "PARAM"}
  BY <1>3 DEF Step, Literals, Params
<1>5. /\ End.type = "END" /\ Trailing.type = "TRAILING" /\ Wildcard.type = "WILDCARD" /\ Illegal.type = "ILLEGAL"
      /\ End \in Token /\ Trailing \in Token /\ Wildcard \in Token /\ Illegal \in Token
  BY DEF End, Trailing, Wildcard, Illegal, Token, Terminator
<1>6. /\ Step \subseteq Token /\ Literals \subseteq Step /\ Params \subseteq Step
      /\ \A n \in Names : Lit(n) \in Literals /\ Par(n) \in Params
      /\ \A e \in Literals : \E n \in Names : e = Lit(n)
      /\ \A e \in Params : \E n \in Names : e = Par(n)
  BY DEF Step, Literals, Params, Token
<1>7. Literals \cap Params = {} /\ Par(NoName) \notin Step
  BY <1>1, <1>2, <1>6 DEF Step
<1>8. /\ \A e \in Literals : e.str \in Names /\ e = Lit(e.str)
      /\ \A e \in Params : e.str \in Names /\ e = Par(e.str)
  BY <1>3, <1>6
<1>9. \A e \in {End, Trailing, Wildcard, Illegal} : e \in Token /\ e \notin Step
  BY <1>4, <1>5
<1>10. /\ Trailing # Wildcard /\ Trailing # Illegal /\ Wildcard # Illegal
       /\ End # Trailing /\ End # Wildcard /\ End # Illegal
  BY <1>5
<1>11. \A n \in Names : n # NoName /\ n \in Nat
  BY <1>1
<1> QED
  BY <1>2, <1>3, <1>6, <1>7, <1>8, <1>9, <1>10, <1>11

(* What a sound tree says of a segment.                                    *)
LEMMA SegmentFacts ==
    ASSUME NEW t, TreeFit(t), NEW k \in DOMAIN t
    PROVE  /\ t[k] \in Segment /\ t[k].children \in Seq(Names) /\ Len(t[k].children) \in Nat
           /\ \A i \in 1..Len(t[k].children) : /\ t[k].children[i] \in Names
                                               /\ LitKid(k, t[k].children[i]) \in DOMAIN t
           /\ \A i, j \in 1..Len(t[k].children) : t[k].children[i] = t[k].children[j] => i = j
           /\ t[k].spec \in {"SPEC_NONE", "SPEC_PARAM", "SPEC_WILDCARD"}
           /\ t[k].spec = "SPEC_PARAM" => /\ t[k].param \in Names
                                          /\ Append(k, Par(t[k].param)) \in DOMAIN t
                                          /\ Len(t[k].children) = 0
           /\ t[k].param # NoName <=> t[k].spec = "SPEC_PARAM"
           /\ t[k].wildcard # NULL <=> t[k].spec = "SPEC_WILDCARD"
           /\ k \in Seq(Step) /\ k \in Seq(Token)
<1>1. t[k] \in Segment /\ Linked(t)
  BY DEF TreeFit, SoundTree
<1>2. /\ t[k].children \in Seq(Names) /\ Len(t[k].children) \in Nat /\ t[k].param \in Names \cup {NoName}
      /\ t[k].spec \in {"SPEC_NONE", "SPEC_PARAM", "SPEC_WILDCARD"}
  BY <1>1 DEF Segment
<1>3. /\ \A i \in DOMAIN t[k].children : Append(k, Lit(t[k].children[i])) \in DOMAIN t
      /\ IsInjective(t[k].children)
      /\ t[k].param # NoName => Append(k, Par(t[k].param)) \in DOMAIN t
      /\ t[k].param # NoName <=> t[k].spec = "SPEC_PARAM"
      /\ t[k].wildcard # NULL <=> t[k].spec = "SPEC_WILDCARD"
      /\ t[k].param = NoName \/ t[k].children = <<>>
  BY <1>1 DEF Linked
<1>4. DOMAIN t[k].children = 1..Len(t[k].children)
  BY <1>2
<1>5. \A i \in 1..Len(t[k].children) : t[k].children[i] \in Names /\ LitKid(k, t[k].children[i]) \in DOMAIN t
  BY <1>2, <1>3, <1>4 DEF LitKid
<1>6. \A i, j \in 1..Len(t[k].children) : t[k].children[i] = t[k].children[j] => i = j
  BY <1>3, <1>4 DEF IsInjective
<1>7. k \in Seq(Step) /\ k \in Seq(Token)
  BY TokenKinds DEF TreeFit
<1> QED
  BY <1>1, <1>2, <1>3, <1>5, <1>6, <1>7

LEMMA DomainClosed ==
    ASSUME NEW t, TreeFit(t)
    PROVE  Closed(DOMAIN t) /\ Root \in DOMAIN t
<1>1. Root \in DOMAIN t /\ \A k \in DOMAIN t : k # Root => Front(k) \in DOMAIN t
  BY DEF TreeFit, SoundTree, Linked
<1>2. DOMAIN t \subseteq Seq(Token)
  BY SegmentFacts
<1> QED
  BY <1>1, <1>2 DEF Closed, Root

LEMMA KidsOfSegment ==
    ASSUME NEW t, TreeFit(t), NEW k \in DOMAIN t, NEW c
    PROVE  c \in Kids(DOMAIN t, k) <=>
              \/ \E i \in 1..Len(t[k].children) : c = LitKid(k, t[k].children[i])
              \/ t[k].spec = "SPEC_PARAM" /\ c = Append(k, Par(t[k].param))
<1>1. ASSUME c \in Kids(DOMAIN t, k)
      PROVE  \/ \E i \in 1..Len(t[k].children) : c = LitKid(k, t[k].children[i])
             \/ t[k].spec = "SPEC_PARAM" /\ c = Append(k, Par(t[k].param))
  <2>1. c \in DOMAIN t /\ c # Root /\ Front(c) = k /\ c = Append(k, Last(c))
    BY <1>1, DomainClosed, KidFacts DEF Kids, Root
  <2>2. Last(c) \in Step
    BY <2>1, FrontOf, SegmentFacts DEF Root
  <2>3. (Last(c) \in Literals /\ FindChild(t, k, Last(c).str)) \/ Last(c) = Par(t[k].param)
    BY <2>1 DEF TreeFit, SoundTree, Linked
  <2>4. CASE Last(c) \in Literals /\ FindChild(t, k, Last(c).str)
    BY <2>1, <2>4, TokenKinds DEF FindChild, Contains, LitKid
  <2>5. CASE Last(c) = Par(t[k].param)
    BY <2>1, <2>2, <2>5, TokenKinds, SegmentFacts
  <2> QED
    BY <2>3, <2>4, <2>5
<1>2. ASSUME NEW e \in Token, Append(k, e) \in DOMAIN t PROVE Append(k, e) \in Kids(DOMAIN t, k)
  BY <1>2, SegmentFacts, AppendOf DEF Kids
<1>3. \A i \in 1..Len(t[k].children) : Lit(t[k].children[i]) \in Token
  BY SegmentFacts, TokenKinds
<1>4. t[k].spec = "SPEC_PARAM" => Par(t[k].param) \in Token
  BY SegmentFacts, TokenKinds
<1>5. \A i \in 1..Len(t[k].children) : LitKid(k, t[k].children[i]) \in Kids(DOMAIN t, k)
  BY <1>2, <1>3, SegmentFacts DEF LitKid
<1>6. t[k].spec = "SPEC_PARAM" => Append(k, Par(t[k].param)) \in Kids(DOMAIN t, k)
  BY <1>2, <1>4, SegmentFacts
<1> QED
  BY <1>1, <1>5, <1>6

(* An item is a segment, or a segment and one of the three further tokens. *)
LEMMA ItemFacts ==
    ASSUME NEW t, TreeFit(t), NEW x
    PROVE  /\ x \in Leaves(t) <=> \E k \in DOMAIN t : \/ t[k].trailing # NULL /\ x = Append(k, Trailing)
                                                      \/ t[k].wildcard # NULL /\ x = Append(k, Wildcard)
           /\ x \in SortItems(t) <=> \E k \in DOMAIN t : t[k].children # <<>> /\ x = SortOf(k)
           /\ x \in Items(t) => x \in Seq(Token)
           /\ x \in DOMAIN t => (x = Root \/ (x # <<>> /\ Last(x) \in Step))
           /\ x \in Leaves(t) => /\ x # <<>> /\ Last(x) \in {Trailing, Wildcard} /\ Front(x) \in DOMAIN t
                                 /\ Last(x) = Trailing => t[Front(x)].trailing # NULL
                                 /\ Last(x) = Wildcard => t[Front(x)].wildcard # NULL
           /\ x \in SortItems(t) => /\ x # <<>> /\ Last(x) = Illegal /\ Front(x) \in DOMAIN t
                                    /\ t[Front(x)].children # <<>> /\ x = SortOf(Front(x))
<1>1. x \in Leaves(t) <=> \E k \in DOMAIN t : \/ t[k].trailing # NULL /\ x = Append(k, Trailing)
                                              \/ t[k].wildcard # NULL /\ x = Append(k, Wildcard)
  BY DEF Leaves, WithTrailing, WithWildcard
<1>2. x \in SortItems(t) <=> \E k \in DOMAIN t : t[k].children # <<>> /\ x = SortOf(k)
  BY DEF SortItems, WithChildren
<1>3. \A k \in DOMAIN t : \A e \in {Trailing, Wildcard, Illegal} :
          /\ Append(k, e) \in Seq(Token) /\ Append(k, e) # <<>>
          /\ Front(Append(k, e)) = k /\ Last(Append(k, e)) = e
  BY TokenKinds, SegmentFacts, AppendOf
<1>4. x \in DOMAIN t => x \in Seq(Token) /\ (x = Root \/ (x # <<>> /\ Last(x) \in Step))
  <2>1. x \in DOMAIN t => x \in Seq(Step) /\ x \in Seq(Token)
    BY SegmentFacts
  <2>2. ASSUME x \in Seq(Step), x # <<>> PROVE Last(x) \in Step
    BY <2>2, FrontOf
  <2> QED
    BY <2>1, <2>2 DEF Root
<1>5. x \in Leaves(t) => /\ x # <<>> /\ Last(x) \in {Trailing, Wildcard} /\ Front(x) \in DOMAIN t
                         /\ Last(x) = Trailing => t[Front(x)].trailing # NULL
                         /\ Last(x) = Wildcard => t[Front(x)].wildcard # NULL
                         /\ x \in Seq(Token)
  BY <1>1, <1>3, TokenKinds
<1>6. x \in SortItems(t) => /\ x # <<>> /\ Last(x) = Illegal /\ Front(x) \in DOMAIN t
                            /\ t[Front(x)].children # <<>> /\ x = SortOf(Front(x))
                            /\ x \in Seq(Token)
  BY <1>2, <1>3 DEF SortOf
<1>7. x \in Items(t) => x \in Seq(Token)
  BY <1>4, <1>5, <1>6 DEF Items, Real
<1> QED
  BY <1>1, <1>2, <1>4, <1>5, <1>6, <1>7

LEMMA ItemsClosed ==
    ASSUME NEW t, TreeFit(t)
    PROVE  /\ Closed(Items(t)) /\ Root \in Items(t) /\ Root \in Real(t)
           /\ DOMAIN t \cap Leaves(t) = {} /\ DOMAIN t \cap SortItems(t) = {} /\ Leaves(t) \cap SortItems(t) = {}
<1>1. \A x \in Items(t) : x \in Seq(Token) /\ (x # <<>> => Front(x) \in DOMAIN t)
  <2> TAKE x \in Items(t)
  <2>1. x \in DOMAIN t => (x # <<>> => Front(x) \in DOMAIN t)
    BY DomainClosed DEF Closed
  <2> QED
    BY <2>1, ItemFacts DEF Items, Real
<1>2. \A x \in DOMAIN t : x \notin Leaves(t) /\ x \notin SortItems(t)
  <2> TAKE x \in DOMAIN t
  <2>1. (x = Root \/ (x # <<>> /\ Last(x) \in Step))
    BY ItemFacts
  <2>2. x \in Leaves(t) => x # <<>> /\ Last(x) \in {Trailing, Wildcard}
    BY ItemFacts
  <2>3. x \in SortItems(t) => x # <<>> /\ Last(x) = Illegal
    BY ItemFacts
  <2> QED
    BY <2>1, <2>2, <2>3, TokenKinds DEF Root
<1>3. \A x \in Leaves(t) : x \notin SortItems(t)
  BY ItemFacts, TokenKinds
<1> QED
  BY <1>1, <1>2, <1>3, DomainClosed DEF Closed, Items, Real

LEMMA KidsOfItem ==
    ASSUME NEW t, TreeFit(t), NEW k \in Items(t), NEW c
    PROVE  c \in Kids(Items(t), k) <=>
              /\ k \in DOMAIN t
              /\ \/ c \in Kids(DOMAIN t, k)
                 \/ t[k].children # <<>> /\ c = SortOf(k)
                 \/ t[k].wildcard # NULL /\ c = Append(k, Wildcard)
                 \/ t[k].trailing # NULL /\ c = Append(k, Trailing)
<1>1. ASSUME c \in Kids(Items(t), k)
      PROVE  /\ k \in DOMAIN t
             /\ \/ c \in Kids(DOMAIN t, k)
                \/ t[k].children # <<>> /\ c = SortOf(k)
                \/ t[k].wildcard # NULL /\ c = Append(k, Wildcard)
                \/ t[k].trailing # NULL /\ c = Append(k, Trailing)
  <2>1. c \in Items(t) /\ c # <<>> /\ Front(c) = k /\ c = Append(k, Last(c))
    BY <1>1, ItemsClosed, KidFacts
  <2>2. CASE c \in DOMAIN t
    <3>1. k \in DOMAIN t /\ c \in Kids(DOMAIN t, k)
      BY <2>1, <2>2, DomainClosed DEF Closed, Kids
    <3> QED
      BY <3>1
  <2>3. CASE c \in Leaves(t)
    BY <2>1, <2>3, ItemFacts
  <2>4. CASE c \in SortItems(t)
    BY <2>1, <2>4, ItemFacts
  <2> QED
    BY <2>1, <2>2, <2>3, <2>4 DEF Items, Real
<1>2. ASSUME k \in DOMAIN t, c \in Kids(DOMAIN t, k) PROVE c \in Kids(Items(t), k)
  BY <1>2 DEF Kids, Items, Real
<1>3. ASSUME k \in DOMAIN t, NEW e \in {Trailing, Wildcard, Illegal}, Append(k, e) \in Items(t)
      PROVE  Append(k, e) \in Kids(Items(t), k)
  BY <1>3, TokenKinds, SegmentFacts, AppendOf DEF Kids
<1>4. ASSUME k \in DOMAIN t
      PROVE  /\ t[k].children # <<>> => SortOf(k) \in Items(t)
             /\ t[k].wildcard # NULL => Append(k, Wildcard) \in Items(t)
             /\ t[k].trailing # NULL => Append(k, Trailing) \in Items(t)
  BY <1>4, ItemFacts DEF Items, Real
<1> QED
  BY <1>1, <1>2, <1>3, <1>4 DEF SortOf

-----------------------------------------------------------------------------
(* Sums over a tree: its words and its terminals.                          *)

LEMMA FlagFacts ==
    \A b : /\ Flag(1, b) \in {0, 1} /\ Flag(2, b) \in {0, 2} /\ Flag(2, b) = 2 * Flag(1, b)
           /\ (b <=> Flag(1, b) = 1) /\ (~b <=> Flag(1, b) = 0) /\ (b <=> Flag(2, b) = 2)
BY DEF Flag

(* A segment has as many children as literals, or one parameter.           *)
LEMMA KidCount ==
    ASSUME NEW t, TreeFit(t), NEW k \in DOMAIN t
    PROVE  /\ IsFiniteSet(Kids(DOMAIN t, k))
           /\ Cardinality(Kids(DOMAIN t, k)) =
                 Len(t[k].children) + IF t[k].spec = "SPEC_PARAM" THEN 1 ELSE 0
<1> DEFINE n == Len(t[k].children)
           f == [i \in 1..n |-> LitKid(k, t[k].children[i])]
<1>1. n \in Nat /\ IsFiniteSet(1..n) /\ Cardinality(1..n) = n
  BY SegmentFacts, FS_Interval
<1>2. CASE t[k].spec = "SPEC_PARAM"
  <2>1. n = 0
    BY <1>2, SegmentFacts
  <2>2. Kids(DOMAIN t, k) = {Append(k, Par(t[k].param))}
    BY <1>2, <2>1, KidsOfSegment
  <2>3. IsFiniteSet(Kids(DOMAIN t, k)) /\ Cardinality(Kids(DOMAIN t, k)) = 1
    BY <2>2, FS_Singleton
  <2> QED
    BY <1>2, <2>1, <2>3
<1>3. CASE t[k].spec # "SPEC_PARAM"
  <2>2. ASSUME NEW i \in 1..n, NEW j \in 1..n, f[i] = f[j] PROVE i = j
    <3>1. LitKid(k, t[k].children[i]) = LitKid(k, t[k].children[j])
      BY <2>2
    <3>2. Last(LitKid(k, t[k].children[i])) = Lit(t[k].children[i])
          /\ Last(LitKid(k, t[k].children[j])) = Lit(t[k].children[j])
      BY SegmentFacts, TokenKinds, AppendOf DEF LitKid
    <3> QED
      BY <3>1, <3>2, SegmentFacts, TokenKinds
  <2>3. f \in [1..n -> Kids(DOMAIN t, k)] /\ \A c \in Kids(DOMAIN t, k) : \E i \in 1..n : f[i] = c
    BY <1>3, KidsOfSegment
  <2> HIDE DEF f, n
  <2>4. IsFiniteSet(Kids(DOMAIN t, k)) /\ Cardinality(Kids(DOMAIN t, k)) = Cardinality(1..n)
    BY <1>1, <2>2, <2>3, ImageSize
  <2>5. IsFiniteSet(Kids(DOMAIN t, k)) /\ Cardinality(Kids(DOMAIN t, k)) = n /\ n + 0 = n
    BY <1>1, <2>4
  <2> QED
    BY <1>3, <2>5 DEF n
<1> QED
  BY <1>2, <1>3

LEMMA SumDouble ==
    ASSUME NEW S, IsFiniteSet(S), NEW u \in [S -> Int], NEW f, \A x \in S : f[x] = 2 * u[x]
    PROVE  SumFunctionOnSet(f, S) = 2 * SumFunctionOnSet(u, S)
<1>1. \A x \in S : f[x] = u[x] + u[x]
  OBVIOUS
<1>2. SumFunctionOnSet(f, S) = SumFunctionOnSet(u, S) + SumFunctionOnSet(u, S)
  BY <1>1, SumAdd
<1>3. SumFunctionOnSet(u, S) \in Int
  BY SumType
<1> QED
  BY <1>2, <1>3

(* A sum of four parts.                                                    *)
LEMMA SumOfFour ==
    ASSUME NEW S, IsFiniteSet(S), NEW a \in [S -> Int], NEW b \in [S -> Int],
           NEW c \in [S -> Int], NEW d \in [S -> Int],
           NEW f, \A x \in S : f[x] = a[x] + b[x] + c[x] + d[x]
    PROVE  SumFunctionOnSet(f, S) = SumFunctionOnSet(a, S) + SumFunctionOnSet(b, S)
                                    + SumFunctionOnSet(c, S) + SumFunctionOnSet(d, S)
<1> DEFINE u == [x \in S |-> a[x] + b[x]]
           v == [x \in S |-> u[x] + c[x]]
<1>1. u \in [S -> Int] /\ v \in [S -> Int] /\ \A x \in S : u[x] = a[x] + b[x] /\ v[x] = u[x] + c[x]
  OBVIOUS
<1>2. \A x \in S : f[x] = v[x] + d[x]
  BY <1>1
<1> HIDE DEF u, v
<1>3. SumFunctionOnSet(u, S) = SumFunctionOnSet(a, S) + SumFunctionOnSet(b, S)
  BY <1>1, SumAdd
<1>4. SumFunctionOnSet(v, S) = SumFunctionOnSet(u, S) + SumFunctionOnSet(c, S)
  BY <1>1, SumAdd
<1>5. SumFunctionOnSet(f, S) = SumFunctionOnSet(v, S) + SumFunctionOnSet(d, S)
  BY <1>1, <1>2, SumAdd
<1> QED
  BY <1>3, <1>4, <1>5

(* The parts of a tree are finite, and few have each kind of terminal.     *)
LEMMA Counts ==
    ASSUME NEW t, TreeFit(t)
    PROVE  /\ IsFiniteSet(DOMAIN t) /\ IsFiniteSet(Leaves(t)) /\ IsFiniteSet(Real(t))
           /\ Cardinality(DOMAIN t) \in Nat /\ Cardinality(WithTerminal(t)) \in Nat
           /\ Cardinality(WithTrailing(t)) \in Nat /\ Cardinality(WithWildcard(t)) \in Nat
           /\ Cardinality(Leaves(t)) = Cardinality(WithTrailing(t)) + Cardinality(WithWildcard(t))
           /\ Cardinality(Held(t)) = Cardinality(WithTerminal(t)) + Cardinality(WithTrailing(t))
                                     + Cardinality(WithWildcard(t))
<1>1. IsFiniteSet(DOMAIN t) /\ Cardinality(DOMAIN t) \in Nat
  BY FS_CardinalityType DEF TreeFit
<1>2. /\ WithTerminal(t) \in SUBSET DOMAIN t /\ WithTrailing(t) \in SUBSET DOMAIN t
      /\ WithWildcard(t) \in SUBSET DOMAIN t
  BY DEF WithTerminal, WithTrailing, WithWildcard
<1>3. ASSUME NEW A \in SUBSET DOMAIN t, NEW e \in {End, Trailing, Wildcard}
      PROVE  /\ IsFiniteSet(A) /\ Cardinality(A) \in Nat
             /\ IsFiniteSet({Append(k, e) : k \in A})
             /\ Cardinality({Append(k, e) : k \in A}) = Cardinality(A)
  <2> DEFINE f == [k \in A |-> Append(k, e)]
  <2>1. IsFiniteSet(A) /\ Cardinality(A) \in Nat
    BY <1>1, FS_Subset, FS_CardinalityType
  <2>2. \A k \in A : Append(k, e) \in Seq(Token) /\ Front(Append(k, e)) = k
    BY TokenKinds, SegmentFacts, AppendOf
  <2> DEFINE R == {Append(k, e) : k \in A}
  <2>3. f \in [A -> R] /\ (\A y \in R : \E k \in A : f[k] = y) /\ \A j, k \in A : f[j] = f[k] => j = k
    BY <2>2
  <2> HIDE DEF f, R
  <2>4. IsFiniteSet(R) /\ Cardinality(R) = Cardinality(A)
    BY <2>1, <2>3, ImageSize
  <2> QED
    BY <2>1, <2>4 DEF R
<1> DEFINE E == {Append(k, End) : k \in WithTerminal(t)}
           T == {Append(k, Trailing) : k \in WithTrailing(t)}
           W == {Append(k, Wildcard) : k \in WithWildcard(t)}
<1>4. /\ IsFiniteSet(E) /\ Cardinality(E) = Cardinality(WithTerminal(t)) /\ Cardinality(WithTerminal(t)) \in Nat
      /\ IsFiniteSet(T) /\ Cardinality(T) = Cardinality(WithTrailing(t)) /\ Cardinality(WithTrailing(t)) \in Nat
      /\ IsFiniteSet(W) /\ Cardinality(W) = Cardinality(WithWildcard(t)) /\ Cardinality(WithWildcard(t)) \in Nat
  BY <1>2, <1>3
<1>5. T \cap W = {} /\ E \cap (T \cup W) = {}
  <2>1. \A k \in DOMAIN t : \A e \in {End, Trailing, Wildcard} : Last(Append(k, e)) = e
    BY TokenKinds, SegmentFacts, AppendOf
  <2>2. (\A x \in E : Last(x) = End) /\ (\A x \in T : Last(x) = Trailing) /\ (\A x \in W : Last(x) = Wildcard)
    BY <1>2, <2>1
  <2> HIDE DEF E, T, W
  <2> QED
    BY <2>2, TokenKinds
<1>6. Leaves(t) = T \cup W /\ Held(t) = E \cup (T \cup W)
  BY DEF Leaves, Held
<1> HIDE DEF E, T, W
<1>7. IsFiniteSet(T \cup W) /\ Cardinality(T \cup W) = Cardinality(T) + Cardinality(W)
  <2>1. IsFiniteSet(T \cup W) /\ Cardinality(T \cup W) = Cardinality(T) + Cardinality(W) - Cardinality(T \cap W)
    BY <1>4, FS_Union
  <2>2. Cardinality(T \cap W) = 0
    BY <1>5, FS_EmptySet
  <2> QED
    BY <1>4, <2>1, <2>2
<1>8. Cardinality(E \cup (T \cup W)) = Cardinality(E) + Cardinality(T \cup W)
  <2>1. Cardinality(E \cup (T \cup W))
          = Cardinality(E) + Cardinality(T \cup W) - Cardinality(E \cap (T \cup W))
    BY <1>4, <1>7, FS_Union
  <2>2. Cardinality(E \cap (T \cup W)) = 0
    BY <1>5, FS_EmptySet
  <2>3. Cardinality(E) \in Nat /\ Cardinality(T \cup W) \in Nat
    BY <1>4, <1>7
  <2> QED
    BY <2>1, <2>2, <2>3
<1>9. IsFiniteSet(Real(t))
  BY <1>1, <1>6, <1>7, FS_Union DEF Real
<1> QED
  BY <1>1, <1>4, <1>6, <1>7, <1>8, <1>9

LEMMA SegWType ==
    ASSUME NEW t, TreeFit(t)
    PROVE  /\ SegW(t) \in [DOMAIN t -> Nat] /\ SegT(t) \in [DOMAIN t -> Nat]
           /\ SizeF(t) \in [Real(t) -> Nat] /\ EndF(t) \in [Real(t) -> Nat]
           /\ \A x \in Real(t) : SizeF(t)[x] > 0
<1>1. \A k \in DOMAIN t : SegmentWords(t[k]) \in Nat /\ SegmentTerminals(t[k]) \in Nat
  <2> TAKE k \in DOMAIN t
  <2>1. Len(t[k].children) \in Nat
    BY SegmentFacts
  <2> QED
    BY <2>1, FlagFacts DEF SegmentWords, SegmentTerminals
<1>2. \A k \in DOMAIN t : NodeLen(t[k]) \in Nat /\ NodeLen(t[k]) > 0
  <2> TAKE k \in DOMAIN t
  <2>1. Len(t[k].children) \in Nat
    BY SegmentFacts
  <2> QED
    <3>1. SpecialLen(t[k]) \in Nat
      BY DEF SpecialLen
    <3> QED
      BY <2>1, <3>1, FlagFacts DEF NodeLen, LiteralsAt
<1> QED
  BY <1>1, <1>2 DEF SegW, SegT, SizeF, EndF

(* Every segment but the root is the child of one.                         *)
LEMMA KidTotal ==
    ASSUME NEW t, TreeFit(t), NEW f, \A k \in DOMAIN t : f[k] = Cardinality(Kids(DOMAIN t, k))
    PROVE  SumFunctionOnSet(f, DOMAIN t) = Cardinality(DOMAIN t) - 1
<1> DEFINE K == [k \in DOMAIN t |-> Kids(DOMAIN t, k)]
<1>1. K \in [DOMAIN t -> SUBSET DOMAIN t] /\ \A k \in DOMAIN t : f[k] = Cardinality(K[k])
  BY DEF Kids
<1>2. \A j, k \in DOMAIN t : j # k => K[j] \cap K[k] = {}
  BY DEF Kids
<1>3. UNION {K[k] : k \in DOMAIN t} = DOMAIN t \ {Root}
  BY DomainClosed DEF Kids, Closed, Root
<1> HIDE DEF K
<1>4. SumFunctionOnSet(f, DOMAIN t) = Cardinality(UNION {K[k] : k \in DOMAIN t})
  <2>1. IsFiniteSet(DOMAIN t)
    BY Counts
  <2> QED
    BY <1>1, <1>2, <2>1, SumOfSizes
<1>5. Cardinality(DOMAIN t \ {Root}) = Cardinality(DOMAIN t) - 1
  BY Counts, DomainClosed, FS_RemoveElement
<1> QED
  BY <1>3, <1>4, <1>5

(* The words that graph_stats counts are those of the nodes.               *)
LEMMA TotalSize ==
    ASSUME NEW t, TreeFit(t)
    PROVE  SumFunctionOnSet(SegW(t), DOMAIN t) = GraphSize(t)
<1> DEFINE D == DOMAIN t
           one == [k \in D |-> IF k \in D THEN 1 ELSE 0]
           kid == [k \in D |-> Cardinality(Kids(D, k))]
           tra == [k \in D |-> IF k \in WithTrailing(t) THEN 1 ELSE 0]
           wil == [k \in D |-> IF k \in WithWildcard(t) THEN 1 ELSE 0]
           kid2 == [k \in D |-> 2 * kid[k]]
           tra2 == [k \in D |-> 2 * tra[k]]
           wil2 == [k \in D |-> 2 * wil[k]]
<1>1. \A k \in D : /\ Cardinality(Kids(D, k)) = Len(t[k].children) + IF t[k].spec = "SPEC_PARAM" THEN 1 ELSE 0
                   /\ Cardinality(Kids(D, k)) \in Nat /\ Len(t[k].children) \in Nat
  <2> TAKE k \in D
  <2>1. /\ IsFiniteSet(Kids(D, k))
        /\ Cardinality(Kids(D, k)) = Len(t[k].children) + IF t[k].spec = "SPEC_PARAM" THEN 1 ELSE 0
    BY KidCount
  <2>2. Cardinality(Kids(D, k)) \in Nat /\ Len(t[k].children) \in Nat
    BY <2>1, SegmentFacts, FS_CardinalityType
  <2> QED
    BY <2>1, <2>2
<1>2. /\ one \in [D -> Int] /\ kid \in [D -> Int] /\ tra \in [D -> Int] /\ wil \in [D -> Int]
      /\ kid2 \in [D -> Int] /\ tra2 \in [D -> Int] /\ wil2 \in [D -> Int]
      /\ \A k \in D : kid2[k] = 2 * kid[k] /\ tra2[k] = 2 * tra[k] /\ wil2[k] = 2 * wil[k]
  <2>1. \A k \in D : Cardinality(Kids(D, k)) \in Int
    <3>1. \A k \in D : Cardinality(Kids(D, k)) \in Nat
      BY <1>1, Zenon
    <3>2. \A n \in Nat : n \in Int
      OBVIOUS
    <3> QED
      BY <3>1, <3>2, Zenon
  <2>2. kid \in [D -> Int]
    BY <2>1
  <2>3. one \in [D -> Int] /\ tra \in [D -> Int] /\ wil \in [D -> Int]
    OBVIOUS
  <2> HIDE DEF one, kid, tra, wil
  <2>4. kid2 \in [D -> Int] /\ tra2 \in [D -> Int] /\ wil2 \in [D -> Int]
    BY <2>2, <2>3
  <2>5. \A k \in D : kid2[k] = 2 * kid[k] /\ tra2[k] = 2 * tra[k] /\ wil2[k] = 2 * wil[k]
    BY Zenon
  <2> QED
    BY <2>2, <2>3, <2>4, <2>5
<1>3. \A k \in D : SegW(t)[k] = one[k] + kid2[k] + tra2[k] + wil2[k]
  <2> TAKE k \in D
  <2> DEFINE n == Len(t[k].children)
             p == IF t[k].spec = "SPEC_PARAM" THEN 1 ELSE 0
             r == IF t[k].trailing # NULL THEN 1 ELSE 0
             w == IF t[k].spec = "SPEC_WILDCARD" THEN 1 ELSE 0
  <2>1. SegW(t)[k] = 1 + 2 * r + 2 * (p + w) + 2 * n
    <3>1. Flag(2, t[k].trailing # NULL) = 2 * r /\ Flag(2, t[k].spec # "SPEC_NONE") = 2 * (p + w)
      BY SegmentFacts DEF Flag
    <3>2. SegW(t)[k] = 1 + Flag(2, t[k].trailing # NULL) + Flag(2, t[k].spec # "SPEC_NONE") + 2 * n
      BY DEF SegW, SegmentWords
    <3> QED
      BY <3>1, <3>2
  <2>2. kid2[k] = 2 * (n + p) /\ one[k] = 1
    BY <1>1
  <2>3. tra2[k] = 2 * r
    BY DEF WithTrailing
  <2>4. wil2[k] = 2 * w
    BY SegmentFacts DEF WithWildcard
  <2>5. n \in Nat /\ p \in Nat /\ r \in Nat /\ w \in Nat
    BY SegmentFacts
  <2> HIDE DEF one, kid2, tra2, wil2, n, p, r, w
  <2> QED
    BY <2>1, <2>2, <2>3, <2>4, <2>5
<1>4. SumFunctionOnSet(kid, D) = Cardinality(D) - 1
  BY KidTotal
<1>5. /\ SumFunctionOnSet(one, D) = Cardinality(D)
      /\ SumFunctionOnSet(tra, D) = Cardinality(WithTrailing(t))
      /\ SumFunctionOnSet(wil, D) = Cardinality(WithWildcard(t))
  <2>1. D \in SUBSET D /\ WithTrailing(t) \in SUBSET D /\ WithWildcard(t) \in SUBSET D
    BY DEF WithTrailing, WithWildcard
  <2>2. /\ \A k \in D : one[k] = IF k \in D THEN 1 ELSE 0
        /\ \A k \in D : tra[k] = IF k \in WithTrailing(t) THEN 1 ELSE 0
        /\ \A k \in D : wil[k] = IF k \in WithWildcard(t) THEN 1 ELSE 0
    OBVIOUS
  <2> HIDE DEF one, tra, wil, D
  <2> QED
    BY <2>1, <2>2, Counts, SumCount DEF D
<1>6. IsFiniteSet(D)
  BY Counts
<1> HIDE DEF one, kid, tra, wil, kid2, tra2, wil2
<1>7. /\ SumFunctionOnSet(kid2, D) = 2 * SumFunctionOnSet(kid, D)
      /\ SumFunctionOnSet(tra2, D) = 2 * SumFunctionOnSet(tra, D)
      /\ SumFunctionOnSet(wil2, D) = 2 * SumFunctionOnSet(wil, D)
  BY <1>2, <1>6, SumDouble
<1>8. SumFunctionOnSet(SegW(t), D) = SumFunctionOnSet(one, D) + SumFunctionOnSet(kid2, D)
                                     + SumFunctionOnSet(tra2, D) + SumFunctionOnSet(wil2, D)
  <2> DEFINE f == SegW(t)
  <2>1. \A k \in D : f[k] = one[k] + kid2[k] + tra2[k] + wil2[k]
    BY <1>3
  <2> HIDE DEF f, D
  <2>2. SumFunctionOnSet(f, D) = SumFunctionOnSet(one, D) + SumFunctionOnSet(kid2, D)
                                 + SumFunctionOnSet(tra2, D) + SumFunctionOnSet(wil2, D)
    BY <1>2, <1>6, <2>1, SumOfFour
  <2> QED
    BY <2>2 DEF f
<1>9. SumFunctionOnSet(SegW(t), D) = Cardinality(D) + 2 * (Cardinality(D) - 1)
         + 2 * Cardinality(WithTrailing(t)) + 2 * Cardinality(WithWildcard(t))
  BY <1>4, <1>5, <1>7, <1>8
<1> QED
  BY <1>9 DEF GraphSize

LEMMA TotalTerminals ==
    ASSUME NEW t, TreeFit(t)
    PROVE  SumFunctionOnSet(SegT(t), DOMAIN t) = Cardinality(Held(t))
<1> DEFINE D == DOMAIN t
           ter == [k \in D |-> IF k \in WithTerminal(t) THEN 1 ELSE 0]
           tra == [k \in D |-> IF k \in WithTrailing(t) THEN 1 ELSE 0]
           wil == [k \in D |-> IF k \in WithWildcard(t) THEN 1 ELSE 0]
           non == [k \in D |-> 0]
<1>1. ter \in [D -> Int] /\ tra \in [D -> Int] /\ wil \in [D -> Int] /\ non \in [D -> Int]
  OBVIOUS
<1>2. \A k \in D : SegT(t)[k] = ter[k] + tra[k] + wil[k] + non[k]
  <2> TAKE k \in D
  <2>1. SegT(t)[k] = (IF t[k].terminal # NULL THEN 1 ELSE 0) + (IF t[k].trailing # NULL THEN 1 ELSE 0)
                       + (IF t[k].spec = "SPEC_WILDCARD" THEN 1 ELSE 0)
    BY DEF SegT, SegmentTerminals, Flag
  <2>2. ter[k] = (IF t[k].terminal # NULL THEN 1 ELSE 0) /\ tra[k] = (IF t[k].trailing # NULL THEN 1 ELSE 0)
    BY DEF WithTerminal, WithTrailing
  <2>3. wil[k] = (IF t[k].spec = "SPEC_WILDCARD" THEN 1 ELSE 0) /\ non[k] = 0
    BY SegmentFacts DEF WithWildcard
  <2> HIDE DEF ter, tra, wil, non
  <2> QED
    BY <2>1, <2>2, <2>3
<1>3. /\ SumFunctionOnSet(ter, D) = Cardinality(WithTerminal(t))
      /\ SumFunctionOnSet(tra, D) = Cardinality(WithTrailing(t))
      /\ SumFunctionOnSet(wil, D) = Cardinality(WithWildcard(t))
  <2>1. WithTerminal(t) \in SUBSET D /\ WithTrailing(t) \in SUBSET D /\ WithWildcard(t) \in SUBSET D
    BY DEF WithTerminal, WithTrailing, WithWildcard
  <2>2. /\ \A k \in D : ter[k] = IF k \in WithTerminal(t) THEN 1 ELSE 0
        /\ \A k \in D : tra[k] = IF k \in WithTrailing(t) THEN 1 ELSE 0
        /\ \A k \in D : wil[k] = IF k \in WithWildcard(t) THEN 1 ELSE 0
    OBVIOUS
  <2> HIDE DEF ter, tra, wil, D
  <2> QED
    BY <2>1, <2>2, Counts, SumCount DEF D
<1>4. SumFunctionOnSet(non, D) = 0
  <2>1. \A k \in D : non[k] = 0
    OBVIOUS
  <2> HIDE DEF non
  <2> QED
    BY <2>1, Counts, SumZero
<1>5. IsFiniteSet(D)
  BY Counts
<1> HIDE DEF ter, tra, wil, non
<1>6. SumFunctionOnSet(SegT(t), D) = SumFunctionOnSet(ter, D) + SumFunctionOnSet(tra, D)
                                     + SumFunctionOnSet(wil, D) + SumFunctionOnSet(non, D)
  BY <1>1, <1>2, <1>5, SumOfFour
<1> QED
  BY <1>3, <1>4, <1>6, Counts

LEMMA RealSize ==
    ASSUME NEW t, TreeFit(t)
    PROVE  SumFunctionOnSet(SizeF(t), Real(t)) = SumFunctionOnSet(SegW(t), DOMAIN t)
<1> DEFINE D == DOMAIN t
           len == [k \in D |-> NodeLen(t[k])]
           tra == [k \in D |-> IF k \in WithTrailing(t) THEN 1 ELSE 0]
           wil == [k \in D |-> IF k \in WithWildcard(t) THEN 1 ELSE 0]
           non == [k \in D |-> 0]
           leaf == [x \in Leaves(t) |-> IF x \in Leaves(t) THEN 1 ELSE 0]
<1>1. len \in [D -> Int] /\ tra \in [D -> Int] /\ wil \in [D -> Int] /\ non \in [D -> Int]
  <2>1. \A k \in D : NodeLen(t[k]) \in Int
    BY SegWType, SegmentFacts DEF NodeLen, LiteralsAt, SpecialLen, Flag
  <2> QED
    BY <2>1
<1>2. \A k \in D : SegW(t)[k] = len[k] + tra[k] + wil[k] + non[k]
  <2> TAKE k \in D
  <2> DEFINE n == Len(t[k].children)
             p == IF t[k].spec = "SPEC_PARAM" THEN 1 ELSE 0
             r == IF t[k].trailing # NULL THEN 1 ELSE 0
             w == IF t[k].spec = "SPEC_WILDCARD" THEN 1 ELSE 0
  <2>1. SegW(t)[k] = 1 + 2 * r + 2 * (p + w) + 2 * n
    <3>1. Flag(2, t[k].trailing # NULL) = 2 * r /\ Flag(2, t[k].spec # "SPEC_NONE") = 2 * (p + w)
      BY SegmentFacts DEF Flag
    <3>2. SegW(t)[k] = 1 + Flag(2, t[k].trailing # NULL) + Flag(2, t[k].spec # "SPEC_NONE") + 2 * n
      BY DEF SegW, SegmentWords
    <3> QED
      BY <3>1, <3>2
  <2>2. len[k] = 1 + (2 * p + w) + r + 2 * n
    <3>1. Flag(1, t[k].trailing # NULL) = r /\ SpecialLen(t[k]) = 2 * p + w
      BY SegmentFacts DEF Flag, SpecialLen
    <3>2. len[k] = 1 + SpecialLen(t[k]) + Flag(1, t[k].trailing # NULL) + 2 * n
      BY DEF NodeLen, LiteralsAt
    <3> QED
      BY <3>1, <3>2
  <2>3. tra[k] = r /\ non[k] = 0
    BY DEF WithTrailing
  <2>4. wil[k] = w
    BY SegmentFacts DEF WithWildcard
  <2>5. n \in Nat /\ p \in Nat /\ r \in Nat /\ w \in Nat
    BY SegmentFacts
  <2> HIDE DEF len, tra, wil, non, n, p, r, w
  <2> QED
    BY <2>1, <2>2, <2>3, <2>4, <2>5
<1>3. /\ SumFunctionOnSet(tra, D) = Cardinality(WithTrailing(t))
      /\ SumFunctionOnSet(wil, D) = Cardinality(WithWildcard(t))
  <2>1. WithTrailing(t) \in SUBSET D /\ WithWildcard(t) \in SUBSET D
    BY DEF WithTrailing, WithWildcard
  <2>2. /\ \A k \in D : tra[k] = IF k \in WithTrailing(t) THEN 1 ELSE 0
        /\ \A k \in D : wil[k] = IF k \in WithWildcard(t) THEN 1 ELSE 0
    OBVIOUS
  <2> HIDE DEF tra, wil, D
  <2> QED
    BY <2>1, <2>2, Counts, SumCount DEF D
<1>4. SumFunctionOnSet(non, D) = 0
  <2>1. \A k \in D : non[k] = 0
    OBVIOUS
  <2> HIDE DEF non
  <2> QED
    BY <2>1, Counts, SumZero
<1>5. IsFiniteSet(D) /\ IsFiniteSet(Leaves(t)) /\ D \cap Leaves(t) = {} /\ Real(t) = D \cup Leaves(t)
  BY Counts, ItemsClosed DEF Real
<1>6. SumFunctionOnSet(SizeF(t), D) = SumFunctionOnSet(len, D)
  <2>1. \A k \in D : SizeF(t)[k] = len[k]
    BY DEF SizeF, Real
  <2> HIDE DEF len
  <2> QED
    BY <2>1, SumAgree
<1>7. SumFunctionOnSet(SizeF(t), Leaves(t)) = Cardinality(Leaves(t))
  <2>1. \A x \in Leaves(t) : SizeF(t)[x] = IF x \in Leaves(t) THEN 1 ELSE 0
    BY <1>5 DEF SizeF
  <2> QED
    BY <1>5, <2>1, SumCount
<1>8. SumFunctionOnSet(SizeF(t), Real(t)) = SumFunctionOnSet(SizeF(t), D) + SumFunctionOnSet(SizeF(t), Leaves(t))
  <2>1. SizeF(t) \in [Real(t) -> Int] /\ D \in SUBSET Real(t) /\ Leaves(t) \in SUBSET Real(t)
    <3>1. SizeF(t) \in [Real(t) -> Nat]
      BY SegWType
    <3> QED
      BY <1>5, <3>1
  <2> QED
    BY <1>5, <2>1, SumJoin
<1> HIDE DEF len, tra, wil, non
<1>9. SumFunctionOnSet(SegW(t), D) = SumFunctionOnSet(len, D) + SumFunctionOnSet(tra, D)
                                     + SumFunctionOnSet(wil, D) + SumFunctionOnSet(non, D)
  BY <1>1, <1>2, <1>5, SumOfFour
<1>10. SumFunctionOnSet(len, D) \in Int
  BY <1>1, <1>5, SumType
<1> QED
  BY <1>3, <1>4, <1>6, <1>7, <1>8, <1>9, <1>10, Counts

LEMMA RealEnds ==
    ASSUME NEW t, TreeFit(t)
    PROVE  SumFunctionOnSet(EndF(t), Real(t)) = SumFunctionOnSet(SegT(t), DOMAIN t)
<1>1. WithTerminal(t) \in SUBSET DOMAIN t
  BY DEF WithTerminal
<1>2. Ends(t) \in SUBSET Real(t) /\ \A x \in Real(t) : EndF(t)[x] = IF x \in Ends(t) THEN 1 ELSE 0
  BY <1>1 DEF Ends, Real, EndF
<1>3. SumFunctionOnSet(EndF(t), Real(t)) = Cardinality(Ends(t))
  BY <1>2, Counts, SumCount
<1>4. IsFiniteSet(WithTerminal(t)) /\ WithTerminal(t) \cap Leaves(t) = {}
  BY <1>1, Counts, ItemsClosed, FS_Subset
<1>5. Cardinality(Ends(t)) = Cardinality(WithTerminal(t)) + Cardinality(Leaves(t))
                             - Cardinality(WithTerminal(t) \cap Leaves(t))
  BY <1>4, Counts, FS_Union DEF Ends
<1>6. Cardinality(WithTerminal(t) \cap Leaves(t)) = 0
  BY <1>4, FS_EmptySet
<1>7. Cardinality(Ends(t)) = Cardinality(Held(t))
  BY <1>5, <1>6, Counts
<1> QED
  BY <1>3, <1>7, TotalTerminals

-----------------------------------------------------------------------------
(* What one call of graph_stats counts.                                    *)

Visits(t) == [seg : DOMAIN t, depth : Nat]

LEMMA TailFacts ==
    ASSUME NEW T, NEW s \in Seq(T), s # <<>>
    PROVE  /\ Len(s) \in Nat /\ Len(s) > 0 /\ Head(s) = s[1] /\ s[1] \in T
           /\ (\A i \in 1..Len(s) : s[i] \in T)
           /\ Tail(s) \in Seq(T) /\ Len(Tail(s)) = Len(s) - 1
           /\ \A i \in 1..(Len(s) - 1) : Tail(s)[i] = s[i + 1]
OBVIOUS

LEMMA JoinFacts ==
    ASSUME NEW T, NEW s \in Seq(T), NEW u \in Seq(T)
    PROVE  /\ Len(s) \in Nat /\ Len(u) \in Nat
           /\ s \o u \in Seq(T) /\ Len(s \o u) = Len(s) + Len(u)
           /\ (\A i \in 1..Len(s) : (s \o u)[i] = s[i])
           /\ \A i \in (Len(s) + 1)..(Len(s) + Len(u)) : (s \o u)[i] = u[i - Len(s)]
OBVIOUS

LEMMA PendingJoin ==
    ASSUME NEW D, NEW w \in Seq([seg : D, depth : Nat]), w # <<>>, NEW K \in Seq([seg : D, depth : Nat])
    PROVE  /\ Pending(w) \in Seq(D) /\ Pending(w) # <<>> /\ Len(Pending(w)) = Len(w)
           /\ Pending(w)[1] = Head(w).seg /\ Head(w) \in [seg : D, depth : Nat]
           /\ Pending(K) \in Seq(D) /\ Len(Pending(K)) = Len(K) /\ \A i \in 1..Len(K) : Pending(K)[i] = K[i].seg
           /\ Pending(K \o Tail(w)) = Pending(K) \o Tail(Pending(w))
           /\ K \o Tail(w) \in Seq([seg : D, depth : Nat])
<1> DEFINE V == [seg : D, depth : Nat]
<1>1. \A e \in V : e.seg \in D
  OBVIOUS
<1> HIDE DEF V
<1>2. /\ w \in Seq(V) /\ K \in Seq(V) /\ Len(w) \in Nat /\ Len(K) \in Nat /\ Len(w) > 0
      /\ (\A i \in 1..Len(w) : w[i] \in V) /\ (\A i \in 1..Len(K) : K[i] \in V)
      /\ Head(w) = w[1]
  <2>1. w \in Seq(V) /\ K \in Seq(V)
    BY Zenon DEF V
  <2> QED
    BY <2>1, TailFacts
<1>3. /\ Pending(w) \in Seq(D) /\ Len(Pending(w)) = Len(w) /\ (\A i \in 1..Len(w) : Pending(w)[i] = w[i].seg)
      /\ Pending(K) \in Seq(D) /\ Len(Pending(K)) = Len(K) /\ (\A i \in 1..Len(K) : Pending(K)[i] = K[i].seg)
  BY <1>1, <1>2 DEF Pending
<1>4. /\ Tail(w) \in Seq(V) /\ Len(Tail(w)) = Len(w) - 1 /\ (\A i \in 1..(Len(w) - 1) : Tail(w)[i] = w[i + 1])
      /\ Tail(Pending(w)) \in Seq(D) /\ Len(Tail(Pending(w))) = Len(w) - 1
      /\ \A i \in 1..(Len(w) - 1) : Tail(Pending(w))[i] = Pending(w)[i + 1]
  <2>1. w # <<>> /\ Pending(w) # <<>>
    BY <1>2, <1>3
  <2>2. /\ Tail(w) \in Seq(V) /\ Len(Tail(w)) = Len(w) - 1 /\ (\A i \in 1..(Len(w) - 1) : Tail(w)[i] = w[i + 1])
    BY <1>2, <2>1, TailFacts
  <2>3. /\ Tail(Pending(w)) \in Seq(D) /\ Len(Tail(Pending(w))) = Len(Pending(w)) - 1
        /\ \A i \in 1..(Len(Pending(w)) - 1) : Tail(Pending(w))[i] = Pending(w)[i + 1]
    BY <1>3, <2>1, TailFacts
  <2> QED
    BY <1>3, <2>2, <2>3
<1> DEFINE a == K \o Tail(w)
           b == Pending(K) \o Tail(Pending(w))
<1>5. /\ a \in Seq(V) /\ Len(a) = Len(K) + (Len(w) - 1)
      /\ (\A i \in 1..Len(K) : a[i] = K[i])
      /\ \A i \in (Len(K) + 1)..(Len(K) + (Len(w) - 1)) : a[i] = Tail(w)[i - Len(K)]
  <2>1. K \in Seq(V) /\ Tail(w) \in Seq(V) /\ Len(Tail(w)) = Len(w) - 1
    BY <1>2, <1>4
  <2>2. /\ a \in Seq(V) /\ Len(a) = Len(K) + Len(Tail(w))
        /\ (\A i \in 1..Len(K) : a[i] = K[i])
        /\ \A i \in (Len(K) + 1)..(Len(K) + Len(Tail(w))) : a[i] = Tail(w)[i - Len(K)]
    BY ONLY <2>1, JoinFacts
  <2> HIDE DEF a
  <2> QED
    BY ONLY <2>1, <2>2
<1>6. /\ b \in Seq(D) /\ Len(b) = Len(K) + (Len(w) - 1)
      /\ (\A i \in 1..Len(K) : b[i] = Pending(K)[i])
      /\ \A i \in (Len(K) + 1)..(Len(K) + (Len(w) - 1)) : b[i] = Tail(Pending(w))[i - Len(K)]
  <2> DEFINE p == Pending(K)
             q == Tail(Pending(w))
  <2>1. p \in Seq(D) /\ q \in Seq(D) /\ Len(q) = Len(w) - 1 /\ Len(p) = Len(K)
    BY <1>3, <1>4
  <2>9. p \in Seq(D) /\ q \in Seq(D)
    BY <2>1
  <2> HIDE DEF p, q
  <2>2. /\ p \o q \in Seq(D) /\ Len(p \o q) = Len(p) + Len(q)
        /\ (\A i \in 1..Len(p) : (p \o q)[i] = p[i])
        /\ \A i \in (Len(p) + 1)..(Len(p) + Len(q)) : (p \o q)[i] = q[i - Len(p)]
    BY ONLY <2>9, JoinFacts
  <2>3. b = p \o q
    BY Zenon DEF p, q
  <2> HIDE DEF b
  <2>4. /\ b \in Seq(D) /\ Len(b) = Len(K) + (Len(w) - 1)
        /\ (\A i \in 1..Len(K) : b[i] = p[i])
        /\ \A i \in (Len(K) + 1)..(Len(K) + (Len(w) - 1)) : b[i] = q[i - Len(K)]
    BY ONLY <2>1, <2>2, <2>3
  <2> QED
    BY <2>4 DEF p, q
<1> HIDE DEF a, b
<1>7. Pending(a) \in Seq(D) /\ Len(Pending(a)) = Len(a) /\ \A i \in 1..Len(a) : Pending(a)[i] = a[i].seg
  <2>1. Len(a) \in Nat /\ \A i \in 1..Len(a) : a[i] \in V
    BY <1>5
  <2> QED
    BY <1>1, <2>1 DEF Pending
<1>8. \A i \in 1..(Len(K) + (Len(w) - 1)) : Pending(a)[i] = b[i]
  <2> TAKE i \in 1..(Len(K) + (Len(w) - 1))
  <2>0. i \in 1..Len(a) /\ Pending(a)[i] = a[i].seg
    BY <1>5, <1>7
  <2>1. CASE i \in 1..Len(K)
    BY <1>3, <1>5, <1>6, <2>0, <2>1
  <2>2. CASE i \notin 1..Len(K)
    <3>1. /\ i \in (Len(K) + 1)..(Len(K) + (Len(w) - 1)) /\ i - Len(K) \in 1..(Len(w) - 1)
          /\ i - Len(K) + 1 \in 1..Len(w)
      BY <1>2, <2>2
    <3>2. a[i] = w[i - Len(K) + 1] /\ b[i] = Pending(w)[i - Len(K) + 1]
      BY <1>4, <1>5, <1>6, <3>1
    <3> QED
      BY <1>3, <2>0, <3>1, <3>2
  <2> QED
    BY <2>1, <2>2
<1>9. Pending(a) = b
  <2>1. Pending(a) \in Seq(D) /\ b \in Seq(D) /\ Len(Pending(a)) = Len(b)
        /\ \A i \in 1..Len(b) : Pending(a)[i] = b[i]
    BY <1>5, <1>6, <1>7, <1>8
  <2> QED
    BY ONLY <2>1
<1>10. Pending(w)[1] = w[1].seg /\ Pending(w) # <<>> /\ w[1] \in V
  BY <1>2, <1>3
<1> QED
  BY <1>2, <1>3, <1>5, <1>9, <1>10 DEF a, b, V

LEMMA ParamCountType ==
    ParamCount(Root) = 0 /\ \A k \in Seq(Step) : ParamCount(k) \in Nat
<1>1. ParamCount(Root) = 0
  <2>1. {i \in DOMAIN Root : Root[i] \in Params} = {}
    BY DEF Root
  <2> QED
    BY <2>1, FS_EmptySet DEF ParamCount
<1>2. ASSUME NEW k \in Seq(Step) PROVE ParamCount(k) \in Nat
  <2>1. Len(k) \in Nat /\ DOMAIN k = 1..Len(k) /\ IsFiniteSet(1..Len(k))
    BY FS_Interval
  <2>2. {i \in DOMAIN k : k[i] \in Params} \subseteq 1..Len(k)
    BY <2>1
  <2> QED
    BY <2>1, <2>2, FS_Subset, FS_CardinalityType DEF ParamCount
<1> QED
  BY <1>1, <1>2

LEMMA ParamCountFacts ==
    ASSUME NEW k \in Seq(Step), NEW e \in Step
    PROVE  ParamCount(Append(k, e)) = ParamCount(k) + IF e \in Params THEN 1 ELSE 0
<1> DEFINE A == {i \in DOMAIN k : k[i] \in Params}
           n == Len(k)
           B == {i \in DOMAIN Append(k, e) : Append(k, e)[i] \in Params}
<1>1. n \in Nat /\ DOMAIN k = 1..n /\ IsFiniteSet(1..n)
  BY FS_Interval
<1>2. IsFiniteSet(A) /\ Cardinality(A) \in Nat /\ n + 1 \notin A
  <2>1. A \subseteq 1..n
    BY <1>1
  <2>2. n + 1 \notin 1..n
    BY <1>1
  <2> QED
    BY <1>1, <2>1, <2>2, FS_Subset, FS_CardinalityType
<1>3. /\ DOMAIN Append(k, e) = 1..(n + 1) /\ (\A i \in 1..n : Append(k, e)[i] = k[i])
      /\ Append(k, e)[n + 1] = e
  BY <1>1
<1>4. \A i : i \in 1..(n + 1) <=> i \in 1..n \/ i = n + 1
  BY <1>1
<1>5. CASE e \in Params
  <2>1. B = A \cup {n + 1}
    <3> SUFFICES ASSUME NEW i PROVE i \in B <=> i \in A \/ i = n + 1
      OBVIOUS
    <3> QED
      BY <1>1, <1>3, <1>4, <1>5
  <2>2. Cardinality(A \cup {n + 1}) = Cardinality(A) + 1
    BY <1>2, FS_AddElement
  <2>3. Cardinality(B) = Cardinality(A) + 1
    BY <2>1, <2>2
  <2> QED
    BY <1>5, <2>3, Zenon DEF ParamCount
<1>6. CASE e \notin Params
  <2>1. B = A
    <3> SUFFICES ASSUME NEW i PROVE i \in B <=> i \in A
      OBVIOUS
    <3> QED
      BY <1>1, <1>3, <1>4, <1>6
  <2> HIDE DEF A, B
  <2>2. Cardinality(B) = Cardinality(A) + 0
    BY <1>2, <2>1
  <2> USE DEF A, B
  <2> QED
    BY <1>6, <2>2, Zenon DEF ParamCount
<1> QED
  BY <1>5, <1>6

(* The counters once segment s is counted.                                 *)
StatsWith(st, s, m) == [terminals |-> st.terminals + SegmentTerminals(s), size |-> st.size + SegmentWords(s),
                        max_params |-> m]

(* max_params once segment s, at a depth, is counted; the calls for the    *)
(* children of segment k.                                                  *)
Widened(s, depth, m) == m + (IF s.spec # "SPEC_NONE" /\ depth = m THEN 1 ELSE 0)
KidCalls(t, k, K, m) ==
    /\ K \in Seq(Visits(t))
    /\ \A i \in 1..Len(K) : K[i].seg \in Kids(DOMAIN t, k) /\ K[i].depth = ParamCount(K[i].seg) /\ K[i].depth <= m
    /\ \A c \in Kids(DOMAIN t, k) : \E i \in 1..Len(K) : K[i].seg = c
    /\ \A i, j \in 1..Len(K) : K[i].seg = K[j].seg => i = j

LEMMA CountOne ==
    ASSUME NEW t, TreeFit(t), NEW w, NEW st, Counted(t, w, st), w # <<>>,
           st.max_params \in Nat,
           NEW k, k = Head(w).seg, NEW m, m = Widened(t[k], Head(w).depth, st.max_params),
           NEW K, KidCalls(t, k, K, m)
    PROVE  /\ k \in DOMAIN t /\ Head(w).depth \in Nat /\ Head(w).depth <= st.max_params
           /\ Head(w).depth = ParamCount(k)
           /\ Counted(t, K \o Tail(w), StatsWith(st, t[k], m))
<1>0. /\ K \in Seq(Visits(t))
      /\ \A i \in 1..Len(K) : K[i].seg \in Kids(DOMAIN t, k) /\ K[i].depth = ParamCount(K[i].seg) /\ K[i].depth <= m
      /\ \A c \in Kids(DOMAIN t, k) : \E i \in 1..Len(K) : K[i].seg = c
      /\ \A i, j \in 1..Len(K) : K[i].seg = K[j].seg => i = j
  BY DEF KidCalls
<1> USE <1>0 DEF StatsWith, Widened
<1> DEFINE D == DOMAIN t
           lab == Pending(w)
           kids == Pending(K)
           new == K \o Tail(w)
           V == Visited(t, w)
           d == Head(w).depth
           mm == st.max_params
<1>1. /\ w \in Seq([seg : D, depth : Nat]) /\ Apart(lab)
      /\ (\A i \in 1..Len(w) : w[i].depth = ParamCount(w[i].seg))
      /\ st.size = SumFunctionOnSet(SegW(t), V) /\ st.terminals = SumFunctionOnSet(SegT(t), V)
      /\ ParamBound(t, w, V, mm)
  BY DEF Counted
<1>2. /\ lab \in Seq(D) /\ lab # <<>> /\ lab[1] = k /\ Head(w) \in [seg : D, depth : Nat]
      /\ kids \in Seq(D) /\ Len(kids) = Len(K) /\ (\A i \in 1..Len(K) : kids[i] = K[i].seg)
      /\ Pending(new) = kids \o Tail(lab) /\ new \in Seq([seg : D, depth : Nat])
  <2>1. w # <<>> /\ K \in Seq([seg : D, depth : Nat]) /\ w \in Seq([seg : D, depth : Nat])
    BY <1>1, Zenon DEF Visits
  <2> HIDE DEF D
  <2>2. /\ Pending(w) \in Seq(D) /\ Pending(w) # <<>> /\ Len(Pending(w)) = Len(w)
        /\ Pending(w)[1] = Head(w).seg /\ Head(w) \in [seg : D, depth : Nat]
        /\ Pending(K) \in Seq(D) /\ Len(Pending(K)) = Len(K) /\ \A i \in 1..Len(K) : Pending(K)[i] = K[i].seg
        /\ Pending(K \o Tail(w)) = Pending(K) \o Tail(Pending(w))
        /\ K \o Tail(w) \in Seq([seg : D, depth : Nat])
    BY ONLY <2>1, PendingJoin
  <2> QED
    BY <2>2, Zenon
<1>3. Closed(D) /\ Root \in D /\ k \in D /\ d \in Nat
  BY <1>2, DomainClosed
<1>4. /\ Apart(Pending(new)) /\ k \in Rest(D, lab)
      /\ Rest(D, Pending(new)) = Rest(D, lab) \ {k}
  <2>1. /\ \A i \in 1..Len(kids) : kids[i] \in Kids(D, lab[1])
        /\ \A c \in Kids(D, lab[1]) : \E i \in 1..Len(kids) : kids[i] = c
        /\ \A i, j \in 1..Len(kids) : kids[i] = kids[j] => i = j
    <3> HIDE DEF kids, lab, D
    <3>1. /\ \A i \in 1..Len(K) : K[i].seg \in Kids(D, k)
          /\ \A c \in Kids(D, k) : \E i \in 1..Len(K) : K[i].seg = c
          /\ \A i, j \in 1..Len(K) : K[i].seg = K[j].seg => i = j
      BY Zenon DEF D
    <3>2. lab[1] = k /\ Len(kids) = Len(K) /\ \A i \in 1..Len(K) : kids[i] = K[i].seg
      BY <1>2
    <3>3. \A i \in 1..Len(kids) : kids[i] \in Kids(D, lab[1])
      BY ONLY <3>1, <3>2
    <3>4. \A c \in Kids(D, lab[1]) : \E i \in 1..Len(kids) : kids[i] = c
      BY ONLY <3>1, <3>2
    <3>5. \A i, j \in 1..Len(kids) : kids[i] = kids[j] => i = j
      BY ONLY <3>1, <3>2
    <3> QED
      BY <3>3, <3>4, <3>5
  <2> HIDE DEF kids, lab, D, new
  <2>2. /\ Apart(kids \o Tail(lab)) /\ lab[1] \in Rest(D, lab)
        /\ Rest(D, kids \o Tail(lab)) = Rest(D, lab) \ {lab[1]}
    <3>1. Closed(D) /\ lab \in Seq(D) /\ lab # <<>> /\ Apart(lab) /\ kids \in Seq(D)
      BY <1>1, <1>2, <1>3
    <3> QED
      BY ONLY <2>1, <3>1, StackStep
  <2> QED
    BY <1>2, <2>2
<1>5. Len(w) > 0 /\ Head(w) = w[1] /\ Len(w) \in Nat /\ 1 \in 1..Len(w)
  BY <1>1
<1>6. d = ParamCount(k) /\ d <= mm
  BY <1>1, <1>5 DEF ParamBound
<1>7. k \notin V /\ Visited(t, new) = V \cup {k} /\ V \in SUBSET D /\ IsFiniteSet(V)
  <2>1. V = D \ Rest(D, lab) /\ Visited(t, new) = D \ Rest(D, Pending(new))
    BY DEF Visited
  <2>2. IsFiniteSet(D) /\ V \subseteq D
    BY <2>1, Counts
  <2>3. IsFiniteSet(V)
    BY <2>2, FS_Subset
  <2> HIDE DEF V, new, lab, D
  <2> QED
    BY <1>3, <1>4, <2>1, <2>2, <2>3
<1>8. /\ SumFunctionOnSet(SegW(t), V \cup {k}) = st.size + SegmentWords(t[k])
      /\ SumFunctionOnSet(SegT(t), V \cup {k}) = st.terminals + SegmentTerminals(t[k])
  <2>1. SegW(t)[k] = SegmentWords(t[k]) /\ SegT(t)[k] = SegmentTerminals(t[k])
    BY <1>3 DEF SegW, SegT
  <2>2. SegW(t) \in [D -> Int] /\ SegT(t) \in [D -> Int]
    <3>1. SegW(t) \in [D -> Nat] /\ SegT(t) \in [D -> Nat]
      BY SegWType
    <3> QED
      BY <3>1
  <2> DEFINE f == SegW(t)
             g == SegT(t)
  <2> HIDE DEF f, g, V, D
  <2>5. f \in [D -> Int] /\ g \in [D -> Int]
    BY <2>2, Zenon DEF f, g
  <2>6. V \in SUBSET D /\ IsFiniteSet(V) /\ k \in D /\ k \notin V
    BY <1>3, <1>7
  <2>3. SumFunctionOnSet(f, V \cup {k}) = SumFunctionOnSet(f, V) + f[k]
    BY ONLY <2>6, <2>5, SumGrow
  <2>4. SumFunctionOnSet(g, V \cup {k}) = SumFunctionOnSet(g, V) + g[k]
    BY ONLY <2>6, <2>5, SumGrow
  <2> QED
    BY <1>1, <2>1, <2>3, <2>4 DEF f, g
<1>9. /\ Len(new) = Len(K) + (Len(w) - 1)
      /\ \A i \in 1..Len(new) : \/ i \in 1..Len(K) /\ new[i] = K[i]
                                \/ \E j \in 1..Len(w) : new[i] = w[j]
  <2> DEFINE T == [seg : D, depth : Nat]
  <2>1. w \in Seq(T) /\ K \in Seq(T)
    BY <1>1 DEF Visits
  <2> HIDE DEF T
  <2>2. /\ Tail(w) \in Seq(T) /\ Len(Tail(w)) = Len(w) - 1 /\ \A i \in 1..(Len(w) - 1) : Tail(w)[i] = w[i + 1]
    BY <1>5, <2>1
  <2>3. Len(K) \in Nat /\ Len(w) \in Nat
    BY <2>1
  <2>4. /\ Len(new) = Len(K) + (Len(w) - 1)
        /\ \A i \in 1..Len(K) : new[i] = K[i]
        /\ \A i \in (Len(K) + 1)..(Len(K) + (Len(w) - 1)) : new[i] = Tail(w)[i - Len(K)]
    BY <2>1, <2>2, <2>3
  <2> HIDE DEF new
  <2>5. ASSUME NEW i \in 1..Len(new), i \notin 1..Len(K) PROVE \E j \in 1..Len(w) : new[i] = w[j]
    <3>1. i \in (Len(K) + 1)..(Len(K) + (Len(w) - 1)) /\ i - Len(K) \in 1..(Len(w) - 1)
          /\ i - Len(K) + 1 \in 1..Len(w)
      BY <2>3, <2>4, <2>5
    <3> QED
      BY <2>2, <2>4, <3>1
  <2> QED
    BY <2>4, <2>5
<1>10. m \in Nat /\ mm <= m /\ (t[k].spec # "SPEC_NONE" => d + 1 <= m) /\ d <= m
       /\ (m = mm \/ (m = d + 1 /\ t[k].spec # "SPEC_NONE"))
  BY <1>3, <1>6
<1>11. ParamBound(t, new, V \cup {k}, m)
  <2>1. \A j \in V : ParamCount(j) <= m /\ (t[j].spec # "SPEC_NONE" => ParamCount(j) + 1 <= m)
    <3>1. \A j \in V : ParamCount(j) \in Nat
      BY <1>7, SegmentFacts, ParamCountType
    <3> QED
      BY <1>1, <1>10, <3>1 DEF ParamBound
  <2>2. \A i \in 1..Len(new) : new[i].depth <= m
    <3>1. \A j \in 1..Len(w) : w[j].depth \in Nat /\ w[j].depth <= mm
      <4>1. \A j \in 1..Len(w) : w[j] \in [seg : D, depth : Nat]
        BY <1>1, TailFacts
      <4>2. \A j \in 1..Len(w) : w[j].depth <= mm
        BY <1>1, Zenon DEF ParamBound
      <4> QED
        BY <4>1, <4>2
    <3> HIDE DEF new, mm
    <3>2. TAKE i \in 1..Len(new)
    <3>3. CASE i \in 1..Len(K) /\ new[i] = K[i]
      BY <3>3
    <3>4. ASSUME NEW j \in 1..Len(w), new[i] = w[j] PROVE new[i].depth <= m
      BY <1>10, <3>1, <3>4 DEF mm
    <3> QED
      BY <1>9, <3>3, <3>4
  <2>3. m = 0 \/ \E j \in V \cup {k} : t[j].spec # "SPEC_NONE" /\ ParamCount(j) + 1 = m
    BY <1>1, <1>6, <1>10 DEF ParamBound
  <2> HIDE DEF V, new
  <2> QED
    BY <1>6, <1>10, <2>1, <2>2, <2>3 DEF ParamBound
<1>12. \A i \in 1..Len(new) : new[i].depth = ParamCount(new[i].seg)
  <2> TAKE i \in 1..Len(new)
  <2> HIDE DEF new
  <2>1. CASE i \in 1..Len(K) /\ new[i] = K[i]
    BY <2>1
  <2>2. ASSUME NEW j \in 1..Len(w), new[i] = w[j] PROVE new[i].depth = ParamCount(new[i].seg)
    BY <1>1, <2>2
  <2> QED
    BY <1>9, <2>1, <2>2
<1> HIDE DEF V, new, lab, kids, d, mm
<1> QED
  BY <1>2, <1>3, <1>4, <1>6, <1>7, <1>8, <1>11, <1>12 DEF Counted, D, d, mm, new

-----------------------------------------------------------------------------
(* The invariant of graph_stats.                                           *)

(* The calls that graph_stats makes for segment k.                         *)
Calls(t, k, d) ==
    (IF t[k].spec = "SPEC_PARAM" THEN <<Visit(Append(k, Par(t[k].param)), d + 1)>> ELSE <<>>)
    \o [i \in DOMAIN t[k].children |-> Visit(LitKid(k, t[k].children[i]), d)]

(* The calls for the children, with the depths that they are made with.    *)
LEMMA CallFacts ==
    ASSUME NEW t, TreeFit(t), NEW k, k \in DOMAIN t, NEW d, d \in Nat, d = ParamCount(k), NEW m, m \in Nat, d <= m,
           t[k].spec # "SPEC_NONE" => d + 1 <= m
    PROVE  KidCalls(t, k, Calls(t, k, d), m)
<1> USE DEF KidCalls
<1> DEFINE n == Len(t[k].children)
           L == [i \in DOMAIN t[k].children |-> Visit(LitKid(k, t[k].children[i]), d)]
<1>1. n \in Nat /\ DOMAIN t[k].children = 1..n /\ t[k].children \in Seq(Names) /\ k \in Seq(Step)
  BY SegmentFacts
<1>2. L = [i \in 1..n |-> Visit(LitKid(k, t[k].children[i]), d)]
  BY <1>1
<1>3. \A i \in 1..n : /\ LitKid(k, t[k].children[i]) \in Kids(DOMAIN t, k) /\ LitKid(k, t[k].children[i]) \in DOMAIN t
                      /\ ParamCount(LitKid(k, t[k].children[i])) = d
  <2> TAKE i \in 1..n
  <2>1. LitKid(k, t[k].children[i]) \in Kids(DOMAIN t, k) /\ LitKid(k, t[k].children[i]) \in DOMAIN t
    BY KidsOfSegment, SegmentFacts
  <2>2. Lit(t[k].children[i]) \in Step /\ Lit(t[k].children[i]) \notin Params
    BY SegmentFacts, TokenKinds
  <2>3. ParamCount(LitKid(k, t[k].children[i])) = ParamCount(k) + 0
    BY <1>1, <2>2, ParamCountFacts DEF LitKid
  <2>4. \A a \in Nat : a + 0 = a
    OBVIOUS
  <2> QED
    BY <2>1, <2>3, <2>4
<1>4. \A i, j \in 1..n : LitKid(k, t[k].children[i]) = LitKid(k, t[k].children[j]) => i = j
  <2> TAKE i, j \in 1..n
  <2>1. Last(LitKid(k, t[k].children[i])) = Lit(t[k].children[i])
        /\ Last(LitKid(k, t[k].children[j])) = Lit(t[k].children[j])
    BY SegmentFacts, TokenKinds, AppendOf DEF LitKid
  <2> QED
    BY <2>1, SegmentFacts, TokenKinds
<1>5. CASE t[k].spec = "SPEC_PARAM"
  <2> DEFINE q == Append(k, Par(t[k].param))
  <2>1. n = 0 /\ q \in Kids(DOMAIN t, k) /\ q \in DOMAIN t /\ \A c \in Kids(DOMAIN t, k) : c = q
    <3>1. n = 0 /\ q \in DOMAIN t
      BY <1>5, SegmentFacts
    <3>2. \A c : c \in Kids(DOMAIN t, k) <=> c = q
      <4> TAKE c
      <4>1. \A i \in 1..n : FALSE
        BY <3>1
      <4> QED
        BY <1>5, <4>1, KidsOfSegment, Zenon
    <3> QED
      BY <3>1, <3>2
  <2>2. ParamCount(q) = d + 1
    <3>1. Par(t[k].param) \in Step /\ Par(t[k].param) \in Params
      BY <1>5, SegmentFacts, TokenKinds
    <3> QED
      BY <1>1, <3>1, ParamCountFacts
  <2>3. L = <<>>
    BY <1>2, <2>1
  <2> HIDE DEF L, q
  <2>4. Calls(t, k, d) = <<Visit(q, d + 1)>>
    <3>1. Calls(t, k, d) = <<Visit(q, d + 1)>> \o L
      BY <1>5, Zenon DEF Calls, L, q
    <3>2. <<Visit(q, d + 1)>> \o <<>> = <<Visit(q, d + 1)>>
      OBVIOUS
    <3> QED
      BY ONLY <2>3, <3>1, <3>2, Zenon
  <2>5. Visit(q, d + 1) \in Visits(t) /\ Visit(q, d + 1).seg = q /\ Visit(q, d + 1).depth = d + 1
    BY <2>1 DEF Visit, Visits
  <2> QED
    BY <1>5, <2>1, <2>2, <2>4, <2>5
<1>6. CASE t[k].spec # "SPEC_PARAM"
  <2>1. L \in Seq(Visits(t)) /\ Len(L) = n /\ \A i \in 1..n : L[i].seg = LitKid(k, t[k].children[i]) /\ L[i].depth = d
    BY <1>1, <1>2, <1>3 DEF Visit, Visits
  <2>2. \A c \in Kids(DOMAIN t, k) : \E i \in 1..n : c = LitKid(k, t[k].children[i])
    BY <1>6, KidsOfSegment
  <2> HIDE DEF L, n
  <2>3. Calls(t, k, d) = L
    BY <1>6, <2>1 DEF Calls, L
  <2> QED
    BY <1>3, <1>4, <2>1, <2>2, <2>3
<1> QED
  BY <1>5, <1>6

(* What graph_stats has counted when it returns.                           *)
Totals(t, st) ==
    /\ st.size = GraphSize(t) /\ st.terminals = Cardinality(Held(t))
    /\ st.size = SumFunctionOnSet(SizeF(t), Real(t)) /\ st.size \in Nat
    /\ st.terminals = SumFunctionOnSet(EndF(t), Real(t))
    /\ ParamBound(t, <<>>, DOMAIN t, st.max_params)

LEMMA CountedAll ==
    ASSUME NEW t, TreeFit(t), NEW st, Counted(t, <<>>, st)
    PROVE  Totals(t, st)
<1>1. Pending(<<>>) = <<>> /\ Visited(t, <<>>) = DOMAIN t
  <2>1. Pending(<<>>) = <<>>
    BY DEF Pending
  <2> QED
    BY <2>1, DomainClosed, RestFacts DEF Visited
<1>2. SumFunctionOnSet(SizeF(t), Real(t)) \in Nat
  BY SegWType, Counts, SumPart
<1> QED
  BY <1>1, <1>2, TotalSize, TotalTerminals, RealSize, RealEnds DEF Counted, Totals

LEMMA CountedNone ==
    ASSUME NEW t, TreeFit(t)
    PROVE  Counted(t, <<Visit(Root, 0)>>, [terminals |-> 0, size |-> 0, max_params |-> 0])
<1> DEFINE w == <<Visit(Root, 0)>>
<1>1. /\ w \in Seq([seg : DOMAIN t, depth : Nat]) /\ Pending(w) = <<Root>> /\ Len(w) = 1
      /\ w[1].depth = 0 /\ w[1].seg = Root
  <2>1. Visit(Root, 0) \in [seg : DOMAIN t, depth : Nat]
    BY DomainClosed DEF Visit
  <2>2. Visit(Root, 0).seg = Root /\ Visit(Root, 0).depth = 0
    BY DEF Visit
  <2> QED
    BY <2>1, <2>2 DEF Pending
<1>2. Apart(<<Root>>) /\ Rest(DOMAIN t, <<Root>>) = DOMAIN t
  BY DomainClosed, RestFacts
<1>3. Visited(t, w) = {}
  BY <1>1, <1>2 DEF Visited
<1>4. SumFunctionOnSet(SegW(t), {}) = 0 /\ SumFunctionOnSet(SegT(t), {}) = 0
  BY FS_EmptySet, SumZero
<1> HIDE DEF w
<1>5. \A i \in 1..Len(w) : i = 1
  BY <1>1
<1>6. ParamBound(t, w, {}, 0)
  BY <1>1, <1>5 DEF ParamBound
<1> QED
  BY <1>1, <1>2, <1>3, <1>4, <1>5, <1>6, ParamCountType DEF Counted, w

(* The first half of the invariant of the compiler: graph_stats.           *)
CountInv ==
    /\ tree \in Trees
    /\ stats.max_params \in Nat
    /\ phase = "stats" => Counted(tree, work, stats)
    /\ phase # "stats" => Totals(tree, stats)

LEMMA CountInit == GraphInit => CountInv
BY TreesFit, CountedNone DEF GraphInit, CountInv

LEMMA CountStep == CountInv /\ CountSegment => CountInv'
<1> SUFFICES ASSUME CountInv, CountSegment PROVE CountInv'
  OBVIOUS
<1> DEFINE k == Head(work).seg
           d == Head(work).depth
           m == stats.max_params + Flag(1, NeedsParam(tree[k], d))
           mm == Widened(tree[k], d, stats.max_params)
<1>1. /\ phase = "stats" /\ work # <<>> /\ TreeFit(tree) /\ Counted(tree, work, stats) /\ stats.max_params \in Nat
      /\ tree' = tree /\ phase' = phase
  BY TreesFit DEF CountSegment, CountInv
<1>2. k \in DOMAIN tree /\ d \in Nat /\ d = ParamCount(k) /\ d <= stats.max_params
  <2>1. /\ work \in Seq([seg : DOMAIN tree, depth : Nat])
        /\ (\A i \in 1..Len(work) : work[i].depth = ParamCount(work[i].seg) /\ work[i].depth <= stats.max_params)
    BY <1>1 DEF Counted, ParamBound
  <2>2. Len(work) \in Nat /\ Len(work) > 0 /\ Head(work) = work[1] /\ work[1] \in [seg : DOMAIN tree, depth : Nat]
    BY ONLY <1>1, <2>1, TailFacts
  <2>3. 1 \in 1..Len(work)
    BY <2>2
  <2> QED
    BY <2>1, <2>2, <2>3
<1>3. m = mm
  <2>1. NeedsParam(tree[k], d) <=> (tree[k].spec # "SPEC_NONE" /\ d = stats.max_params)
    <3>1. /\ d >= stats.max_params <=> d = stats.max_params
          /\ d + 1 > stats.max_params <=> d = stats.max_params
      BY <1>1, <1>2
    <3>2. tree[k].spec \in {"SPEC_NONE", "SPEC_PARAM", "SPEC_WILDCARD"}
      BY <1>1, <1>2, SegmentFacts
    <3> HIDE DEF k, d
    <3> QED
      BY <3>1, <3>2 DEF NeedsParam
  <2> HIDE DEF k, d
  <2> QED
    BY <2>1 DEF Flag, Widened
<1>4. mm \in Nat /\ d <= mm /\ (tree[k].spec # "SPEC_NONE" => d + 1 <= mm)
  <2> HIDE DEF k, d
  <2> QED
    BY <1>1, <1>2 DEF Widened
<1>5. /\ stats' = StatsWith(stats, tree[k], m)
      /\ work' = Calls(tree, k, d) \o Tail(work)
  BY DEF CountSegment, Calls, ChildPaths, ParamPath, LitKid, StatsWith
<1>6. Counted(tree, Calls(tree, k, d) \o Tail(work), StatsWith(stats, tree[k], mm))
  <2> DEFINE K == Calls(tree, k, d)
  <2>1. KidCalls(tree, k, K, mm)
    <3>1. /\ TreeFit(tree) /\ k \in DOMAIN tree /\ d \in Nat /\ d = ParamCount(k) /\ mm \in Nat /\ d <= mm
          /\ tree[k].spec # "SPEC_NONE" => d + 1 <= mm
      BY <1>1, <1>2, <1>4
    <3> HIDE DEF k, d, mm
    <3> QED
      BY ONLY <3>1, CallFacts
  <2>2. k = Head(work).seg /\ mm = Widened(tree[k], Head(work).depth, stats.max_params)
    OBVIOUS
  <2>3. /\ TreeFit(tree) /\ Counted(tree, work, stats) /\ work # <<>> /\ stats.max_params \in Nat
    BY <1>1
  <2> HIDE DEF K, k, mm, d
  <2>4. Counted(tree, K \o Tail(work), StatsWith(stats, tree[k], mm))
    BY ONLY <2>1, <2>2, <2>3, CountOne
  <2> QED
    BY <2>4 DEF K
<1>7. Counted(tree, work', stats') /\ stats'.max_params \in Nat
  <2> HIDE DEF k, d, m, mm
  <2>1. StatsWith(stats, tree[k], m).max_params = m
    BY DEF StatsWith
  <2> QED
    BY <1>3, <1>4, <1>5, <1>6, <2>1
<1> QED
  BY <1>1, <1>7 DEF CountInv

LEMMA CountNext == CountInv /\ [GraphNext]_graphVars => CountInv'
<1> SUFFICES ASSUME CountInv, [GraphNext]_graphVars PROVE CountInv'
  OBVIOUS
<1>1. CASE CountSegment
  BY <1>1, CountStep
<1>2. CASE CheckRange
  <2>1. phase = "stats" /\ work = <<>> /\ tree' = tree /\ stats' = stats /\ phase' # "stats"
    BY <1>2 DEF CheckRange
  <2>2. Totals(tree, stats)
    BY <2>1, TreesFit, CountedAll DEF CountInv
  <2> QED
    BY <2>1, <2>2 DEF CountInv
<1>3. CASE CompileNode \/ CompileLeaf \/ SortEdges \/ CompileDone
  <2>1. phase # "stats" /\ phase' # "stats" /\ tree' = tree /\ stats' = stats
    BY <1>3 DEF CompileNode, CompileLeaf, SortEdges, CompileDone
  <2> QED
    BY <2>1 DEF CountInv
<1>4. CASE UNCHANGED graphVars
  BY <1>4 DEF CountInv, graphVars
<1> QED
  BY <1>1, <1>2, <1>3, <1>4 DEF GraphNext

-----------------------------------------------------------------------------
(* The most parameters of a route.                                         *)

(* A route held by a tree is a segment and what ends there.                *)
LEMMA HeldFacts ==
    ASSUME NEW t, TreeFit(t), NEW r \in Held(t)
    PROVE  /\ r \in Seq(Token) /\ r # <<>> /\ Front(r) \in DOMAIN t /\ r = Append(Front(r), Last(r))
           /\ Last(r) \in {End, Trailing, Wildcard} /\ Len(r) = Len(Front(r)) + 1 /\ Len(Front(r)) \in Nat
           /\ Last(r) = End => t[Front(r)].terminal # NULL
           /\ Last(r) = Trailing => t[Front(r)].trailing # NULL
           /\ Last(r) = Wildcard => t[Front(r)].wildcard # NULL
<1>1. PICK k \in DOMAIN t, e \in {End, Trailing, Wildcard} :
         /\ r = Append(k, e)
         /\ e = End => t[k].terminal # NULL
         /\ e = Trailing => t[k].trailing # NULL
         /\ e = Wildcard => t[k].wildcard # NULL
  BY TokenKinds DEF Held, WithTerminal, WithTrailing, WithWildcard
<1>2. /\ r \in Seq(Token) /\ r # <<>> /\ Front(r) = k /\ Last(r) = e /\ Len(r) = Len(k) + 1 /\ Len(k) \in Nat
  BY <1>1, TokenKinds, SegmentFacts, AppendOf
<1> QED
  BY <1>1, <1>2

LEMMA HeldOf ==
    ASSUME NEW t, TreeFit(t), NEW k \in DOMAIN t
    PROVE  /\ t[k].terminal # NULL => Append(k, End) \in Held(t)
           /\ t[k].trailing # NULL => Append(k, Trailing) \in Held(t)
           /\ t[k].wildcard # NULL => Append(k, Wildcard) \in Held(t)
BY DEF Held, WithTerminal, WithTrailing, WithWildcard

(* The parameters of a route are those on its way and its wildcard.        *)
LEMMA RouteParams ==
    ASSUME NEW t, TreeFit(t), NEW r \in Held(t)
    PROVE  ParamsOf(r) = ParamCount(Front(r)) + (IF Last(r) = Wildcard THEN 1 ELSE 0)
<1> DEFINE k == Front(r)
           e == Last(r)
           n == Len(k)
           A == {i \in DOMAIN k : k[i] \in Params}
           B == {i \in DOMAIN r : r[i] \in Params \cup {Wildcard}}
<1>1. /\ k \in Seq(Step) /\ r = Append(k, e) /\ n \in Nat /\ e \in {End, Trailing, Wildcard}
  BY HeldFacts, SegmentFacts
<1>2. /\ DOMAIN r = 1..(n + 1) /\ DOMAIN k = 1..n /\ (\A i \in 1..n : r[i] = k[i] /\ k[i] \in Step) /\ r[n + 1] = e
      /\ \A i : i \in 1..(n + 1) <=> i \in 1..n \/ i = n + 1
  BY <1>1
<1>3. \A i \in 1..n : r[i] \in Params \cup {Wildcard} <=> k[i] \in Params
  BY <1>2, TokenKinds
<1>4. e \in Params \cup {Wildcard} <=> e = Wildcard
  BY <1>1, TokenKinds
<1>5. IsFiniteSet(A) /\ Cardinality(A) \in Nat /\ n + 1 \notin A
  <2>1. A \subseteq 1..n /\ n + 1 \notin 1..n /\ IsFiniteSet(1..n)
    BY <1>1, <1>2, FS_Interval
  <2> QED
    BY <2>1, FS_Subset, FS_CardinalityType
<1>6. Cardinality(B) = Cardinality(A) + (IF e = Wildcard THEN 1 ELSE 0)
  <2>1. CASE e = Wildcard
    <3>1. B = A \cup {n + 1}
      <4> SUFFICES ASSUME NEW i PROVE i \in B <=> i \in A \/ i = n + 1
        OBVIOUS
      <4> QED
        BY <1>2, <1>3, <1>4, <2>1
    <3> HIDE DEF A, B, e, n
    <3> QED
      BY <1>5, <2>1, <3>1, FS_AddElement
  <2>2. CASE e # Wildcard
    <3>1. B = A
      <4> SUFFICES ASSUME NEW i PROVE i \in B <=> i \in A
        OBVIOUS
      <4> QED
        BY <1>2, <1>3, <1>4, <2>2
    <3> HIDE DEF A, B, e, n
    <3> QED
      BY <1>5, <2>2, <3>1
  <2> QED
    BY <2>1, <2>2
<1> QED
  BY <1>6, Zenon DEF ParamsOf, ParamCount

(* Below every segment there is a route.                                   *)
LEMMA RouteBelow ==
    ASSUME NEW t, TreeFit(t), NEW c \in DOMAIN t, c # Root
    PROVE  \E r \in Held(t) : ParamsOf(r) >= ParamCount(c) /\ ParamsOf(r) \in Nat
<1>1. PICK r \in Held(t) : IsStrictPrefix(c, r)
  BY DEF TreeFit, SoundTree
<1>2. c \in Seq(Step) /\ r \in Seq(Token) /\ Len(r) \in Nat /\ Len(c) \in Nat
  BY SegmentFacts, HeldFacts
<1>3. Len(c) <= Len(r) /\ \A i \in 1..Len(c) : c[i] = r[i]
  BY <1>1, <1>2 DEF IsStrictPrefix, IsPrefix
<1> DEFINE A == {i \in DOMAIN c : c[i] \in Params}
           B == {i \in DOMAIN r : r[i] \in Params \cup {Wildcard}}
<1>4. A \subseteq B /\ B \subseteq 1..Len(r) /\ IsFiniteSet(1..Len(r))
  <2>1. DOMAIN r = 1..Len(r) /\ DOMAIN c = 1..Len(c) /\ IsFiniteSet(1..Len(r))
    BY <1>2, FS_Interval
  <2>2. \A i \in 1..Len(c) : i \in 1..Len(r)
    BY <1>2, <1>3
  <2>3. A \subseteq B
    BY <1>3, <2>1, <2>2
  <2>4. B \subseteq 1..Len(r)
    BY <2>1
  <2> QED
    BY <2>1, <2>3, <2>4
<1> HIDE DEF A, B
<1>5. IsFiniteSet(B) /\ IsFiniteSet(A) /\ Cardinality(B) \in Nat /\ Cardinality(A) \in Nat
      /\ Cardinality(A) <= Cardinality(B)
  BY <1>4, FS_Subset, FS_CardinalityType
<1> QED
  BY <1>5 DEF A, B, ParamsOf, ParamCount

LEMMA MaxIs ==
    ASSUME NEW S \in SUBSET Int, NEW m \in S, \A x \in S : x <= m
    PROVE  Max(S) = m
<1>1. \E x \in S : \A y \in S : x >= y
  OBVIOUS
<1> DEFINE y == CHOOSE x \in S : \A z \in S : x >= z
<1>2. y \in S /\ \A z \in S : y >= z
  BY <1>1, Zenon
<1>3. Max(S) = y
  BY Zenon DEF Max
<1> HIDE DEF y
<1>4. y = m
  BY <1>2
<1> QED
  BY <1>3, <1>4

LEMMA MaxParams ==
    ASSUME NEW t, TreeFit(t), NEW m \in Nat, ParamBound(t, <<>>, DOMAIN t, m)
    PROVE  m = Max({0} \cup {ParamsOf(r) : r \in Held(t)})
<1> DEFINE S == {0} \cup {ParamsOf(r) : r \in Held(t)}
<1>1. ASSUME NEW r \in Held(t) PROVE ParamsOf(r) \in Nat /\ ParamsOf(r) <= m
  <2> DEFINE k == Front(r)
  <2>1. /\ k \in DOMAIN t /\ k \in Seq(Step) /\ ParamCount(k) \in Nat
        /\ Last(r) = Wildcard => t[k].spec # "SPEC_NONE"
    BY HeldFacts, SegmentFacts, ParamCountType
  <2>2. ParamCount(k) <= m /\ (t[k].spec # "SPEC_NONE" => ParamCount(k) + 1 <= m)
    BY <2>1 DEF ParamBound
  <2> HIDE DEF k
  <2>3. ParamsOf(r) = ParamCount(k) + (IF Last(r) = Wildcard THEN 1 ELSE 0)
    BY RouteParams DEF k
  <2> QED
    BY <2>1, <2>2, <2>3
<1>2. m \in S
  <2>1. CASE m = 0
    BY <2>1
  <2>2. CASE m # 0
    <3>1. PICK k \in DOMAIN t : t[k].spec # "SPEC_NONE" /\ ParamCount(k) + 1 = m
      BY <2>2 DEF ParamBound
    <3>2. k \in Seq(Step) /\ ParamCount(k) \in Nat
      BY SegmentFacts, ParamCountType
    <3>3. CASE t[k].spec = "SPEC_WILDCARD"
      <4>1. Append(k, Wildcard) \in Held(t)
        BY <3>3, SegmentFacts, HeldOf
      <4>2. Front(Append(k, Wildcard)) = k /\ Last(Append(k, Wildcard)) = Wildcard
        BY TokenKinds, SegmentFacts, AppendOf
      <4>3. ParamsOf(Append(k, Wildcard)) = m
        BY <3>1, <4>1, <4>2, RouteParams
      <4> QED
        BY <4>1, <4>3
    <3>4. CASE t[k].spec = "SPEC_PARAM"
      <4> DEFINE c == Append(k, Par(t[k].param))
      <4>1. c \in DOMAIN t /\ c # Root /\ Par(t[k].param) \in Step /\ Par(t[k].param) \in Params
        BY <3>4, SegmentFacts, TokenKinds, AppendOf DEF Root
      <4>2. ParamCount(c) = m
        BY <3>1, <3>2, <4>1, ParamCountFacts
      <4> HIDE DEF c
      <4>3. PICK r \in Held(t) : ParamsOf(r) >= m
        BY <4>1, <4>2, RouteBelow
      <4>4. ParamsOf(r) = m
        BY <1>1, <4>3
      <4> QED
        BY <4>4
    <3> QED
      BY <3>1, <3>3, <3>4, SegmentFacts
  <2> QED
    BY <2>1, <2>2
<1>3. S \in SUBSET Int /\ \A x \in S : x <= m
  BY <1>1
<1> HIDE DEF S
<1>4. Max(S) = m
  BY <1>2, <1>3, MaxIs
<1> QED
  BY <1>4 DEF S

(* graph_stats counts, at every call, what it has visited, and in the end  *)
(* the whole tree, in whatever order the segments are visited.             *)
THEOREM CountedCorrect == GraphSpec => []CountInv
<1> QED
  BY CountInit, CountNext, PTL DEF GraphSpec

(* max_params is the largest number of parameters of any route, its        *)
(* wildcard included: the size of the dispatchers' arrays.                 *)
THEOREM MaxParamsCorrect == GraphSpec => []MaxParamsExact
<1>1. CountInv => MaxParamsExact
  BY TreesFit, MaxParams DEF CountInv, Totals, MaxParamsExact
<1> QED
  BY <1>1, CountedCorrect, PTL

-----------------------------------------------------------------------------
(* Part 2.                                                                 *)

LEMMA SegShape ==
    ASSUME NEW t, TreeFit(t), NEW k \in DOMAIN t
    PROVE  /\ Len(t[k].children) \in Nat /\ SpecialLen(t[k]) \in {0, 1, 2} /\ LiteralsAt(t[k]) \in Nat
           /\ LiteralsAt(t[k]) >= 1 + SpecialLen(t[k]) /\ LiteralsAt(t[k]) <= 4
           /\ t[k].trailing # NULL => LiteralsAt(t[k]) = 2 + SpecialLen(t[k])
           /\ t[k].trailing = NULL => LiteralsAt(t[k]) = 1 + SpecialLen(t[k])
           /\ t[k].spec = "SPEC_PARAM" => SpecialLen(t[k]) = 2
           /\ t[k].spec = "SPEC_WILDCARD" => SpecialLen(t[k]) = 1
           /\ t[k].spec = "SPEC_NONE" => SpecialLen(t[k]) = 0
           /\ NodeLen(t[k]) = LiteralsAt(t[k]) + 2 * Len(t[k].children)
           /\ NodeLen(t[k]) \in Nat /\ SizeF(t)[k] = NodeLen(t[k])
           /\ k \in Real(t)
<1> DEFINE n == Len(t[k].children)
           p == SpecialLen(t[k])
           r == Flag(1, t[k].trailing # NULL)
<1>1. n \in Nat
  BY SegmentFacts
<1>2. /\ p \in {0, 1, 2} /\ (t[k].spec = "SPEC_PARAM" => p = 2) /\ (t[k].spec = "SPEC_WILDCARD" => p = 1)
      /\ (t[k].spec = "SPEC_NONE" => p = 0)
  BY DEF SpecialLen
<1>3. r \in {0, 1} /\ (t[k].trailing # NULL => r = 1) /\ (t[k].trailing = NULL => r = 0)
  BY FlagFacts
<1>4. LiteralsAt(t[k]) = 1 + p + r /\ NodeLen(t[k]) = LiteralsAt(t[k]) + 2 * n
  BY DEF LiteralsAt, NodeLen
<1>5. k \in Real(t) /\ SizeF(t)[k] = NodeLen(t[k])
  BY DEF Real, SizeF
<1> HIDE DEF n, p, r
<1>6. LiteralsAt(t[k]) \in Nat /\ LiteralsAt(t[k]) >= 1 + p /\ LiteralsAt(t[k]) <= 4
  BY <1>2, <1>3, <1>4
<1>7. NodeLen(t[k]) \in Nat
  BY <1>1, <1>4, <1>6
<1>8. /\ t[k].trailing # NULL => LiteralsAt(t[k]) = 2 + p
      /\ t[k].trailing = NULL => LiteralsAt(t[k]) = 1 + p
  BY <1>2, <1>3, <1>4
<1> QED
  BY <1>1, <1>2, <1>4, <1>5, <1>6, <1>7, <1>8 DEF n, p, r

LEMMA IndexIs ==
    ASSUME NEW t, TreeFit(t), NEW k \in DOMAIN t, NEW i \in 1..Len(t[k].children)
    PROVE  Index(t[k], t[k].children[i]) = i
BY SegmentFacts DEF Index

(* Where the edge to item x is, in the node above it.                      *)
LEMMA EdgeFacts ==
    ASSUME NEW t, TreeFit(t), NEW x \in Items(t), x # Root, NEW k, k = Front(x), NEW e, e = EdgeAt(t[k], Last(x))
    PROVE  /\ k \in DOMAIN t /\ x = Append(k, Last(x)) /\ e \in Nat /\ e >= 1
           /\ Last(x) = Illegal <=> x \in SortItems(t)
           /\ Last(x) = Illegal => e = LiteralsAt(t[k])
           /\ Last(x) \notin Literals \cup {Illegal} => /\ e < LiteralsAt(t[k])
                                                        /\ t[k].spec = "SPEC_PARAM" => e # 1
           /\ Last(x) \in Literals =>
                 \E i \in 1..Len(t[k].children) : /\ x = LitKid(k, t[k].children[i])
                                                  /\ Last(x) = Lit(t[k].children[i])
                                                  /\ e = LiteralsAt(t[k]) + 2 * i - 1
           /\ Last(x) \in Literals \cup Params => x \in DOMAIN t
           /\ Last(x) \in Params => t[k].spec = "SPEC_PARAM" /\ x = Append(k, Par(t[k].param)) /\ e = 2
           /\ Last(x) = Wildcard => t[k].spec = "SPEC_WILDCARD" /\ e = 1 /\ x \in Leaves(t)
           /\ Last(x) = Trailing => t[k].trailing # NULL /\ e = 1 + SpecialLen(t[k]) /\ x \in Leaves(t)
           /\ \/ Last(x) \in Literals \/ Last(x) \in Params
              \/ Last(x) = Wildcard \/ Last(x) = Trailing \/ Last(x) = Illegal
<1>1. x \in Seq(Token) /\ x # <<>>
  BY ItemFacts DEF Root
<1>2. x = Append(k, Last(x)) /\ k \in Items(t)
  BY <1>1, FrontOf, ItemsClosed DEF Closed
<1>3. x \in Kids(Items(t), k)
  BY <1>1, <1>2 DEF Kids
<1>4. /\ k \in DOMAIN t
      /\ \/ \E i \in 1..Len(t[k].children) : x = LitKid(k, t[k].children[i])
         \/ t[k].spec = "SPEC_PARAM" /\ x = Append(k, Par(t[k].param))
         \/ t[k].children # <<>> /\ x = SortOf(k)
         \/ t[k].wildcard # NULL /\ x = Append(k, Wildcard)
         \/ t[k].trailing # NULL /\ x = Append(k, Trailing)
  BY <1>2, <1>3, KidsOfItem, KidsOfSegment
<1>20. k \in DOMAIN t
  BY <1>4
<1>5. k \in Seq(Token) /\ \A y \in Token : Last(Append(k, y)) = y
  BY <1>20, SegmentFacts, AppendOf
<1>6. \A y : y \in Literals => y \notin Params /\ y # Wildcard /\ y # Trailing /\ y # Illegal
  BY TokenKinds
<1>7. \A y : y \in Params => y \notin Literals /\ y # Wildcard /\ y # Trailing /\ y # Illegal
  BY TokenKinds
<1>8. SpecialLen(t[k]) \in {0, 1, 2} /\ LiteralsAt(t[k]) \in Nat /\ LiteralsAt(t[k]) >= 1 + SpecialLen(t[k])
      /\ (t[k].trailing # NULL => LiteralsAt(t[k]) = 2 + SpecialLen(t[k]))
      /\ (t[k].spec = "SPEC_PARAM" => SpecialLen(t[k]) = 2) /\ (t[k].spec = "SPEC_WILDCARD" => SpecialLen(t[k]) = 1)
      /\ Len(t[k].children) \in Nat
  BY <1>4, SegShape
<1>9. ASSUME NEW i \in 1..Len(t[k].children), x = LitKid(k, t[k].children[i])
      PROVE  /\ Last(x) = Lit(t[k].children[i]) /\ Last(x) \in Literals /\ e = LiteralsAt(t[k]) + 2 * i - 1
             /\ x \in DOMAIN t /\ e \in Nat /\ e >= 1
  <2>1. /\ Lit(t[k].children[i]) \in Literals /\ Lit(t[k].children[i]) \in Token
        /\ Lit(t[k].children[i]).str = t[k].children[i] /\ x \in DOMAIN t
    <3>1. t[k].children[i] \in Names /\ x \in DOMAIN t
      <4>1. /\ t[k].children[i] \in Names /\ LitKid(k, t[k].children[i]) \in DOMAIN t
        BY <1>20, SegmentFacts
      <4> QED
        BY <1>9, <4>1, Zenon
    <3> QED
      BY ONLY <3>1, TokenKinds
  <2>2. Last(x) = Lit(t[k].children[i])
    BY <1>5, <1>9, <2>1 DEF LitKid
  <2>3. EdgeAt(t[k], Lit(t[k].children[i])) = LiteralsAt(t[k]) + 2 * Index(t[k], t[k].children[i]) - 1
    BY <1>6, <2>1 DEF EdgeAt
  <2>4. Index(t[k], t[k].children[i]) = i
    BY <1>4, IndexIs
  <2>5. e = LiteralsAt(t[k]) + 2 * i - 1
    BY <2>2, <2>3, <2>4
  <2> QED
    BY <1>8, <2>1, <2>2, <2>5
<1>10. ASSUME t[k].spec = "SPEC_PARAM", x = Append(k, Par(t[k].param))
       PROVE  Last(x) \in Params /\ e = 2 /\ x \in DOMAIN t
  <2>1. Par(t[k].param) \in Params /\ Par(t[k].param) \in Token /\ x \in DOMAIN t
    <3>1. t[k].param \in Names /\ x \in DOMAIN t
      BY <1>4, <1>10, SegmentFacts
    <3> QED
      BY ONLY <3>1, TokenKinds
  <2> QED
    BY <1>5, <1>10, <2>1 DEF EdgeAt
<1>11. ASSUME t[k].children # <<>>, x = SortOf(k)
       PROVE  Last(x) = Illegal /\ e = LiteralsAt(t[k]) /\ x \in SortItems(t)
  <2>1. Illegal \in Token /\ Illegal \notin Params /\ Illegal # Wildcard /\ Illegal # Trailing
    BY TokenKinds
  <2>2. x \in SortItems(t) /\ Last(x) = Illegal
    <3>1. Last(SortOf(k)) = Illegal
      BY <1>5, <2>1 DEF SortOf
    <3>2. x \in SortItems(t)
      BY <1>11, <1>20, ItemFacts
    <3> QED
      BY <1>11, <3>1, <3>2, Zenon
  <2> QED
    BY <2>1, <2>2 DEF EdgeAt
<1>12. ASSUME t[k].wildcard # NULL, x = Append(k, Wildcard)
       PROVE  Last(x) = Wildcard /\ e = 1 /\ t[k].spec = "SPEC_WILDCARD" /\ x \in Leaves(t)
  <2>1. t[k].spec = "SPEC_WILDCARD" /\ x \in Leaves(t) /\ Wildcard \in Token /\ Wildcard \notin Params
    BY <1>4, <1>12, TokenKinds, SegmentFacts, ItemFacts
  <2>2. Last(x) = Wildcard
    BY <1>5, <1>12, <2>1
  <2> QED
    BY <2>1, <2>2 DEF EdgeAt
<1>13. ASSUME t[k].trailing # NULL, x = Append(k, Trailing)
       PROVE  Last(x) = Trailing /\ e = 1 + SpecialLen(t[k]) /\ x \in Leaves(t)
  <2>1. x \in Leaves(t) /\ Trailing \in Token /\ Trailing \notin Params /\ Trailing # Wildcard
    BY <1>4, <1>13, TokenKinds, ItemFacts
  <2>2. Last(x) = Trailing
    BY <1>5, <1>13, <2>1
  <2> QED
    BY <2>1, <2>2 DEF EdgeAt
<1>14. x \in SortItems(t) => Last(x) = Illegal
  BY ItemFacts
<1>15. CASE \E i \in 1..Len(t[k].children) : x = LitKid(k, t[k].children[i])
  <2>1. PICK i \in 1..Len(t[k].children) : x = LitKid(k, t[k].children[i])
    BY <1>15
  <2>2. /\ Last(x) = Lit(t[k].children[i]) /\ Last(x) \in Literals /\ e = LiteralsAt(t[k]) + 2 * i - 1
        /\ x \in DOMAIN t /\ e \in Nat /\ e >= 1
    BY <1>9, <2>1
  <2> QED
    BY <1>2, <1>4, <1>6, <1>14, <2>1, <2>2
<1>16. CASE t[k].spec = "SPEC_PARAM" /\ x = Append(k, Par(t[k].param))
  <2>1. Last(x) \in Params /\ e = 2 /\ x \in DOMAIN t
    BY <1>10, <1>16
  <2> QED
    <3>1. e \in Nat /\ e >= 1 /\ e # 1 /\ e < LiteralsAt(t[k])
      BY <1>8, <1>16, <2>1
    <3>2. Last(x) \notin Literals /\ Last(x) # Wildcard /\ Last(x) # Trailing /\ Last(x) # Illegal
      BY <1>7, <2>1
    <3> QED
      BY <1>2, <1>4, <1>14, <1>16, <2>1, <3>1, <3>2
<1>17. CASE t[k].children # <<>> /\ x = SortOf(k)
  <2>1. Last(x) = Illegal /\ e = LiteralsAt(t[k]) /\ x \in SortItems(t)
    BY <1>11, <1>17
  <2> QED
    BY <1>2, <1>4, <1>6, <1>7, <1>8, <2>1, TokenKinds
<1>18. CASE t[k].wildcard # NULL /\ x = Append(k, Wildcard)
  <2>1. Last(x) = Wildcard /\ e = 1 /\ t[k].spec = "SPEC_WILDCARD" /\ x \in Leaves(t)
    BY <1>12, <1>18
  <2>2. Wildcard \notin Literals /\ Wildcard \notin Params /\ Wildcard # Trailing /\ Wildcard # Illegal
    BY TokenKinds
  <2> QED
    BY <1>2, <1>4, <1>8, <1>14, <2>1, <2>2
<1>19. CASE t[k].trailing # NULL /\ x = Append(k, Trailing)
  <2>1. Last(x) = Trailing /\ e = 1 + SpecialLen(t[k]) /\ x \in Leaves(t)
    BY <1>13, <1>19
  <2>2. Trailing \notin Literals /\ Trailing \notin Params /\ Wildcard # Trailing /\ Trailing # Illegal
    BY TokenKinds
  <2> QED
    BY <1>2, <1>4, <1>8, <1>14, <1>19, <2>1, <2>2
<1> QED
  BY <1>4, <1>15, <1>16, <1>17, <1>18, <1>19

(* Different children have different edges.                                *)
LEMMA EdgeDistinct ==
    ASSUME NEW t, TreeFit(t), NEW x \in Real(t), x # Root, NEW k, k = Front(x)
    PROVE  /\ k \in DOMAIN t /\ EdgeAt(t[k], Last(x)) \in 1..(NodeLen(t[k]) - 1)
           /\ \A y \in Real(t) : (y # Root /\ Front(y) = k /\ EdgeAt(t[k], Last(y)) = EdgeAt(t[k], Last(x))) => y = x
<1> DEFINE L == LiteralsAt(t[k])
           E(y) == EdgeAt(t[k], Last(y))
<1>1. \A y \in Real(t) : y \in Items(t) /\ y \notin SortItems(t)
  BY ItemsClosed DEF Items, Real
<1>2. k \in DOMAIN t
  BY <1>1, EdgeFacts
<1>3. /\ L \in Nat /\ SpecialLen(t[k]) \in {0, 1, 2} /\ L >= 1 + SpecialLen(t[k]) /\ Len(t[k].children) \in Nat
      /\ NodeLen(t[k]) = L + 2 * Len(t[k].children)
      /\ (t[k].spec = "SPEC_PARAM" => SpecialLen(t[k]) = 2) /\ (t[k].spec = "SPEC_WILDCARD" => SpecialLen(t[k]) = 1)
  BY <1>2, SegShape
<1>4. ASSUME NEW y \in Real(t), y # Root, Front(y) = k
      PROVE  /\ E(y) \in Nat /\ E(y) >= 1
             /\ \/ Last(y) \notin Literals /\ E(y) < L
                \/ \E i \in 1..Len(t[k].children) : y = LitKid(k, t[k].children[i]) /\ E(y) = L + 2 * i - 1
             /\ \/ Last(y) \in Literals
                \/ t[k].spec = "SPEC_PARAM" /\ y = Append(k, Par(t[k].param)) /\ E(y) = 2
                \/ t[k].spec = "SPEC_WILDCARD" /\ y = Append(k, Wildcard) /\ E(y) = 1
                \/ y = Append(k, Trailing) /\ E(y) = 1 + SpecialLen(t[k])
  <2> DEFINE e == E(y)
  <2>1. y \in Items(t) /\ Last(y) # Illegal
    BY <1>1, <1>4, EdgeFacts
  <2>2. /\ y = Append(k, Last(y)) /\ e \in Nat /\ e >= 1
        /\ Last(y) \notin Literals \cup {Illegal} => e < LiteralsAt(t[k])
        /\ Last(y) \in Literals =>
                 \E i \in 1..Len(t[k].children) : y = LitKid(k, t[k].children[i]) /\ e = LiteralsAt(t[k]) + 2 * i - 1
        /\ Last(y) \in Params => t[k].spec = "SPEC_PARAM" /\ y = Append(k, Par(t[k].param)) /\ e = 2
        /\ Last(y) = Wildcard => t[k].spec = "SPEC_WILDCARD" /\ e = 1
        /\ Last(y) = Trailing => e = 1 + SpecialLen(t[k])
        /\ Last(y) \in Literals \/ Last(y) \in Params \/ Last(y) = Wildcard \/ Last(y) = Trailing \/ Last(y) = Illegal
    BY <1>4, <2>1, EdgeFacts
  <2> HIDE DEF e
  <2> QED
    BY <2>1, <2>2 DEF e
<1>5. E(x) \in 1..(NodeLen(t[k]) - 1)
  <2> DEFINE e == E(x)
             n == Len(t[k].children)
  <2>1. e \in Nat /\ e >= 1 /\ (e < L \/ \E i \in 1..n : e = L + 2 * i - 1)
    BY <1>4
  <2> HIDE DEF e, n, L
  <2>2. e \in 1..(L + 2 * n - 1)
    BY <1>3, <2>1 DEF n
  <2> QED
    BY <1>3, <2>2 DEF e, n
<1>6. ASSUME NEW y \in Real(t), y # Root, Front(y) = k, E(y) = E(x) PROVE y = x
  <2>1. CASE E(x) >= L
    <3>1. PICK i \in 1..Len(t[k].children) : x = LitKid(k, t[k].children[i]) /\ E(x) = L + 2 * i - 1
      BY <1>3, <1>4, <2>1
    <3>2. PICK j \in 1..Len(t[k].children) : y = LitKid(k, t[k].children[j]) /\ E(y) = L + 2 * j - 1
      BY <1>3, <1>4, <1>6, <2>1
    <3> HIDE DEF E, L
    <3>3. i \in Nat /\ j \in Nat /\ L + 2 * i - 1 = L + 2 * j - 1
      BY <1>3, <1>6, <3>1, <3>2
    <3>4. i = j
      BY <1>3, <3>3
    <3> QED
      BY <3>1, <3>2, <3>4
  <2>2. CASE ~(E(x) >= L)
    <3> DEFINE Lit1(y1) == Last(y1) \in Literals
    <3>1. ~\E i \in 1..Len(t[k].children) : E(x) = L + 2 * i - 1
      BY <1>3, <2>2
    <3>2. Last(x) \notin Literals /\ Last(y) \notin Literals
      BY <1>4, <1>6, <3>1
    <3>3. \/ t[k].spec = "SPEC_PARAM" /\ x = Append(k, Par(t[k].param)) /\ E(x) = 2
          \/ t[k].spec = "SPEC_WILDCARD" /\ x = Append(k, Wildcard) /\ E(x) = 1
          \/ x = Append(k, Trailing) /\ E(x) = 1 + SpecialLen(t[k])
      BY <1>4, <3>2
    <3>4. \/ t[k].spec = "SPEC_PARAM" /\ y = Append(k, Par(t[k].param)) /\ E(y) = 2
          \/ t[k].spec = "SPEC_WILDCARD" /\ y = Append(k, Wildcard) /\ E(y) = 1
          \/ y = Append(k, Trailing) /\ E(y) = 1 + SpecialLen(t[k])
      BY <1>4, <1>6, <3>2
    <3>5. /\ t[k].spec = "SPEC_PARAM" => SpecialLen(t[k]) = 2
          /\ t[k].spec = "SPEC_WILDCARD" => SpecialLen(t[k]) = 1
      BY DEF SpecialLen
    <3> DEFINE z == SpecialLen(t[k])
    <3>6. z \in Nat /\ E(x) = E(y)
      BY <1>3, <1>6
    <3> HIDE DEF E, L, z
    <3>7. (t[k].spec = "SPEC_PARAM" => z = 2) /\ (t[k].spec = "SPEC_WILDCARD" => z = 1)
      BY <3>5 DEF z
    <3>8. CASE t[k].spec = "SPEC_PARAM"
      <4>1. z = 2
        BY <3>7, <3>8
      <4> QED
        BY <3>3, <3>4, <3>6, <3>8, <4>1 DEF z
    <3>9. CASE t[k].spec = "SPEC_WILDCARD"
      <4>1. z = 1
        BY <3>7, <3>9
      <4> QED
        BY <3>3, <3>4, <3>6, <3>9, <4>1 DEF z
    <3>10. CASE t[k].spec # "SPEC_PARAM" /\ t[k].spec # "SPEC_WILDCARD"
      BY <3>3, <3>4, <3>10
    <3> QED
      BY <3>8, <3>9, <3>10
  <2> QED
    BY <2>1, <2>2
<1> QED
  BY <1>2, <1>5, <1>6

(* Nodes do not share words.                                               *)
Disjoint(t, g, P, pos) ==
    \A y \in P : \A a \in 0..(SizeF(t)[y] - 1) :
       /\ pos[y] + a + 1 \in 1..Len(g) /\ pos[y] \in Nat
       /\ \A z \in P : \A b \in 0..(SizeF(t)[z] - 1) : pos[y] + a + 1 = pos[z] + b + 1 => y = z /\ a = b
LEMMA Regions ==
    ASSUME NEW t, TreeFit(t), NEW g, NEW P, P \subseteq Real(t), NEW pos, pos \in Spots(t), Allotted(t, g, P, pos),
           Len(g) \in Nat
    PROVE  Disjoint(t, g, P, pos)
<1> SUFFICES ASSUME NEW y \in P, NEW a \in 0..(SizeF(t)[y] - 1)
             PROVE  /\ pos[y] + a + 1 \in 1..Len(g) /\ pos[y] \in Nat
                    /\ \A z \in P : \A b \in 0..(SizeF(t)[z] - 1) :
                          pos[y] + a + 1 = pos[z] + b + 1 => y = z /\ a = b
  BY DEF Disjoint
<1>1. \A z \in P : pos[z] \in Nat /\ SizeF(t)[z] \in Nat
  BY SegWType DEF Spots
<1>2. \A z \in P : pos[z] + SizeF(t)[z] <= Len(g)
  BY DEF Allotted
<1>3. \A v, z \in P : v = z \/ pos[v] + SizeF(t)[v] <= pos[z] \/ pos[z] + SizeF(t)[z] <= pos[v]
  BY DEF Allotted
<1> DEFINE S == SizeF(t)
<1> HIDE DEF S
<1>4. \A z \in P : pos[z] \in Nat /\ S[z] \in Nat /\ pos[z] + S[z] <= Len(g)
  BY <1>1, <1>2 DEF S
<1>5. a \in 0..(S[y] - 1) /\ a \in Nat
  BY DEF S
<1>6. pos[y] + a + 1 \in 1..Len(g)
  BY <1>4, <1>5
<1>7. ASSUME NEW z \in P, NEW b \in 0..(S[z] - 1), pos[y] + a + 1 = pos[z] + b + 1 PROVE y = z /\ a = b
  <2>1. y = z \/ pos[y] + S[y] <= pos[z] \/ pos[z] + S[z] <= pos[y]
    BY <1>3 DEF S
  <2>2. \A p, q, m, n \in Nat : \A c \in 0..(m - 1) : \A d \in 0..(n - 1) :
           p + c + 1 = q + d + 1 => c = d \/ p # q
    OBVIOUS
  <2>3. \A p, q, m, n \in Nat : \A c \in 0..(m - 1) : \A d \in 0..(n - 1) :
           p + c + 1 = q + d + 1 => ~(p + m <= q) /\ ~(q + n <= p)
    OBVIOUS
  <2>4. pos[y] \in Nat /\ S[y] \in Nat /\ pos[z] \in Nat /\ S[z] \in Nat
    BY <1>4
  <2>5. y = z
    BY ONLY <2>1, <2>3, <2>4, <1>5, <1>7
  <2> QED
    BY ONLY <2>2, <2>4, <2>5, <1>5, <1>7
<1> QED
  BY <1>4, <1>5, <1>6, <1>7 DEF S

(* What is placed is closed upwards, and the next item is not placed.      *)
LEMMA PlacedFacts ==
    ASSUME NEW t, TreeFit(t), NEW lab \in Seq(Items(t)), Apart(lab), NEW P, P = Placed(t, lab)
    PROVE  /\ P \in SUBSET Real(t) /\ IsFiniteSet(P)
           /\ \A y \in P : y # Root => Front(y) \in P /\ Front(y) \in DOMAIN t
           /\ lab # <<>> => /\ lab[1] \in Items(t) /\ lab[1] \notin P
                            /\ lab[1] = Root => P = {}
                            /\ lab[1] # Root => Front(lab[1]) \in P /\ Front(lab[1]) \in DOMAIN t
<1> DEFINE R == Rest(Items(t), lab)
<1>1. P \in SUBSET Real(t) /\ P = Real(t) \ R
  BY DEF Placed
<1>2. IsFiniteSet(P)
  BY <1>1, Counts, FS_Subset
<1>3. Closed(Items(t)) /\ Items(t) \subseteq Seq(Token) /\ Real(t) \subseteq Items(t) /\ DOMAIN t \subseteq Real(t)
  BY ItemsClosed DEF Closed, Items, Real
<1>4. \A i \in 1..Len(lab) : lab[i] \in Items(t) /\ lab[i] \in Seq(Token)
  <2>1. \A i \in 1..Len(lab) : lab[i] \in Items(t)
    OBVIOUS
  <2> QED
    BY <1>3, <2>1
<1>5. ASSUME NEW y \in P, y # Root PROVE Front(y) \in P /\ Front(y) \in DOMAIN t
  <2>1. y \in Items(t) /\ y \in Seq(Token) /\ y \notin R /\ y # <<>>
    BY <1>1, <1>3, <1>5 DEF Root
  <2>2. Front(y) \in DOMAIN t
    BY <1>5, <2>1, EdgeFacts
  <2>3. Front(y) \notin R
    <3> SUFFICES ASSUME Front(y) \in R PROVE FALSE
      OBVIOUS
    <3>1. PICK i \in 1..Len(lab) : Under(lab[i], Front(y))
      BY DEF Rest
    <3>2. Under(lab[i], y)
      BY <1>4, <2>1, <3>1, UnderFront
    <3> QED
      BY <2>1, <3>2 DEF Rest
  <2> QED
    BY <1>1, <1>3, <2>2, <2>3
<1>6. ASSUME lab # <<>>
      PROVE  /\ lab[1] \in Items(t) /\ lab[1] \notin P
             /\ lab[1] = Root => P = {}
             /\ lab[1] # Root => Front(lab[1]) \in P /\ Front(lab[1]) \in DOMAIN t
  <2> DEFINE x == lab[1]
  <2>1. 1 \in 1..Len(lab)
    BY <1>6, TailFacts
  <2>2. x \in Items(t) /\ x \in Seq(Token)
    BY <1>4, <2>1
  <2> HIDE DEF x
  <2>3. x \in R
    <3>1. Under(x, x)
      BY <2>2, UnderFacts
    <3> QED
      BY <2>1, <2>2, <3>1 DEF Rest, x
  <2>4. ASSUME x = Root PROVE P = {}
    <3>1. \A q \in Items(t) : Under(Root, q)
      <4> TAKE q \in Items(t)
      <4>1. q \in Seq(Token) /\ Len(q) \in Nat
        BY <1>3
      <4> QED
        BY <4>1 DEF Under, Root
    <3>2. \A q \in Items(t) : q \in R
      BY <2>1, <2>4, <3>1 DEF Rest, x
    <3> QED
      BY <1>1, <1>3, <3>2
  <2>5. ASSUME x # Root PROVE Front(x) \in P /\ Front(x) \in DOMAIN t
    <3>1. Front(x) \in DOMAIN t /\ x # <<>>
      BY <2>2, <2>5, EdgeFacts DEF Root
    <3>2. Front(x) \in Seq(Token)
      BY <1>3, <3>1
    <3>3. Front(x) \notin R
      <4> SUFFICES ASSUME Front(x) \in R PROVE FALSE
        OBVIOUS
      <4>1. PICK i \in 1..Len(lab) : Under(lab[i], Front(x))
        BY DEF Rest
      <4>2. Under(lab[i], x) /\ lab[i] \in Seq(Token)
        BY <1>4, <2>2, <3>1, <4>1, UnderFront
      <4>3. i = 1
        BY <2>1, <4>2 DEF Apart, x
      <4>4. Under(x, Front(x)) /\ Under(Front(x), x)
        BY <2>2, <3>1, <4>1, <4>3, UnderFront DEF x
      <4>5. x = Front(x)
        BY <2>2, <3>2, <4>4, UnderFacts
      <4> QED
        BY <2>2, <3>1, <4>5, FrontOf
    <3> QED
      BY <1>1, <1>3, <3>1, <3>3
  <2> QED
    BY <1>1, <2>2, <2>3, <2>4, <2>5 DEF x
<1> QED
  BY <1>1, <1>2, <1>5, <1>6

-----------------------------------------------------------------------------
(* What is written, as words are added.                                    *)

(* Writing the edge to an item that is not yet placed disturbs nothing     *)
(* that is written already.                                                *)
LEMMA WrittenKept ==
    ASSUME NEW t, TreeFit(t), NEW P \in SUBSET Real(t), NEW U,
           \A y \in P : y # Root => Front(y) \in P /\ Front(y) \in DOMAIN t,
           NEW pos \in [Real(t) -> Nat], NEW pos2, \A y \in P : pos2[y] = pos[y],
           NEW x \in Real(t), x \notin P, NEW g, NEW g2, Written(t, g, P, U, pos),
           \A y \in P : \A a \in 0..(SizeF(t)[y] - 1) :
               \/ g2[pos[y] + a + 1] = g[pos[y] + a + 1]
               \/ x # Root /\ y = Front(x) /\ a = EdgeAt(t[y], Last(x))
    PROVE  Written(t, g2, P, U, pos2)
<1> DEFINE Kept(y, a) == g2[pos[y] + a + 1] = g[pos[y] + a + 1]
           Edge2(y, a) == x # Root /\ y = Front(x) /\ a = EdgeAt(t[y], Last(x))
<1>0. \A y \in P : \A a \in 0..(SizeF(t)[y] - 1) : Kept(y, a) \/ Edge2(y, a)
  OBVIOUS
<1>1. x \in Items(t) /\ x \notin SortItems(t)
  BY ItemsClosed DEF Items, Real
<1>2. ASSUME NEW k \in P \cap DOMAIN t
      PROVE  /\ ~Edge2(k, 0)
             /\ t[k].spec = "SPEC_PARAM" => ~Edge2(k, 1)
             /\ \A i \in 1..Len(t[k].children) : ~Edge2(k, LiteralsAt(t[k]) + 2 * i - 2)
             /\ k \notin U => \A i \in 1..Len(t[k].children) : ~Edge2(k, LiteralsAt(t[k]) + 2 * i - 1)
  <2> SUFFICES ASSUME x # Root, k = Front(x)
               PROVE  LET e == EdgeAt(t[k], Last(x))
                      IN  /\ e # 0
                          /\ t[k].spec = "SPEC_PARAM" => e # 1
                          /\ \A i \in 1..Len(t[k].children) : e # LiteralsAt(t[k]) + 2 * i - 2
                          /\ k \notin U => \A i \in 1..Len(t[k].children) : e # LiteralsAt(t[k]) + 2 * i - 1
    BY Zenon
  <2> DEFINE e == EdgeAt(t[k], Last(x))
             L == LiteralsAt(t[k])
             n == Len(t[k].children)
  <2>1. /\ e \in Nat /\ e >= 1 /\ Last(x) # Illegal
        /\ Last(x) \notin Literals \cup {Illegal} => e < L /\ (t[k].spec = "SPEC_PARAM" => e # 1)
        /\ Last(x) \in Literals =>
              \E i \in 1..n : x = LitKid(k, t[k].children[i]) /\ e = L + 2 * i - 1
    <3>1. TreeFit(t) /\ x \in Items(t) /\ x # Root /\ k = Front(x) /\ e = EdgeAt(t[k], Last(x))
      BY <1>1
    <3> HIDE DEF e
    <3>2. /\ e \in Nat /\ e >= 1 /\ (Last(x) = Illegal <=> x \in SortItems(t))
          /\ Last(x) \notin Literals \cup {Illegal} =>
                e < LiteralsAt(t[k]) /\ (t[k].spec = "SPEC_PARAM" => e # 1)
          /\ Last(x) \in Literals =>
                \E i \in 1..Len(t[k].children) : x = LitKid(k, t[k].children[i]) /\ e = LiteralsAt(t[k]) + 2 * i - 1
      BY ONLY <3>1, EdgeFacts
    <3>3. Last(x) # Illegal
      BY <1>1, <3>2
    <3> QED
      BY <3>2, <3>3
  <2>2. /\ L \in Nat /\ L >= 1 + SpecialLen(t[k]) /\ n \in Nat
        /\ (t[k].spec = "SPEC_PARAM" => SpecialLen(t[k]) = 2)
    BY SegShape
  <2>3. k \notin U => \A i \in 1..n : LitKid(k, t[k].children[i]) \in P
    <3>1. k \notin U => \A m \in ToSet(t[k].children) : LitKid(k, m) \in P
      BY DEF Written
    <3>2. \A i \in 1..n : t[k].children[i] \in ToSet(t[k].children)
      BY SegmentFacts DEF ToSet
    <3> QED
      BY <3>1, <3>2
  <2> HIDE DEF e, L, n
  <2>4. CASE Last(x) \in Literals
    <3>1. PICK j \in 1..n : x = LitKid(k, t[k].children[j]) /\ e = L + 2 * j - 1
      BY <2>1, <2>4
    <3>2. k \in U
      BY <2>3, <3>1
    <3>3. \A i \in 1..n : L + 2 * j - 1 # L + 2 * i - 2
      BY <2>2, <3>1
    <3>4. L + 2 * j - 1 # 0 /\ (t[k].spec = "SPEC_PARAM" => L + 2 * j - 1 # 1)
      BY <2>2, <3>1
    <3> QED
      BY <3>1, <3>2, <3>3, <3>4 DEF e, L, n
  <2>5. CASE Last(x) \notin Literals
    <3>1. e \in Nat /\ e >= 1 /\ e < L /\ (t[k].spec = "SPEC_PARAM" => e # 1)
      BY <2>1, <2>5
    <3>2. \A i \in 1..n : e # L + 2 * i - 2 /\ e # L + 2 * i - 1
      BY <2>2, <3>1
    <3> QED
      BY <3>1, <3>2 DEF e, L, n
  <2> QED
    BY <2>4, <2>5
<1>3. ASSUME NEW k \in P \cap DOMAIN t
      PROVE  /\ k \in P /\ pos2[k] = pos[k] /\ pos[k] \in Nat
             /\ g2[pos[k] + 1] = g[pos[k] + 1]
             /\ t[k].spec = "SPEC_PARAM" => g2[pos[k] + 2] = g[pos[k] + 2]
             /\ \A i \in 1..Len(t[k].children) : SymAt(g2, pos2[k], t[k], i) = SymAt(g, pos[k], t[k], i)
             /\ k \notin U => \A i \in 1..Len(t[k].children) :
                                 TgtAt(g2, pos2[k], t[k], i) = TgtAt(g, pos[k], t[k], i)
  <2> DEFINE L == LiteralsAt(t[k])
             n == Len(t[k].children)
             S == SizeF(t)[k]
             p == pos[k]
  <2>1. /\ L \in Nat /\ L >= 1 + SpecialLen(t[k]) /\ n \in Nat /\ S = L + 2 * n /\ S \in Nat
        /\ (t[k].spec = "SPEC_PARAM" => SpecialLen(t[k]) = 2) /\ SpecialLen(t[k]) \in {0, 1, 2}
    BY SegShape
  <2>2. p \in Nat /\ k \in P /\ pos2[k] = p
    BY DEF Real
  <2>3. \A a \in 0..(S - 1) : g2[p + a + 1] = g[p + a + 1] \/ Edge2(k, a)
    BY <1>0
  <2>4. /\ ~Edge2(k, 0)
        /\ t[k].spec = "SPEC_PARAM" => ~Edge2(k, 1)
        /\ \A i \in 1..n : ~Edge2(k, L + 2 * i - 2)
        /\ k \notin U => \A i \in 1..n : ~Edge2(k, L + 2 * i - 1)
    BY <1>2
  <2> HIDE DEF L, n, S, p, Edge2
  <2>5. 0 \in 0..(S - 1) /\ p + 0 + 1 = p + 1
    BY <2>1, <2>2
  <2>6. t[k].spec = "SPEC_PARAM" => 1 \in 0..(S - 1) /\ p + 1 + 1 = p + 2
    BY <2>1, <2>2
  <2>7. \A i \in 1..n : /\ L + 2 * i - 2 \in 0..(S - 1) /\ p + (L + 2 * i - 2) + 1 = p + L + 2 * i - 1
                        /\ L + 2 * i - 1 \in 0..(S - 1) /\ p + (L + 2 * i - 1) + 1 = p + L + 2 * i
    BY <2>1, <2>2
  <2>8. g2[p + 1] = g[p + 1] /\ (t[k].spec = "SPEC_PARAM" => g2[p + 2] = g[p + 2])
    BY <2>3, <2>4, <2>5, <2>6
  <2>9. \A i \in 1..n : /\ g2[p + L + 2 * i - 1] = g[p + L + 2 * i - 1]
                        /\ k \notin U => g2[p + L + 2 * i] = g[p + L + 2 * i]
    <3> TAKE i \in 1..n
    <3>1. g2[p + (L + 2 * i - 2) + 1] = g[p + (L + 2 * i - 2) + 1]
      BY ONLY <2>3, <2>4, <2>7
    <3>2. k \notin U => g2[p + (L + 2 * i - 1) + 1] = g[p + (L + 2 * i - 1) + 1]
      BY ONLY <2>3, <2>4, <2>7
    <3> QED
      BY <2>7, <3>1, <3>2
  <2> QED
    BY <2>2, <2>8, <2>9 DEF SymAt, TgtAt, L, n, p
<1>4. ASSUME NEW k \in P \cap DOMAIN t, k \notin U PROVE SortedEdges(t, g2, k, pos2)
  <2> DEFINE n == Len(t[k].children)
  <2>1. \A i \in 1..n : /\ SymAt(g2, pos2[k], t[k], i) = SymAt(g, pos[k], t[k], i)
                        /\ TgtAt(g2, pos2[k], t[k], i) = TgtAt(g, pos[k], t[k], i)
    BY <1>3, <1>4
  <2>2. \A i \in 1..n : pos2[LitKid(k, t[k].children[i])] = pos[LitKid(k, t[k].children[i])]
    <3>1. \A m \in ToSet(t[k].children) : LitKid(k, m) \in P
      BY <1>4 DEF Written
    <3>2. \A i \in 1..n : t[k].children[i] \in ToSet(t[k].children)
      BY SegmentFacts DEF ToSet
    <3> QED
      BY <3>1, <3>2
  <2>3. SortedEdges(t, g, k, pos)
    BY <1>4 DEF Written
  <2> QED
    BY <2>1, <2>2, <2>3 DEF SortedEdges
<1>5. ASSUME NEW y \in P \ {Root}, Last(y) \in Literals => Front(y) \in U
      PROVE  g2[pos2[Front(y)] + EdgeAt(t[Front(y)], Last(y)) + 1] = pos2[y]
  <2> DEFINE k == Front(y)
             a == EdgeAt(t[k], Last(y))
  <2>1. k \in P /\ k \in DOMAIN t /\ y \in Real(t) /\ y # Root
    BY <1>5
  <2>2. a \in 1..(NodeLen(t[k]) - 1) /\ SizeF(t)[k] = NodeLen(t[k]) /\ NodeLen(t[k]) \in Nat
    BY <2>1, EdgeDistinct, SegShape
  <2>3. a \in 0..(SizeF(t)[k] - 1)
    BY <2>2
  <2>4. ~Edge2(k, a)
    <3> SUFFICES ASSUME Edge2(k, a) PROVE FALSE
      OBVIOUS
    <3>1. x \in Real(t) /\ x # Root /\ Front(x) = k /\ EdgeAt(t[k], Last(x)) = a
      OBVIOUS
    <3>2. x = y
      BY <2>1, <3>1, EdgeDistinct
    <3> QED
      BY <3>2
  <2>5. g2[pos[k] + a + 1] = g[pos[k] + a + 1]
    BY <1>0, <2>1, <2>3, <2>4
  <2>6. g[pos[k] + a + 1] = pos[y]
    BY <1>5 DEF Written
  <2> HIDE DEF a
  <2> QED
    BY <2>1, <2>5, <2>6 DEF a
<1>6. ASSUME NEW k \in P \cap DOMAIN t
      PROVE  LET s == t[k]
             IN  /\ g2[pos2[k] + 1] = NodeWord(s)
                 /\ s.spec = "SPEC_PARAM" => g2[pos2[k] + 2] = Resolve(ParNames(t), s.param)
                 /\ k \in U => \A i \in 1..Len(s.children) :
                                SymAt(g2, pos2[k], s, i) = Resolve(LitNames(t), s.children[i])
                 /\ k \notin U => \A n \in ToSet(s.children) : LitKid(k, n) \in P
  <2>1. /\ g[pos[k] + 1] = NodeWord(t[k])
        /\ t[k].spec = "SPEC_PARAM" => g[pos[k] + 2] = Resolve(ParNames(t), t[k].param)
        /\ k \in U => \A i \in 1..Len(t[k].children) :
                       SymAt(g, pos[k], t[k], i) = Resolve(LitNames(t), t[k].children[i])
        /\ k \notin U => \A n \in ToSet(t[k].children) : LitKid(k, n) \in P
    BY DEF Written
  <2> QED
    BY <1>3, <2>1
<1> QED
  BY <1>4, <1>5, <1>6 DEF Written

(* Placing an item that leaves the rest as it was.                         *)
LEMMA WrittenGrown ==
    ASSUME NEW t, TreeFit(t), NEW P \in SUBSET Real(t), NEW U, NEW pos, NEW g, Written(t, g, P, U, pos), NEW x,
           x \in DOMAIN t => /\ g[pos[x] + 1] = NodeWord(t[x])
                             /\ t[x].spec = "SPEC_PARAM" => g[pos[x] + 2] = Resolve(ParNames(t), t[x].param)
                             /\ \A i \in 1..Len(t[x].children) :
                                   SymAt(g, pos[x], t[x], i) = Resolve(LitNames(t), t[x].children[i])
                             /\ x \notin U => t[x].children = <<>>,
           x # Root => g[pos[Front(x)] + EdgeAt(t[Front(x)], Last(x)) + 1] = pos[x]
    PROVE  Written(t, g, P \cup {x}, U, pos)
<1>1. ASSUME NEW k \in (P \cup {x}) \cap DOMAIN t
      PROVE  LET s == t[k]
             IN  /\ g[pos[k] + 1] = NodeWord(s)
                 /\ s.spec = "SPEC_PARAM" => g[pos[k] + 2] = Resolve(ParNames(t), s.param)
                 /\ k \in U => \A i \in 1..Len(s.children) :
                                SymAt(g, pos[k], s, i) = Resolve(LitNames(t), s.children[i])
                 /\ k \notin U => /\ \A n \in ToSet(s.children) : LitKid(k, n) \in P \cup {x}
                                  /\ SortedEdges(t, g, k, pos)
  <2>1. CASE k \in P
    BY <2>1 DEF Written
  <2>2. CASE k = x
    <3>1. x \notin U => \A n \in ToSet(t[x].children) : LitKid(x, n) \in P \cup {x}
      BY <2>2 DEF ToSet
    <3>2. x \notin U => SortedEdges(t, g, x, pos)
      BY <2>2 DEF SortedEdges
    <3> QED
      BY <2>2, <3>1, <3>2
  <2> QED
    BY <2>1, <2>2
<1>2. ASSUME NEW y \in (P \cup {x}) \ {Root}, Last(y) \in Literals => Front(y) \in U
      PROVE  g[pos[Front(y)] + EdgeAt(t[Front(y)], Last(y)) + 1] = pos[y]
  <2>1. CASE y = x
    BY <2>1
  <2>2. CASE y # x
    BY <1>2, <2>2 DEF Written
  <2> QED
    BY <2>1, <2>2
<1> QED
  BY <1>1, <1>2 DEF Written

LEMMA AllottedGrown ==
    ASSUME NEW t, TreeFit(t), NEW P, P \subseteq Real(t), NEW x, x \in Real(t), x \notin P, x = Root => P = {},
           NEW pos, pos \in Spots(t), NEW g, Len(g) \in Nat, Allotted(t, g, P, pos),
           NEW pos2, pos2 = Moved(pos, x, Len(g)),
           NEW g2, Longer(t, x, g, g2)
    PROVE  /\ Allotted(t, g2, P \cup {x}, pos2) /\ pos2 \in Spots(t)
           /\ Settled(P, pos, pos2, Len(g))
<1> DEFINE S == SizeF(t)
           h == Len(g)
<1>1. S \in [Real(t) -> Nat] /\ S \in [Real(t) -> Int] /\ (\A y \in Real(t) : S[y] \in Nat /\ S[y] > 0)
      /\ IsFiniteSet(P)
  <2>1. S \in [Real(t) -> Nat] /\ (\A y \in Real(t) : S[y] > 0)
    BY SegWType
  <2>2. IsFiniteSet(P)
    BY Counts, FS_Subset
  <2> DEFINE RR == Real(t)
  <2> HIDE DEF S, RR
  <2>3. S \in [RR -> Int] /\ \A y \in RR : S[y] \in Nat
    <3>1. S \in [RR -> Nat]
      BY <2>1 DEF RR
    <3> QED
      BY ONLY <3>1
  <2> USE DEF RR
  <2> QED
    BY <2>1, <2>2, <2>3
<1>2. pos2 \in [Real(t) -> Nat] /\ pos2[x] = h /\ \A y \in P : pos2[y] = pos[y]
  BY DEF Spots, Moved
<1> HIDE DEF S, h
<1>3. /\ h = SumFunctionOnSet(S, P)
      /\ \A y \in P : pos[y] + S[y] <= h
      /\ \A y, z \in P : y = z \/ pos[y] + S[y] <= pos[z] \/ pos[z] + S[z] <= pos[y]
      /\ Root \in P => pos[Root] = 0
  BY DEF Allotted, S, h
<1>4. Len(g2) = SumFunctionOnSet(S, P \cup {x})
  <2>1. SumFunctionOnSet(S, P \cup {x}) = SumFunctionOnSet(S, P) + S[x]
    <3>1. S \in [Real(t) -> Int] /\ P \in SUBSET Real(t) /\ IsFiniteSet(P) /\ x \in Real(t) /\ x \notin P
      BY <1>1
    <3> QED
      BY ONLY <3>1, SumGrow
  <2> QED
    BY <1>3, <2>1 DEF S, h, Longer
<1>5. h \in Nat /\ Len(g2) = h + S[x] /\ \A y \in P : pos[y] \in Nat /\ S[y] \in Nat /\ S[y] > 0
  BY <1>1 DEF S, h, Spots, Longer
<1>6. \A y \in P : pos[y] < h
  BY <1>3, <1>5
<1>7. \A y \in P \cup {x} : pos2[y] + S[y] <= Len(g2)
  BY <1>1, <1>2, <1>3, <1>5
<1>8. \A y, z \in P \cup {x} : y = z \/ pos2[y] + S[y] <= pos2[z] \/ pos2[z] + S[z] <= pos2[y]
  <2> TAKE y, z \in P \cup {x}
  <2>1. CASE y \in P /\ z \in P
    BY <1>2, <1>3, <2>1
  <2>2. CASE y \in P /\ z = x
    BY <1>2, <1>3, <2>2
  <2>3. CASE y = x /\ z \in P
    BY <1>2, <1>3, <2>3
  <2> QED
    BY <2>1, <2>2, <2>3
<1>9. Root \in P \cup {x} => pos2[Root] = 0
  <2>1. CASE x = Root
    <3>1. SumFunctionOnSet(S, {}) = 0
      BY FS_EmptySet, SumZero
    <3> QED
      BY <1>2, <1>3, <2>1, <3>1
  <2>2. CASE x # Root
    BY <1>2, <1>3, <2>2
  <2> QED
    BY <2>1, <2>2
<1> QED
  BY <1>2, <1>4, <1>6, <1>7, <1>8, <1>9 DEF Allotted, S, h, Spots, Settled

LEMMA TerminalsGrown ==
    ASSUME NEW t, TreeFit(t), NEW P \in SUBSET Real(t), NEW x \in Real(t), x \notin P,
           NEW pos, NEW pos2, NEW h \in Nat, pos2[x] = h, \A y \in P : pos2[y] = pos[y] /\ pos[y] < h,
           NEW rf \in Seq(Nat), NEW C, NEW bs \in Seq(C), Terminals(t, rf, bs, P, pos), NEW rf2, NEW bs2,
           x \in Ends(t) => rf2 = Append(rf, h) /\ bs2 = Append(bs, ContextOf(t, x)) /\ ContextOf(t, x) \in C,
           x \notin Ends(t) => rf2 = rf /\ bs2 = bs
    PROVE  Terminals(t, rf2, bs2, P \cup {x}, pos2) /\ rf2 \in Seq(Nat) /\ bs2 \in Seq(C)
<1> DEFINE F == EndF(t)
           n == Len(rf)
<1>1. F \in [Real(t) -> Int] /\ IsFiniteSet(P) /\ F[x] = (IF x \in Ends(t) THEN 1 ELSE 0)
  <2>1. EndF(t) \in [Real(t) -> Nat]
    BY SegWType
  <2>2. F \in [Real(t) -> Int]
    BY <2>1
  <2>3. IsFiniteSet(P)
    BY Counts, FS_Subset
  <2> QED
    BY <2>2, <2>3 DEF EndF
<1>2. /\ n = SumFunctionOnSet(F, P) /\ Len(bs) = n /\ n \in Nat
      /\ \A i \in 1..n : \E y \in P \cap Ends(t) : rf[i] = pos[y] /\ bs[i] = ContextOf(t, y)
      /\ \A y \in P \cap Ends(t) : \E i \in 1..n : rf[i] = pos[y]
      /\ \A i, j \in 1..n : i < j => rf[i] < rf[j]
  BY DEF Terminals
<1> HIDE DEF F, n
<1>3. SumFunctionOnSet(F, P \cup {x}) = SumFunctionOnSet(F, P) + F[x]
  BY <1>1, SumGrow
<1>4. CASE x \in Ends(t)
  <2>1. /\ rf2 = Append(rf, h) /\ bs2 = Append(bs, ContextOf(t, x)) /\ ContextOf(t, x) \in C
        /\ F[x] = 1
    BY <1>1, <1>4
  <2>2. /\ Len(rf2) = n + 1 /\ (\A i \in 1..n : rf2[i] = rf[i]) /\ rf2[n + 1] = h /\ rf2 \in Seq(Nat)
    BY <1>2, <2>1 DEF n
  <2>3. /\ Len(bs2) = n + 1 /\ (\A i \in 1..n : bs2[i] = bs[i]) /\ bs2[n + 1] = ContextOf(t, x) /\ bs2 \in Seq(C)
    <3>1. bs \in Seq(C) /\ ContextOf(t, x) \in C /\ Len(bs) = n
      BY <1>2, <2>1
    <3> QED
      BY ONLY <2>1, <3>1, AppendOf
  <2>4. \A i : i \in 1..(n + 1) <=> i \in 1..n \/ i = n + 1
    BY <1>2
  <2>5. \A i \in 1..(n + 1) : \E y \in (P \cup {x}) \cap Ends(t) : rf2[i] = pos2[y] /\ bs2[i] = ContextOf(t, y)
    <3> TAKE i \in 1..(n + 1)
    <3>1. CASE i \in 1..n
      <4>1. PICK y \in P \cap Ends(t) : rf[i] = pos[y] /\ bs[i] = ContextOf(t, y)
        BY <1>2, <3>1
      <4> QED
        BY <2>2, <2>3, <3>1, <4>1
    <3>2. CASE i = n + 1
      BY <1>4, <2>2, <2>3, <3>2
    <3> QED
      BY <2>4, <3>1, <3>2
  <2>6. \A y \in (P \cup {x}) \cap Ends(t) : \E i \in 1..(n + 1) : rf2[i] = pos2[y]
    <3> TAKE y \in (P \cup {x}) \cap Ends(t)
    <3>1. CASE y \in P
      <4>1. PICK i \in 1..n : rf[i] = pos[y]
        BY <1>2, <3>1
      <4> QED
        BY <2>2, <2>4, <3>1, <4>1
    <3>2. CASE y = x
      BY <2>2, <2>4, <3>2
    <3> QED
      BY <3>1, <3>2
  <2>7. \A i, j \in 1..(n + 1) : i < j => rf2[i] < rf2[j]
    <3> SUFFICES ASSUME NEW i \in 1..(n + 1), NEW j \in 1..(n + 1), i < j PROVE rf2[i] < rf2[j]
      OBVIOUS
    <3>1. i \in 1..n
      BY <1>2
    <3>2. CASE j \in 1..n
      BY <1>2, <2>2, <3>1, <3>2
    <3>3. CASE j = n + 1
      <4>1. PICK y \in P \cap Ends(t) : rf[i] = pos[y]
        BY <1>2, <3>1
      <4> QED
        BY <2>2, <3>1, <3>3, <4>1
    <3> QED
      BY <2>4, <3>2, <3>3
  <2>8. Len(rf2) = SumFunctionOnSet(EndF(t), P \cup {x}) /\ Len(bs2) = Len(rf2)
    <3>1. n + F[x] = n + 1
      BY <2>1
    <3> QED
      BY <1>2, <1>3, <2>2, <2>3, <3>1 DEF F
  <2>9. 1..Len(rf2) = 1..(n + 1)
    BY <2>2
  <2> QED
    BY <2>2, <2>3, <2>5, <2>6, <2>7, <2>8, <2>9 DEF Terminals
<1>5. CASE x \notin Ends(t)
  <2>1. rf2 = rf /\ bs2 = bs /\ F[x] = 0
    BY <1>1, <1>5
  <2>2. (P \cup {x}) \cap Ends(t) = P \cap Ends(t)
    BY <1>5
  <2>3. SumFunctionOnSet(F, P \cup {x}) = n
    <3>1. n + 0 = n
      BY <1>2
    <3> QED
      BY <1>2, <1>3, <2>1, <3>1
  <2>4. \A i \in 1..n : \E y \in P \cap Ends(t) : rf[i] = pos2[y] /\ bs[i] = ContextOf(t, y)
    BY <1>2
  <2>5. \A y \in P \cap Ends(t) : \E i \in 1..n : rf[i] = pos2[y]
    BY <1>2
  <2>6. Len(rf2) = SumFunctionOnSet(EndF(t), P \cup {x}) /\ Len(bs2) = Len(rf2) /\ 1..Len(rf2) = 1..n
    BY <1>2, <2>1, <2>3 DEF F, n
  <2> QED
    <3>1. \A y \in (P \cup {x}) \cap Ends(t) : \E i \in 1..Len(rf2) : rf2[i] = pos2[y]
      BY <2>1, <2>2, <2>5, <2>6
    <3>2. \A i \in 1..Len(rf2) : \E y \in (P \cup {x}) \cap Ends(t) : rf2[i] = pos2[y] /\ bs2[i] = ContextOf(t, y)
      BY <2>1, <2>2, <2>4, <2>6
    <3>3. \A i, j \in 1..Len(rf2) : i < j => rf2[i] < rf2[j]
      BY <1>2, <2>1, <2>6
    <3> QED
      BY <2>1, <2>6, <3>1, <3>2, <3>3 DEF Terminals
<1> QED
  BY <1>4, <1>5

LEMMA StackedGrown ==
    ASSUME NEW t, TreeFit(t), NEW w, NEW lab, NEW pos, Stacked(t, w, lab, pos), lab # <<>>,
           NEW x, x = lab[1], NEW pos2, SameBut(pos, pos2, x),
           NEW kids, Heirs(t, x, kids), NEW w2, w2 = Entries(t, pos2, kids) \o Tail(w)
    PROVE  /\ Stacked(t, w2, kids \o Tail(lab), pos2)
           /\ Fewer(t, lab, kids \o Tail(lab), x)
<1>0. /\ kids \in Seq(Items(t)) /\ w2 = [i \in 1..Len(kids) |-> Entry(t, pos2, kids[i])] \o Tail(w)
      /\ \A i \in 1..Len(kids) : kids[i] \in Kids(Items(t), lab[1])
      /\ \A c \in Kids(Items(t), lab[1]) : \E i \in 1..Len(kids) : kids[i] = c
      /\ \A i, j \in 1..Len(kids) : kids[i] = kids[j] => i = j
      /\ \A i, j \in 1..Len(kids) : i < j /\ Last(kids[i]) = Illegal => Last(kids[j]) \notin Literals
  BY DEF Heirs, Entries
<1> DEFINE I == Items(t)
           new == kids \o Tail(lab)
           n == Len(kids)
           T == [i \in 1..n |-> Entry(t, pos2, kids[i])]
<1>1. /\ lab \in Seq(I) /\ Apart(lab) /\ Closed(I)
      /\ w = [i \in 1..Len(lab) |-> Entry(t, pos, lab[i])]
      /\ \A i, j \in 1..Len(lab) : (i < j /\ Last(lab[i]) = Illegal /\ lab[i] # <<>>) =>
          \A m \in ToSet(t[Front(lab[i])].children) : ~Under(LitKid(Front(lab[i]), m), lab[j])
  BY ItemsClosed DEF Stacked
<1>2. /\ new \in Seq(I) /\ Apart(new) /\ x \in Rest(I, lab)
      /\ Rest(I, new) = Rest(I, lab) \ {x}
  <2> HIDE DEF I
  <2>1. kids \in Seq(I) /\ (\A i \in 1..Len(kids) : kids[i] \in Kids(I, lab[1]))
        /\ (\A c \in Kids(I, lab[1]) : \E i \in 1..Len(kids) : kids[i] = c)
        /\ (\A i, j \in 1..Len(kids) : kids[i] = kids[j] => i = j)
    BY <1>0 DEF I
  <2> HIDE DEF new
  <2>2. /\ kids \o Tail(lab) \in Seq(I) /\ Apart(kids \o Tail(lab)) /\ lab[1] \in Rest(I, lab)
        /\ Rest(I, kids \o Tail(lab)) = Rest(I, lab) \ {lab[1]}
    BY <1>1, <2>1, StackStep
  <2> QED
    BY <2>2 DEF new
<1> HIDE DEF I
<1>3. /\ Len(lab) \in Nat /\ Len(lab) > 0 /\ n \in Nat /\ Tail(lab) \in Seq(I) /\ Len(Tail(lab)) = Len(lab) - 1
      /\ (\A i \in 1..(Len(lab) - 1) : Tail(lab)[i] = lab[i + 1])
      /\ \A i \in 1..Len(lab) : lab[i] \in I
  BY <1>1, TailFacts
<1>4. /\ Len(new) = n + (Len(lab) - 1) /\ (\A i \in 1..n : new[i] = kids[i])
      /\ \A i \in (n + 1)..(n + (Len(lab) - 1)) : new[i] = lab[i - n + 1] /\ i - n + 1 \in 2..Len(lab)
  <2>1. kids \in Seq(I)
    BY <1>0 DEF I
  <2>2. /\ Len(new) = n + Len(Tail(lab)) /\ (\A i \in 1..n : new[i] = kids[i])
        /\ \A i \in (n + 1)..(n + Len(Tail(lab))) : new[i] = Tail(lab)[i - n]
    BY ONLY <1>3, <2>1, JoinFacts
  <2> HIDE DEF new, n
  <2>3. \A i \in (n + 1)..(n + (Len(lab) - 1)) : i - n \in 1..(Len(lab) - 1) /\ (i - n) + 1 = i - n + 1
                                                /\ i - n + 1 \in 2..Len(lab)
    BY <1>3
  <2> QED
    BY <1>3, <2>2, <2>3
<1>5. \A i : i \in 1..Len(new) <=> i \in 1..n \/ i \in (n + 1)..(n + (Len(lab) - 1))
  <2> HIDE DEF new, n
  <2> QED
    BY <1>3, <1>4
<1>6. \A m \in 2..Len(lab) : /\ m \in 1..Len(lab) /\ lab[m] \in Seq(Token) /\ ~Under(x, lab[m])
                             /\ lab[m] # <<>> => Front(lab[m]) # x
  <2> TAKE m \in 2..Len(lab)
  <2>1. m \in 1..Len(lab) /\ m # 1 /\ 1 \in 1..Len(lab)
    BY <1>3
  <2>2. lab[m] \in Seq(Token) /\ ~Under(x, lab[m])
    BY <1>1, <1>3, <2>1 DEF Apart, Closed
  <2>3. lab[m] # <<>> => Under(Front(lab[m]), lab[m])
    BY <2>2, UnderFront
  <2> QED
    BY <2>1, <2>2, <2>3
<1>7. \A m \in 2..Len(lab) : Entry(t, pos2, lab[m]) = Entry(t, pos, lab[m])
  <2> TAKE m \in 2..Len(lab)
  <2>1. CASE lab[m] = <<>>
    BY <2>1 DEF Entry, Root
  <2>2. CASE lab[m] # <<>>
    <3>1. pos2[Front(lab[m])] = pos[Front(lab[m])]
      BY <1>6, <2>2 DEF SameBut
    <3> QED
      BY <3>1 DEF Entry
  <2> QED
    BY <2>1, <2>2
<1>8. w2 = [i \in 1..Len(new) |-> Entry(t, pos2, new[i])]
  <2> DEFINE A == {Entry(t, pos, y) : y \in I} \cup {Entry(t, pos2, y) : y \in I}
  <2>1. \A y \in I : Entry(t, pos, y) \in A /\ Entry(t, pos2, y) \in A
    OBVIOUS
  <2> HIDE DEF A
  <2>2. w \in Seq(A) /\ w # <<>> /\ Len(w) = Len(lab) /\ \A i \in 1..Len(lab) : w[i] = Entry(t, pos, lab[i])
    BY <1>1, <1>3, <2>1
  <2>3. Tail(w) \in Seq(A) /\ Len(Tail(w)) = Len(w) - 1 /\ \A i \in 1..(Len(w) - 1) : Tail(w)[i] = w[i + 1]
    BY ONLY <2>2, TailFacts
  <2>4. T \in Seq(A) /\ Len(T) = n /\ \A i \in 1..n : T[i] = Entry(t, pos2, kids[i])
    <3>1. \A i \in 1..n : kids[i] \in I
      BY <1>0 DEF I
    <3> QED
      BY <1>3, <2>1, <3>1
  <2> HIDE DEF T
  <2>5. w2 = T \o Tail(w)
    BY <1>0 DEF T
  <2>6. /\ T \o Tail(w) \in Seq(A) /\ Len(T \o Tail(w)) = Len(T) + Len(Tail(w))
        /\ (\A i \in 1..Len(T) : (T \o Tail(w))[i] = T[i])
        /\ \A i \in (Len(T) + 1)..(Len(T) + Len(Tail(w))) : (T \o Tail(w))[i] = Tail(w)[i - Len(T)]
    <3>1. T \in Seq(A) /\ Tail(w) \in Seq(A)
      BY <2>3, <2>4
    <3> QED
      BY ONLY <3>1, JoinFacts
  <2> DEFINE m == Len(lab) - 1
  <2>7. /\ w2 \in Seq(A) /\ Len(w2) = n + m
        /\ (\A i \in 1..n : w2[i] = T[i])
        /\ \A i \in (n + 1)..(n + m) : w2[i] = Tail(w)[i - n]
    BY ONLY <2>2, <2>3, <2>4, <2>5, <2>6
  <2> HIDE DEF new, n
  <2>8. \A i \in 1..Len(new) : w2[i] = Entry(t, pos2, new[i])
    <3> TAKE i \in 1..Len(new)
    <3>1. CASE i \in 1..n
      BY <1>4, <2>4, <2>7, <3>1
    <3>2. CASE i \in (n + 1)..(n + (Len(lab) - 1))
      <4>1. i - n \in 1..(Len(lab) - 1) /\ i - n + 1 \in 2..Len(lab) /\ i - n + 1 \in 1..Len(lab)
        BY <1>3, <3>2
      <4>2. w2[i] = Tail(w)[i - n]
        BY <2>7, <3>2
      <4>3. Tail(w)[i - n] = w[i - n + 1]
        BY <2>2, <2>3, <4>1
      <4>4. w[i - n + 1] = Entry(t, pos, lab[i - n + 1])
        BY <2>2, <4>1
      <4> QED
        BY <1>4, <1>7, <3>2, <4>1, <4>2, <4>3, <4>4
    <3> QED
      BY <1>5, <3>1, <3>2
  <2>9. Len(w2) = Len(new) /\ Len(new) \in Nat /\ w2 = [i \in 1..Len(w2) |-> w2[i]]
    <3>1. w2 \in Seq(A) => w2 = [i \in 1..Len(w2) |-> w2[i]]
      BY SeqIs
    <3>2. Len(w2) = Len(new) /\ Len(new) \in Nat
      BY <1>3, <1>4, <2>7
    <3> QED
      BY <2>7, <3>1, <3>2
  <2> QED
    BY <2>8, <2>9
<1>9. ASSUME NEW i \in 1..Len(new), NEW j \in 1..Len(new), i < j, Last(new[i]) = Illegal, new[i] # <<>>,
             NEW m \in ToSet(t[Front(new[i])].children)
      PROVE  ~Under(LitKid(Front(new[i]), m), new[j])
  <2> HIDE DEF new, n
  <2>1. \A k \in 1..n : /\ kids[k] \in Seq(Token) /\ Front(kids[k]) = x /\ kids[k] # <<>>
                        /\ kids[k] = Append(x, Last(kids[k])) /\ x \in Seq(Token) /\ Len(kids[k]) = Len(x) + 1
                        /\ kids[k] \in Items(t) /\ x \in I
    <3> TAKE k \in 1..n
    <3>0. x \in I /\ kids[k] \in Kids(I, x)
      BY <1>0, <1>3 DEF n, I
    <3> QED
      BY ONLY <1>1, <3>0, KidFacts DEF I
  <2>2. CASE i \in 1..n /\ j \in 1..n
    <3>1. new[i] = kids[i] /\ new[j] = kids[j] /\ Front(new[i]) = x
      BY <1>4, <2>1, <2>2
    <3>2. Last(kids[j]) \notin Literals
      BY <1>0, <1>9, <2>2, <3>1 DEF n
    <3>3. kids[i] # Root /\ kids[i] \in Items(t)
      BY <2>1, <2>2 DEF Root
    <3>4. x \in DOMAIN t
      BY <2>1, <2>2, <3>3, EdgeFacts
    <3>5. Lit(m) \in Literals /\ Lit(m) \in Token
      BY <1>9, <3>1, <3>4, SegmentFacts, TokenKinds DEF ToSet
    <3>6. LitKid(x, m) \in Seq(Token) /\ Len(LitKid(x, m)) = Len(x) + 1 /\ Last(LitKid(x, m)) = Lit(m)
      BY <2>1, <2>2, <3>5, AppendOf DEF LitKid
    <3>7. Under(LitKid(x, m), kids[j]) => LitKid(x, m) = kids[j]
      BY <2>1, <2>2, <3>6, UnderFacts
    <3> QED
      BY <3>1, <3>2, <3>5, <3>6, <3>7
  <2>3. CASE i \in 1..n /\ j \in (n + 1)..(n + (Len(lab) - 1))
    <3>1. new[i] = kids[i] /\ Front(new[i]) = x /\ j - n + 1 \in 2..Len(lab) /\ new[j] = lab[j - n + 1]
      BY <1>4, <2>1, <2>3
    <3>3. kids[i] # Root /\ kids[i] \in Items(t) /\ Front(kids[i]) = x
      BY <2>1, <2>3 DEF Root
    <3>4. x \in DOMAIN t
      BY <3>3, EdgeFacts
    <3>5. Lit(m) \in Token
      BY <1>9, <3>1, <3>4, SegmentFacts, TokenKinds DEF ToSet
    <3>6. LitKid(x, m) \in Seq(Token) /\ LitKid(x, m) # <<>> /\ Front(LitKid(x, m)) = x /\ x \in Seq(Token)
      <4>1. x \in Seq(Token)
        BY <2>1, <2>3
      <4> QED
        BY ONLY <3>5, <4>1, AppendOf DEF LitKid
    <3>7. Under(x, LitKid(x, m))
      BY <3>6, UnderFront
    <3>8. lab[j - n + 1] \in Seq(Token) /\ ~Under(x, lab[j - n + 1])
      BY <1>6, <3>1
    <3> QED
      BY <3>1, <3>6, <3>7, <3>8, UnderFacts
  <2>4. CASE i \in (n + 1)..(n + (Len(lab) - 1)) /\ j \in (n + 1)..(n + (Len(lab) - 1))
    <3>1. /\ i - n + 1 \in 1..Len(lab) /\ j - n + 1 \in 1..Len(lab) /\ i - n + 1 < j - n + 1
      BY <1>3, <1>9, <2>4
    <3>2. new[i] = lab[i - n + 1] /\ new[j] = lab[j - n + 1]
      BY <1>4, <2>4
    <3> QED
      BY <1>1, <1>9, <3>1, <3>2
  <2>5. ~(i \in (n + 1)..(n + (Len(lab) - 1)) /\ j \in 1..n)
    BY <1>3, <1>9
  <2> QED
    BY <1>5, <2>2, <2>3, <2>4, <2>5
<1>10. Stacked(t, w2, new, pos2)
  <2>1. new \in Seq(Items(t))
    BY <1>2 DEF I
  <2> HIDE DEF new
  <2> QED
    BY <1>2, <1>8, <1>9, <2>1 DEF Stacked
<1> QED
  BY <1>2, <1>10 DEF I, new, Fewer

-----------------------------------------------------------------------------
(* A step of graph_compile on any item.                                    *)

(* One node of graph_compile: the next item is placed at the end, the      *)
(* edge to it written, and what is under it put on the stack.              *)
LEMMA PlaceStep ==
    ASSUME NEW t, TreeFit(t), NEW w, NEW g, g \in Seq(Nat), NEW rf, rf \in Seq(Nat),
           NEW C, NEW bs, bs \in Seq(C),
           NEW lab, NEW pos, pos \in Spots(t), Built(t, w, g, rf, bs, lab, pos), lab # <<>>,
           NEW x, x \in Real(t), x = lab[1], NEW block, Block(t, x, block), NEW g1, Linked1(t, x, pos, g, g1),
           NEW rf2, NEW bs2, Listed(t, x, Len(g), C, rf, bs, rf2, bs2), NEW kids, Heirs(t, x, kids),
           NEW pos2, pos2 = Moved(pos, x, Len(g)),
           NEW w2, w2 = Entries(t, pos2, kids) \o Tail(w)
    PROVE  /\ Built(t, w2, g1 \o block, rf2, bs2, kids \o Tail(lab), pos2)
           /\ pos2 \in Spots(t) /\ g1 \o block \in Seq(Nat) /\ rf2 \in Seq(Nat) /\ bs2 \in Seq(C)
<1> DEFINE P == Placed(t, lab)
           U == Unsorted(t, lab)
           new == kids \o Tail(lab)
           g2 == g1 \o block
           h == Len(g)
           k == Front(x)
           e == EdgeAt(t[k], Last(x))
<1>0. TreeFit(t) /\ lab # <<>> /\ x = lab[1] /\ x \in Real(t) /\ pos \in Spots(t) /\ pos \in [Real(t) -> Nat]
  BY DEF Spots
<1>1. /\ Stacked(t, w, lab, pos) /\ Allotted(t, g, P, pos) /\ Written(t, g, P, U, pos)
      /\ Terminals(t, rf, bs, P, pos)
  BY DEF Built
<1>2. lab \in Seq(Items(t)) /\ Apart(lab)
  BY <1>1 DEF Stacked
<1>3. /\ P \in SUBSET Real(t) /\ IsFiniteSet(P)
      /\ (\A y \in P : y # Root => Front(y) \in P /\ Front(y) \in DOMAIN t)
      /\ x \notin P /\ (x = Root => P = {}) /\ (x # Root => k \in P /\ k \in DOMAIN t)
  <2> HIDE DEF P
  <2>1. /\ P \in SUBSET Real(t) /\ IsFiniteSet(P)
        /\ (\A y \in P : y # Root => Front(y) \in P /\ Front(y) \in DOMAIN t)
        /\ lab # <<>> => /\ lab[1] \in Items(t) /\ lab[1] \notin P
                         /\ lab[1] = Root => P = {}
                         /\ lab[1] # Root => Front(lab[1]) \in P /\ Front(lab[1]) \in DOMAIN t
    BY <1>2, PlacedFacts DEF P
  <2> QED
    BY <2>1
<1>4. /\ Stacked(t, w2, new, pos2) /\ x \in Rest(Items(t), lab)
      /\ Rest(Items(t), new) = Rest(Items(t), lab) \ {x}
  <2>1. SameBut(pos, pos2, x)
    BY DEF SameBut, Moved
  <2> HIDE DEF new
  <2>2. /\ Stacked(t, w2, kids \o Tail(lab), pos2)
        /\ x \in Rest(Items(t), lab)
        /\ Rest(Items(t), kids \o Tail(lab)) = Rest(Items(t), lab) \ {x}
    <3>1. /\ TreeFit(t) /\ Stacked(t, w, lab, pos) /\ lab # <<>> /\ x = lab[1] /\ Heirs(t, x, kids)
          /\ SameBut(pos, pos2, x)
          /\ w2 = Entries(t, pos2, kids) \o Tail(w)
      BY <1>0, <1>1, <2>1
    <3>2. Stacked(t, w2, kids \o Tail(lab), pos2)
      BY ONLY <3>1, StackedGrown
    <3>3. Fewer(t, lab, kids \o Tail(lab), x)
      BY ONLY <3>1, StackedGrown
    <3> QED
      BY <3>2, <3>3 DEF Fewer
  <2> QED
    BY <2>2, Zenon DEF new
<1>5. Placed(t, new) = P \cup {x}
  <2> HIDE DEF new
  <2> QED
    BY <1>4 DEF Placed
<1>6. Unsorted(t, new) = U
  <2>1. \A q \in DOMAIN t : SortOf(q) # x
    <3> TAKE q \in DOMAIN t
    <3>1. Last(SortOf(q)) = Illegal /\ SortOf(q) # <<>>
      <4> HIDE DEF P, U, new, g2, h, k, e
      <4>1. q \in Seq(Token) /\ Illegal \in Token
        BY <1>0, SegmentFacts, TokenKinds
      <4>2. Last(Append(q, Illegal)) = Illegal /\ Append(q, Illegal) # <<>>
        BY ONLY <4>1, AppendOf
      <4> QED
        BY <4>2 DEF SortOf
    <3>2. x = Root \/ Last(x) # Illegal
      <4>1. x \in DOMAIN t => x = Root \/ Last(x) \in Step
        BY ItemFacts
      <4>2. x \in Leaves(t) => Last(x) \in {Trailing, Wildcard}
        BY ItemFacts
      <4> QED
        BY <4>1, <4>2, TokenKinds DEF Real
    <3> QED
      BY <3>1, <3>2 DEF Root
  <2> HIDE DEF new
  <2> QED
    BY <1>4, <2>1 DEF Unsorted
<1>7. /\ g2 \in Seq(Nat) /\ Len(g2) = h + SizeF(t)[x] /\ h \in Nat
      /\ (\A i \in 1..h : g2[i] = g1[i])
      /\ \A j \in 1..SizeF(t)[x] : g2[h + j] = block[j]
  <2>1. g1 \in Seq(Nat) /\ block \in Seq(Nat) /\ Len(g1) = h
    BY DEF Block, Linked1
  <2>2. /\ Len(g1) \in Nat /\ Len(block) \in Nat /\ g1 \o block \in Seq(Nat)
        /\ Len(g1 \o block) = Len(g1) + Len(block)
        /\ (\A i \in 1..Len(g1) : (g1 \o block)[i] = g1[i])
        /\ \A i \in (Len(g1) + 1)..(Len(g1) + Len(block)) : (g1 \o block)[i] = block[i - Len(g1)]
    BY ONLY <2>1, JoinFacts
  <2> HIDE DEF h
  <2>3. \A j \in 1..Len(block) : Len(g1) + j \in (Len(g1) + 1)..(Len(g1) + Len(block)) /\ (Len(g1) + j) - Len(g1) = j
    BY ONLY <2>2
  <2> HIDE DEF g2
  <2>4. g2 = g1 \o block /\ Len(block) = SizeF(t)[x]
    BY DEF g2, Block
  <2> QED
    BY ONLY <2>1, <2>2, <2>3, <2>4
<1> HIDE DEF P, U, new, g2, h, k, e
<1>8. /\ Allotted(t, g2, P \cup {x}, pos2) /\ pos2 \in Spots(t) /\ pos2[x] = h
      /\ \A y \in P : pos2[y] = pos[y] /\ pos[y] < h
  <2>1. Len(g) \in Nat /\ Len(g2) = Len(g) + SizeF(t)[x]
    BY <1>7 DEF h
  <2> QED
    <3>1. /\ TreeFit(t) /\ P \in SUBSET Real(t) /\ x \in Real(t) /\ x \notin P /\ (x = Root => P = {})
          /\ pos \in Spots(t) /\ Len(g) \in Nat /\ Allotted(t, g, P, pos)
          /\ pos2 = Moved(pos, x, Len(g)) /\ Longer(t, x, g, g2)
      BY <1>0, <1>1, <1>3, <2>1 DEF Longer
    <3>2. Allotted(t, g2, P \cup {x}, pos2) /\ pos2 \in Spots(t) /\ Settled(P, pos, pos2, Len(g))
      BY ONLY <3>1, AllottedGrown
    <3>3. pos2[x] = Len(g)
      BY <1>0 DEF Moved
    <3> QED
      BY <3>2, <3>3 DEF h, Settled
<1>9. Terminals(t, rf2, bs2, P \cup {x}, pos2) /\ rf2 \in Seq(Nat) /\ bs2 \in Seq(C)
  <2>1. /\ x \in Ends(t) => rf2 = Append(rf, h) /\ bs2 = Append(bs, ContextOf(t, x)) /\ ContextOf(t, x) \in C
        /\ x \notin Ends(t) => rf2 = rf /\ bs2 = bs
    BY DEF h, Listed
  <2> QED
    <3>1. /\ TreeFit(t) /\ P \in SUBSET Real(t) /\ x \in Real(t) /\ x \notin P
          /\ h \in Nat /\ pos2[x] = h /\ (\A y \in P : pos2[y] = pos[y] /\ pos[y] < h)
          /\ rf \in Seq(Nat) /\ bs \in Seq(C) /\ Terminals(t, rf, bs, P, pos)
      BY <1>0, <1>1, <1>3, <1>7, <1>8
    <3> QED
      BY ONLY <2>1, <3>1, TerminalsGrown
<1>10. x # Root => /\ k \in P /\ k \in DOMAIN t /\ e \in 0..(SizeF(t)[k] - 1) /\ pos[k] + e + 1 \in 1..h
                   /\ g2[pos2[k] + e + 1] = h
  <2> SUFFICES ASSUME x # Root
               PROVE  k \in P /\ k \in DOMAIN t /\ e \in 0..(SizeF(t)[k] - 1) /\ pos[k] + e + 1 \in 1..h
                                     /\ g2[pos2[k] + e + 1] = h
    OBVIOUS
  <2>1. k \in P /\ k \in DOMAIN t
    BY <1>3
  <2>2. e \in 1..(NodeLen(t[k]) - 1) /\ SizeF(t)[k] = NodeLen(t[k]) /\ NodeLen(t[k]) \in Nat
    BY <2>1, EdgeDistinct, SegShape DEF k, e
  <2>3. e \in 0..(SizeF(t)[k] - 1)
    BY <2>2
  <2>4. pos[k] + e + 1 \in 1..h
    <3>1. Allotted(t, g, P, pos) /\ Len(g) \in Nat /\ P \in SUBSET Real(t)
      BY <1>1, <1>3, <1>7 DEF h
    <3> QED
      BY <1>0, <2>1, <2>3, <3>1, Regions DEF h, Disjoint
  <2>5. g1[pos[k] + e + 1] = h
    BY DEF h, k, e, Linked1
  <2> QED
    BY <1>7, <1>8, <2>1, <2>3, <2>4, <2>5
<1>11. Written(t, g2, P, U, pos2)
  <2>1. \A y \in P : \A a \in 0..(SizeF(t)[y] - 1) :
               \/ g2[pos[y] + a + 1] = g[pos[y] + a + 1]
               \/ x # Root /\ y = Front(x) /\ a = EdgeAt(t[y], Last(x))
    <3> TAKE y \in P
    <3> TAKE a \in 0..(SizeF(t)[y] - 1)
    <3>0. Allotted(t, g, P, pos) /\ Len(g) \in Nat /\ P \in SUBSET Real(t)
      BY <1>1, <1>3, <1>7 DEF h
    <3>1. pos[y] + a + 1 \in 1..h
      BY <1>0, <3>0, Regions DEF h, Disjoint
    <3>2. \A z \in P : \A b \in 0..(SizeF(t)[z] - 1) : pos[y] + a + 1 = pos[z] + b + 1 => y = z /\ a = b
      <4>1. TreeFit(t) /\ P \in SUBSET Real(t) /\ pos \in Spots(t) /\ Allotted(t, g, P, pos) /\ Len(g) \in Nat
        BY <1>0, <3>0
      <4>2. Disjoint(t, g, P, pos)
        BY ONLY <4>1, Regions
      <4> QED
        BY <4>2 DEF Disjoint
    <3>3. g2[pos[y] + a + 1] = g1[pos[y] + a + 1]
      BY <1>7, <3>1
    <3>4. g1[pos[y] + a + 1] = g[pos[y] + a + 1] \/ (x # Root /\ pos[y] + a + 1 = pos[k] + e + 1)
      BY <3>1 DEF h, k, e, Linked1
    <3>5. (x # Root /\ pos[y] + a + 1 = pos[k] + e + 1) => y = k /\ a = e
      BY <1>10, <3>2
    <3> QED
      BY <3>3, <3>4, <3>5 DEF k, e
  <2>2. \A y \in P : pos2[y] = pos[y]
    BY <1>8
  <2> QED
    <3>1. /\ TreeFit(t) /\ P \in SUBSET Real(t)
          /\ (\A y \in P : y # Root => Front(y) \in P /\ Front(y) \in DOMAIN t)
          /\ pos \in [Real(t) -> Nat] /\ x \in Real(t) /\ x \notin P /\ Written(t, g, P, U, pos)
      BY <1>0, <1>1, <1>3
    <3> QED
      BY ONLY <2>1, <2>2, <3>1, WrittenKept
<1>12. x \in DOMAIN t => /\ g2[pos2[x] + 1] = NodeWord(t[x])
                         /\ t[x].spec = "SPEC_PARAM" => g2[pos2[x] + 2] = Resolve(ParNames(t), t[x].param)
                         /\ \A i \in 1..Len(t[x].children) :
                               SymAt(g2, pos2[x], t[x], i) = Resolve(LitNames(t), t[x].children[i])
                         /\ x \notin U => t[x].children = <<>>
  <2> SUFFICES ASSUME x \in DOMAIN t
               PROVE  /\ g2[pos2[x] + 1] = NodeWord(t[x])
                      /\ t[x].spec = "SPEC_PARAM" => g2[pos2[x] + 2] = Resolve(ParNames(t), t[x].param)
                      /\ \A i \in 1..Len(t[x].children) :
                            SymAt(g2, pos2[x], t[x], i) = Resolve(LitNames(t), t[x].children[i])
                      /\ x \notin U => t[x].children = <<>>
    OBVIOUS
  <2> DEFINE L == LiteralsAt(t[x])
             n == Len(t[x].children)
             S == SizeF(t)[x]
  <2>1. /\ L \in Nat /\ L >= 1 + SpecialLen(t[x]) /\ n \in Nat /\ S = L + 2 * n /\ S \in Nat
        /\ (t[x].spec = "SPEC_PARAM" => SpecialLen(t[x]) = 2) /\ SpecialLen(t[x]) \in {0, 1, 2}
    <3>1. TreeFit(t) /\ x \in DOMAIN t
      BY <1>0
    <3>2. /\ Len(t[x].children) \in Nat /\ SpecialLen(t[x]) \in {0, 1, 2} /\ LiteralsAt(t[x]) \in Nat
          /\ LiteralsAt(t[x]) >= 1 + SpecialLen(t[x])
          /\ (t[x].spec = "SPEC_PARAM" => SpecialLen(t[x]) = 2)
          /\ NodeLen(t[x]) = LiteralsAt(t[x]) + 2 * Len(t[x].children)
          /\ NodeLen(t[x]) \in Nat /\ SizeF(t)[x] = NodeLen(t[x])
      BY ONLY <3>1, SegShape
    <3> QED
      BY ONLY <3>2
  <2>2. /\ block[1] = NodeWord(t[x])
        /\ t[x].spec = "SPEC_PARAM" => block[2] = Resolve(ParNames(t), t[x].param)
        /\ \A i \in 1..n : block[L + 2 * i - 1] = Resolve(LitNames(t), t[x].children[i])
    BY DEF Block
  <2>3. \A j \in 1..S : g2[h + j] = block[j]
    BY <1>7
  <2> HIDE DEF L, n, S
  <2>4. 1 \in 1..S /\ (t[x].spec = "SPEC_PARAM" => 2 \in 1..S)
    <3>1. \A l, m, q \in Nat : \A z \in {0, 1, 2} : l >= 1 + z /\ q = l + 2 * m =>
             1 \in 1..q /\ (z = 2 => 2 \in 1..q)
      OBVIOUS
    <3> QED
      BY <2>1, <3>1
  <2>5. \A i \in 1..n : L + 2 * i - 1 \in 1..S /\ h + (L + 2 * i - 1) = h + L + 2 * i - 1
    BY <1>7, <2>1
  <2>6. \A i \in 1..n : g2[h + L + 2 * i - 1] = Resolve(LitNames(t), t[x].children[i])
    <3> TAKE i \in 1..n
    <3>1. g2[h + (L + 2 * i - 1)] = block[L + 2 * i - 1]
      BY <2>3, <2>5
    <3> QED
      BY <2>2, <2>5, <3>1
  <2>7. x \notin U => t[x].children = <<>>
    <3> SUFFICES ASSUME t[x].children # <<>> PROVE x \in U
      OBVIOUS
    <3>1. SortOf(x) \in Items(t)
      BY ItemFacts DEF Items
    <3>2. SortOf(x) \in Seq(Token) /\ SortOf(x) # <<>> /\ Front(SortOf(x)) = x /\ x \in Seq(Token)
      <4>1. x \in Seq(Token) /\ Illegal \in Token
        BY <1>0, SegmentFacts, TokenKinds
      <4>2. /\ Append(x, Illegal) \in Seq(Token) /\ Append(x, Illegal) # <<>>
            /\ Front(Append(x, Illegal)) = x
        BY ONLY <4>1, AppendOf
      <4> QED
        BY <4>1, <4>2 DEF SortOf
    <3>3. Under(x, SortOf(x))
      BY <3>2, UnderFront
    <3>4. 1 \in 1..Len(lab)
      BY <1>2, TailFacts
    <3> QED
      BY <3>1, <3>3, <3>4 DEF U, Unsorted, Rest
  <2> QED
    BY <1>8, <2>2, <2>3, <2>4, <2>6, <2>7 DEF SymAt, L, n
<1>13. Written(t, g2, P \cup {x}, U, pos2)
  <2>1. x # Root => g2[pos2[Front(x)] + EdgeAt(t[Front(x)], Last(x)) + 1] = pos2[x]
    BY <1>8, <1>10 DEF k, e
  <2> QED
    <3>1. TreeFit(t) /\ P \in SUBSET Real(t) /\ Written(t, g2, P, U, pos2)
      BY <1>0, <1>3, <1>11
    <3> QED
      BY ONLY <1>12, <2>1, <3>1, WrittenGrown
<1>14. Built(t, w2, g2, rf2, bs2, new, pos2)
  BY <1>4, <1>5, <1>6, <1>8, <1>9, <1>13, Zenon DEF Built
<1> QED
  BY <1>7, <1>8, <1>9, <1>14, Zenon DEF new, g2

-----------------------------------------------------------------------------
(* Symbols.                                                                *)

(* Numbers 0..n-1 given to n elements, no number twice: every one is given. *)
LEMMA Pigeons ==
    ASSUME NEW n \in Nat, NEW r \in [1..n -> 0..(n - 1)], \A i, j \in 1..n : r[i] = r[j] => i = j, NEW v \in 0..(n - 1)
    PROVE  \E i \in 1..n : r[i] = v
<1> DEFINE A == 1..n
           B == {r[i] : i \in A}
           V == 0..(n - 1)
<1>1. IsFiniteSet(A) /\ Cardinality(A) = n /\ IsFiniteSet(V) /\ Cardinality(V) = n
  <2>1. IsFiniteSet(A) /\ Cardinality(A) = IF 1 > n THEN 0 ELSE n - 1 + 1
    BY FS_Interval
  <2>2. IsFiniteSet(V) /\ Cardinality(V) = IF 0 > n - 1 THEN 0 ELSE (n - 1) - 0 + 1
    BY FS_Interval
  <2> HIDE DEF A, V
  <2> QED
    BY <2>1, <2>2
<1>2. r \in [A -> B] /\ (\A y \in B : \E a \in A : r[a] = y) /\ (\A a, b \in A : r[a] = r[b] => a = b) /\ B \subseteq V
  OBVIOUS
<1> HIDE DEF A, B, V
<1>3. IsFiniteSet(B) /\ Cardinality(B) = Cardinality(A)
  BY ONLY <1>1, <1>2, ImageSize
<1>4. V = B
  BY <1>1, <1>2, <1>3, FS_Subset
<1> QED
  BY <1>4 DEF A, B, V

(* A rank among n numbers.                                                 *)
Smaller(f, n, j) == {h \in 1..n : f[h] < f[j]}
Rank(f, n, j) == Cardinality(Smaller(f, n, j))

LEMMA RankFacts ==
    ASSUME NEW n \in Nat, NEW f, \A i \in 1..n : f[i] \in Nat, \A i, j \in 1..n : f[i] = f[j] => i = j
    PROVE  /\ \A j \in 1..n : Rank(f, n, j) \in 0..(n - 1)
           /\ \A i, j \in 1..n : f[i] < f[j] => Rank(f, n, i) < Rank(f, n, j)
           /\ \A v \in 0..(n - 1) : \E i \in 1..n : Rank(f, n, i) = v
<1> DEFINE A == 1..n
<1>1. IsFiniteSet(A) /\ Cardinality(A) = n
  <2>1. IsFiniteSet(A) /\ Cardinality(A) = IF 1 > n THEN 0 ELSE n - 1 + 1
    BY FS_Interval
  <2> HIDE DEF A
  <2> QED
    BY <2>1
<1>2. \A j \in A : IsFiniteSet(Smaller(f, n, j)) /\ Cardinality(Smaller(f, n, j)) \in Nat
  <2> TAKE j \in A
  <2>1. Smaller(f, n, j) \in SUBSET A
    BY DEF Smaller
  <2> HIDE DEF A
  <2> QED
    BY <1>1, <2>1, FS_Subset, FS_CardinalityType
<1>3. \A S, T \in SUBSET A : S \subseteq T /\ S # T => Cardinality(S) < Cardinality(T)
  <2> HIDE DEF A
  <2> TAKE S, T \in SUBSET A
  <2> HAVE S \subseteq T /\ S # T
  <2>1. IsFiniteSet(S) /\ IsFiniteSet(T) /\ S \in SUBSET T
    BY <1>1, FS_Subset
  <2>2. Cardinality(S) <= Cardinality(T) /\ Cardinality(S) # Cardinality(T)
    BY <2>1, FS_Subset
  <2>3. Cardinality(S) \in Nat /\ Cardinality(T) \in Nat
    BY <2>1, FS_CardinalityType
  <2> QED
    BY <2>2, <2>3
<1>4. \A j \in A : Rank(f, n, j) \in 0..(n - 1)
  <2> TAKE j \in A
  <2>1. Smaller(f, n, j) \in SUBSET A /\ Smaller(f, n, j) # A /\ A \in SUBSET A
    <3>1. j \notin Smaller(f, n, j)
      BY DEF Smaller
    <3> QED
      BY <3>1 DEF Smaller
  <2>2. Cardinality(Smaller(f, n, j)) < Cardinality(A)
    BY <1>3, <2>1
  <2> HIDE DEF A
  <2> QED
    BY <1>1, <1>2, <2>2 DEF Rank
<1>5. \A i, j \in A : f[i] < f[j] => Rank(f, n, i) < Rank(f, n, j)
  <2> TAKE i, j \in A
  <2> HAVE f[i] < f[j]
  <2>1. Smaller(f, n, i) \subseteq Smaller(f, n, j)
    <3>1. \A h \in A : f[h] \in Nat
      OBVIOUS
    <3> QED
      BY <3>1 DEF Smaller
  <2>2. i \in Smaller(f, n, j) /\ i \notin Smaller(f, n, i)
    BY DEF Smaller
  <2>3. Smaller(f, n, i) \in SUBSET A /\ Smaller(f, n, j) \in SUBSET A
    BY DEF Smaller
  <2> QED
    BY <1>3, <2>1, <2>2, <2>3 DEF Rank
<1>6. \A i, j \in A : Rank(f, n, i) = Rank(f, n, j) => i = j
  <2> TAKE i, j \in A
  <2>1. f[i] < f[j] \/ f[j] < f[i] \/ f[i] = f[j]
    OBVIOUS
  <2> QED
    BY <1>4, <1>5, <2>1
<1>7. \A v \in 0..(n - 1) : \E i \in A : Rank(f, n, i) = v
  <2> DEFINE r == [i \in 1..n |-> Rank(f, n, i)]
  <2>1. r \in [1..n -> 0..(n - 1)] /\ (\A i, j \in 1..n : r[i] = r[j] => i = j) /\ (\A i \in 1..n : r[i] = Rank(f, n, i))
    BY <1>4, <1>6
  <2> HIDE DEF r
  <2>2. \A v \in 0..(n - 1) : \E i \in 1..n : r[i] = v
    BY ONLY <2>1, n \in Nat, Pigeons
  <2> QED
    BY <2>1, <2>2
<1> QED
  BY <1>4, <1>5, <1>7

(* Symbols: the names of a finite set, numbered in their order from 1.     *)
LEMMA ResolveFacts ==
    ASSUME NEW N \in SUBSET Nat, IsFiniteSet(N)
    PROVE  /\ \A m : Resolve(N, m) \in Nat
           /\ \A m \in N : Resolve(N, m) > 0
           /\ \A m : m \notin N => Resolve(N, m) = 0
           /\ \A m, n \in N : m < n => Resolve(N, m) < Resolve(N, n)
           /\ \A m, n \in N : Resolve(N, m) = Resolve(N, n) => m = n
<1> DEFINE S(m) == {n \in N : n <= m}
<1>1. \A m : S(m) \in SUBSET N /\ IsFiniteSet(S(m)) /\ Cardinality(S(m)) \in Nat
  <2> TAKE m
  <2>1. S(m) \in SUBSET N
    OBVIOUS
  <2> HIDE DEF S
  <2> QED
    BY <2>1, FS_Subset, FS_CardinalityType
<1>2. \A m \in N : Resolve(N, m) = Cardinality(S(m))
  BY DEF Resolve
<1>3. \A m : m \notin N => Resolve(N, m) = 0
  BY DEF Resolve
<1>4. \A m \in N : m \in S(m)
  OBVIOUS
<1>5. \A m, n \in N : m < n => S(m) \subseteq S(n) /\ n \notin S(m)
  <2>1. \A a, b, c \in Nat : (a <= b /\ b < c => a <= c) /\ (b < c => ~(c <= b))
    OBVIOUS
  <2>2. \A a \in N : a \in Nat
    OBVIOUS
  <2> QED
    BY <2>1, <2>2
<1> HIDE DEF S
<1>6. \A m \in N : Resolve(N, m) > 0
  <2> TAKE m \in N
  <2>1. Cardinality(S(m)) # 0
    BY <1>1, <1>4, FS_EmptySet
  <2> QED
    BY <1>1, <1>2, <2>1
<1>7. \A m, n \in N : m < n => Resolve(N, m) < Resolve(N, n)
  <2> TAKE m, n \in N
  <2> HAVE m < n
  <2>1. S(m) \in SUBSET S(n) /\ S(m) # S(n)
    BY <1>4, <1>5
  <2>2. Cardinality(S(m)) <= Cardinality(S(n)) /\ Cardinality(S(m)) # Cardinality(S(n))
    BY <1>1, <2>1, FS_Subset
  <2> QED
    BY <1>1, <1>2, <2>2
<1>8. \A m : Resolve(N, m) \in Nat
  <2> TAKE m
  <2>1. Cardinality(S(m)) \in Nat
    BY <1>1
  <2>2. CASE m \in N
    <3>1. Resolve(N, m) = Cardinality(S(m))
      BY <1>2, <2>2
    <3> QED
      BY <2>1, <3>1
  <2>3. CASE m \notin N
    <3>1. Resolve(N, m) = 0
      BY <1>3, <2>3
    <3> QED
      BY <3>1
  <2> QED
    BY <2>2, <2>3
<1>9. \A m, n \in N : Resolve(N, m) = Resolve(N, n) => m = n
  <2> TAKE m, n \in N
  <2>1. m < n \/ n < m \/ m = n
    OBVIOUS
  <2> QED
    BY <1>7, <1>8, <2>1
<1> QED
  BY <1>3, <1>6, <1>7, <1>8, <1>9

(* The tables of the names of a tree.                                      *)
LEMMA NamesFinite ==
    ASSUME NEW t, TreeFit(t)
    PROVE  /\ LitNames(t) \in SUBSET Nat /\ IsFiniteSet(LitNames(t))
           /\ ParNames(t) \in SUBSET Nat /\ IsFiniteSet(ParNames(t))
           /\ \A k \in DOMAIN t : /\ \A i \in 1..Len(t[k].children) : t[k].children[i] \in LitNames(t)
                                  /\ t[k].spec = "SPEC_PARAM" => t[k].param \in ParNames(t)
<1>1. IsFiniteSet(DOMAIN t)
  BY DEF TreeFit
<1>2. LitNames(t) \in SUBSET Nat /\ \A k \in DOMAIN t : \A i \in 1..Len(t[k].children) : t[k].children[i] \in LitNames(t)
  <2>1. \A k \in DOMAIN t : t[k].children \in Seq(Names) /\ Names \subseteq Nat
    BY SegmentFacts, NamesAssumption
  <2>2. \A k \in DOMAIN t : ToSet(t[k].children) \subseteq Nat
                            /\ \A i \in 1..Len(t[k].children) : t[k].children[i] \in ToSet(t[k].children)
    BY <2>1 DEF ToSet
  <2> QED
    BY <2>2 DEF LitNames
<1>3. ParNames(t) \in SUBSET Nat /\ \A k \in DOMAIN t : t[k].spec = "SPEC_PARAM" => t[k].param \in ParNames(t)
  <2>1. \A k \in DOMAIN t : /\ t[k].param \in Names \cup {NoName} /\ Names \subseteq Nat
                            /\ t[k].param # NoName <=> t[k].spec = "SPEC_PARAM"
    BY SegmentFacts, NamesAssumption DEF Segment
  <2> QED
    BY <2>1 DEF ParNames, NoName
<1>4. IsFiniteSet(LitNames(t))
  <2> DEFINE F(D) == UNION {ToSet(t[k].children) : k \in D}
             G == {D \in SUBSET DOMAIN t : IsFiniteSet(F(D))}
  <2>1. {} \in G
    <3>1. F({}) = {}
      OBVIOUS
    <3> QED
      BY <3>1, FS_EmptySet
  <2>2. \A D \in SUBSET DOMAIN t : \A a \in DOMAIN t : (D \in G /\ a \notin D) => D \cup {a} \in G
    <3> TAKE D \in SUBSET DOMAIN t
    <3> TAKE a \in DOMAIN t
    <3> HAVE D \in G /\ a \notin D
    <3>1. F(D \cup {a}) = F(D) \cup ToSet(t[a].children)
      OBVIOUS
    <3>2. IsFiniteSet(ToSet(t[a].children))
      <4> DEFINE s == t[a].children
      <4>1. s \in Seq(Names) /\ Len(s) \in Nat
        BY SegmentFacts
      <4>2. IsFiniteSet(1..Len(s))
        BY <4>1, FS_Interval
      <4> HIDE DEF s
      <4>3. s \in Surjection(1..Len(s), ToSet(s))
        BY <4>1 DEF Surjection, ToSet
      <4> QED
        BY <4>2, <4>3, FS_Surjection DEF s
    <3>3. IsFiniteSet(F(D)) /\ D \cup {a} \in SUBSET DOMAIN t
      OBVIOUS
    <3> HIDE DEF F
    <3> QED
      BY <3>1, <3>2, <3>3, FS_Union
  <2>3. G \subseteq SUBSET DOMAIN t
    OBVIOUS
  <2>4. DOMAIN t \in G
    <3> HIDE DEF G
    <3> QED
      BY <1>1, <2>1, <2>2, <2>3, FiniteGrowth
  <2> QED
    BY <2>4 DEF LitNames
<1>5. IsFiniteSet(ParNames(t))
  <2> DEFINE R == {t[k].param : k \in DOMAIN t}
             f == [k \in DOMAIN t |-> t[k].param]
  <2>1. f \in Surjection(DOMAIN t, R)
    BY DEF Surjection
  <2> HIDE DEF f, R
  <2>2. IsFiniteSet(R)
    BY <1>1, <2>1, FS_Surjection
  <2>3. ParNames(t) \in SUBSET R
    BY DEF ParNames, R
  <2> QED
    BY <2>2, <2>3, FS_Subset
<1> QED
  BY <1>2, <1>3, <1>4, <1>5

-----------------------------------------------------------------------------
(* The words of a node.                                                    *)

(* The words of a node, part by part, as graph_compile appends them.       *)
SpecialWords(t, s) == CASE s.spec = "SPEC_PARAM"    -> <<Resolve(ParNames(t), s.param), 0>>
                        [] s.spec = "SPEC_WILDCARD" -> <<0>>
                        [] OTHER                    -> <<>>
TrailingWords(s) == IF s.trailing # NULL THEN <<0>> ELSE <<>>
EdgeWords(t, s) == [i \in 1..(2 * Len(s.children)) |->
                       IF i % 2 = 1 THEN Resolve(LitNames(t), s.children[(i + 1) \div 2]) ELSE 0]
NodeWords(t, k) == <<NodeWord(t[k])>> \o (SpecialWords(t, t[k]) \o (TrailingWords(t[k]) \o EdgeWords(t, t[k])))

LEMMA WordParts ==
    ASSUME NEW t, TreeFit(t), NEW k \in DOMAIN t
    PROVE  /\ NodeWord(t[k]) \in Nat
           /\ SpecialWords(t, t[k]) \in Seq(Nat) /\ Len(SpecialWords(t, t[k])) = SpecialLen(t[k])
           /\ t[k].spec = "SPEC_PARAM" => SpecialWords(t, t[k])[1] = Resolve(ParNames(t), t[k].param)
           /\ TrailingWords(t[k]) \in Seq(Nat) /\ LiteralsAt(t[k]) = 1 + SpecialLen(t[k]) + Len(TrailingWords(t[k]))
           /\ EdgeWords(t, t[k]) \in Seq(Nat) /\ Len(EdgeWords(t, t[k])) = 2 * Len(t[k].children)
           /\ \A i \in 1..Len(t[k].children) : /\ 2 * i - 1 \in 1..(2 * Len(t[k].children))
                                               /\ EdgeWords(t, t[k])[2 * i - 1] = Resolve(LitNames(t), t[k].children[i])
<1>1. /\ \A m : Resolve(LitNames(t), m) \in Nat
      /\ \A m : Resolve(ParNames(t), m) \in Nat
  BY NamesFinite, ResolveFacts
<1>2. Len(t[k].children) \in Nat /\ t[k].spec \in {"SPEC_NONE", "SPEC_PARAM", "SPEC_WILDCARD"}
  BY SegmentFacts
<1>3. NodeWord(t[k]) \in Nat
  <2>1. \A b : /\ Flag(FLAG_TERMINAL, b) \in Nat /\ Flag(FLAG_PARAM, b) \in Nat
               /\ Flag(FLAG_WILDCARD, b) \in Nat /\ Flag(FLAG_TRAILING, b) \in Nat
    BY DEF Flag, FLAG_TERMINAL, FLAG_PARAM, FLAG_WILDCARD, FLAG_TRAILING
  <2>2. \A a, b, c, d, e \in Nat : a + b + c + d + e \in Nat
    OBVIOUS
  <2> DEFINE a == Len(t[k].children)
             b == Flag(FLAG_TERMINAL, t[k].terminal # NULL)
             c == Flag(FLAG_PARAM,    t[k].spec = "SPEC_PARAM")
             d == Flag(FLAG_WILDCARD, t[k].spec = "SPEC_WILDCARD")
             e == Flag(FLAG_TRAILING, t[k].trailing # NULL)
  <2>3. a \in Nat /\ b \in Nat /\ c \in Nat /\ d \in Nat /\ e \in Nat /\ NodeWord(t[k]) = a + b + c + d + e
    BY <1>2, <2>1 DEF NodeWord
  <2> HIDE DEF a, b, c, d, e
  <2> QED
    BY <2>2, <2>3
<1>4. /\ SpecialWords(t, t[k]) \in Seq(Nat) /\ Len(SpecialWords(t, t[k])) = SpecialLen(t[k])
      /\ t[k].spec = "SPEC_PARAM" => SpecialWords(t, t[k])[1] = Resolve(ParNames(t), t[k].param)
  <2> DEFINE r == Resolve(ParNames(t), t[k].param)
  <2>1. r \in Nat
    BY <1>1
  <2> HIDE DEF r
  <2>2. CASE t[k].spec = "SPEC_PARAM"
    <3>1. SpecialWords(t, t[k]) = <<r, 0>>
      BY <2>2 DEF SpecialWords, r
    <3>2. SpecialLen(t[k]) = 2
      BY <2>2 DEF SpecialLen
    <3>3. <<r, 0>> \in Seq(Nat) /\ Len(<<r, 0>>) = 2 /\ <<r, 0>>[1] = r
      BY <2>1
    <3> QED
      BY <3>1, <3>2, <3>3 DEF r
  <2>3. CASE t[k].spec = "SPEC_WILDCARD"
    <3>1. SpecialWords(t, t[k]) = <<0>>
      BY <2>3, Zenon DEF SpecialWords
    <3>2. SpecialLen(t[k]) = 1
      BY <2>3 DEF SpecialLen
    <3> QED
      BY <2>3, <3>1, <3>2
  <2>4. CASE t[k].spec = "SPEC_NONE"
    <3>1. SpecialWords(t, t[k]) = <<>>
      BY <2>4, Zenon DEF SpecialWords
    <3>2. SpecialLen(t[k]) = 0
      BY <2>4 DEF SpecialLen
    <3> QED
      BY <2>4, <3>1, <3>2
  <2> QED
    BY <1>2, <2>2, <2>3, <2>4
<1>5. TrailingWords(t[k]) \in Seq(Nat) /\ LiteralsAt(t[k]) = 1 + SpecialLen(t[k]) + Len(TrailingWords(t[k]))
  <2>1. /\ SpecialLen(t[k]) \in Nat
        /\ t[k].trailing # NULL => LiteralsAt(t[k]) = 2 + SpecialLen(t[k])
        /\ t[k].trailing = NULL => LiteralsAt(t[k]) = 1 + SpecialLen(t[k])
    BY SegShape
  <2>2. CASE t[k].trailing = NULL
    <3>1. TrailingWords(t[k]) = <<>> /\ LiteralsAt(t[k]) = 1 + SpecialLen(t[k])
      BY <2>1, <2>2 DEF TrailingWords
    <3> QED
      BY <2>1, <3>1
  <2>3. CASE t[k].trailing # NULL
    <3>1. TrailingWords(t[k]) = <<0>> /\ LiteralsAt(t[k]) = 2 + SpecialLen(t[k])
      BY <2>1, <2>3 DEF TrailingWords
    <3> QED
      BY <2>1, <3>1
  <2> QED
    BY <2>2, <2>3
<1>6. /\ EdgeWords(t, t[k]) \in Seq(Nat) /\ Len(EdgeWords(t, t[k])) = 2 * Len(t[k].children)
      /\ \A i \in 1..Len(t[k].children) : /\ 2 * i - 1 \in 1..(2 * Len(t[k].children))
                                          /\ EdgeWords(t, t[k])[2 * i - 1] = Resolve(LitNames(t), t[k].children[i])
  <2> DEFINE n == Len(t[k].children)
             E(i) == IF i % 2 = 1 THEN Resolve(LitNames(t), t[k].children[(i + 1) \div 2]) ELSE 0
  <2>1. EdgeWords(t, t[k]) = [i \in 1..(2 * n) |-> E(i)]
    BY DEF EdgeWords
  <2>2. \A i : E(i) \in Nat
    BY <1>1
  <2>3. \A i \in 1..n : 2 * i - 1 \in 1..(2 * n) /\ (2 * i - 1) % 2 = 1 /\ (2 * i - 1 + 1) \div 2 = i
    <3> HIDE DEF n
    <3>1. \A m \in Nat : \A i \in 1..m : 2 * i - 1 \in 1..(2 * m) /\ (2 * i - 1) % 2 = 1 /\ (2 * i - 1 + 1) \div 2 = i
      OBVIOUS
    <3> QED
      BY <1>2, <3>1 DEF n
  <2>4. \A i \in 1..n : E(2 * i - 1) = Resolve(LitNames(t), t[k].children[i])
    BY <2>3
  <2>5. 2 * n \in Nat
    BY <1>2
  <2> HIDE DEF n, E
  <2>6. /\ EdgeWords(t, t[k]) \in Seq(Nat) /\ Len(EdgeWords(t, t[k])) = 2 * n
        /\ \A i \in 1..(2 * n) : EdgeWords(t, t[k])[i] = E(i)
    BY <2>1, <2>2, <2>5
  <2> QED
    BY <2>3, <2>4, <2>6 DEF n
<1> QED
  BY <1>3, <1>4, <1>5, <1>6

LEMMA NodeBlock ==
    ASSUME NEW t, TreeFit(t), NEW k \in DOMAIN t
    PROVE  Block(t, k, NodeWords(t, k))
<1> DEFINE w == NodeWord(t[k])
           A == SpecialWords(t, t[k])
           B == TrailingWords(t[k])
           C == EdgeWords(t, t[k])
           n == Len(t[k].children)
           L == LiteralsAt(t[k])
           BC == B \o C
           ABC == A \o BC
           W == <<w>>
           S == SpecialLen(t[k])
<1>1. /\ w \in Nat /\ A \in Seq(Nat) /\ Len(A) = S
      /\ t[k].spec = "SPEC_PARAM" => A[1] = Resolve(ParNames(t), t[k].param)
      /\ B \in Seq(Nat) /\ L = 1 + S + Len(B)
      /\ C \in Seq(Nat) /\ Len(C) = 2 * n
      /\ \A i \in 1..n : 2 * i - 1 \in 1..(2 * n) /\ C[2 * i - 1] = Resolve(LitNames(t), t[k].children[i])
  BY WordParts
<1>2. /\ n \in Nat /\ S \in {0, 1, 2} /\ (t[k].spec = "SPEC_PARAM" => S = 2)
      /\ SizeF(t)[k] = L + 2 * n /\ L \in Nat
  BY SegShape
<1>3. W \in Seq(Nat) /\ Len(W) = 1 /\ W[1] = w
  BY <1>1
<1>4. NodeWords(t, k) = W \o ABC
  BY DEF NodeWords
<1> HIDE DEF w, A, B, C, n, L, W, S
<1>5. /\ BC \in Seq(Nat) /\ Len(BC) = Len(B) + Len(C)
      /\ (\A i \in (Len(B) + 1)..(Len(B) + Len(C)) : BC[i] = C[i - Len(B)])
      /\ Len(B) \in Nat /\ Len(C) \in Nat
  BY <1>1, JoinFacts
<1> HIDE DEF BC
<1>6. /\ ABC \in Seq(Nat) /\ Len(ABC) = Len(A) + Len(BC)
      /\ (\A i \in 1..Len(A) : ABC[i] = A[i])
      /\ (\A i \in (Len(A) + 1)..(Len(A) + Len(BC)) : ABC[i] = BC[i - Len(A)])
      /\ Len(A) \in Nat /\ Len(BC) \in Nat
  <2>1. A \in Seq(Nat) /\ BC \in Seq(Nat) /\ ABC = A \o BC
    BY <1>1, <1>5
  <2> HIDE DEF ABC
  <2>2. /\ A \o BC \in Seq(Nat) /\ Len(A \o BC) = Len(A) + Len(BC)
        /\ (\A i \in 1..Len(A) : (A \o BC)[i] = A[i])
        /\ (\A i \in (Len(A) + 1)..(Len(A) + Len(BC)) : (A \o BC)[i] = BC[i - Len(A)])
        /\ Len(A) \in Nat /\ Len(BC) \in Nat
    BY ONLY <2>1, JoinFacts
  <2> QED
    BY ONLY <2>1, <2>2
<1> HIDE DEF ABC
<1>7. /\ W \o ABC \in Seq(Nat) /\ Len(W \o ABC) = 1 + Len(ABC)
      /\ (W \o ABC)[1] = w
      /\ \A i \in 2..(1 + Len(ABC)) : (W \o ABC)[i] = ABC[i - 1]
  <2>1. /\ W \o ABC \in Seq(Nat) /\ Len(W \o ABC) = Len(W) + Len(ABC)
        /\ (\A i \in 1..Len(W) : (W \o ABC)[i] = W[i])
        /\ (\A i \in (Len(W) + 1)..(Len(W) + Len(ABC)) : (W \o ABC)[i] = ABC[i - Len(W)])
    <3>1. W \in Seq(Nat) /\ ABC \in Seq(Nat)
      BY <1>3, <1>6
    <3> QED
      BY ONLY <3>1, JoinFacts
  <2> QED
    BY <1>3, <2>1
<1> DEFINE N == NodeWords(t, k)
<1> HIDE DEF N
<1>8. /\ N \in Seq(Nat) /\ Len(N) = 1 + Len(ABC) /\ N[1] = w
      /\ \A i \in 2..(1 + Len(ABC)) : N[i] = ABC[i - 1]
  BY <1>4, <1>7 DEF N
<1>9. Len(N) = SizeF(t)[k]
  BY <1>1, <1>2, <1>5, <1>6, <1>8
<1>10. t[k].spec = "SPEC_PARAM" => N[2] = Resolve(ParNames(t), t[k].param)
  <2> SUFFICES ASSUME t[k].spec = "SPEC_PARAM" PROVE N[2] = Resolve(ParNames(t), t[k].param)
    OBVIOUS
  <2>1. 2 \in 2..(1 + Len(ABC)) /\ 1 \in 1..Len(A) /\ 2 - 1 = 1
    BY <1>1, <1>2, <1>5, <1>6
  <2> QED
    BY <1>1, <1>6, <1>8, <2>1
<1>11. \A i \in 1..n : N[L + 2 * i - 1] = Resolve(LitNames(t), t[k].children[i])
  <2> TAKE i \in 1..n
  <2> DEFINE j == 2 * i - 1
  <2>1. j \in 1..Len(C) /\ C[j] = Resolve(LitNames(t), t[k].children[i])
    BY <1>1
  <2>2. L + 2 * i - 1 = 1 + Len(A) + Len(B) + j
    BY <1>1, <1>2, <1>5, <1>6
  <2> HIDE DEF j
  <2>3. Len(B) + j \in (Len(B) + 1)..(Len(B) + Len(C)) /\ (Len(B) + j) - Len(B) = j
    BY <1>5, <2>1
  <2>4. BC[Len(B) + j] = C[j]
    BY <1>5, <2>3
  <2> DEFINE b == Len(B) + j
  <2>5. b \in 1..Len(BC)
    BY <1>5, <2>1
  <2> HIDE DEF b
  <2>6. Len(A) + b \in (Len(A) + 1)..(Len(A) + Len(BC)) /\ (Len(A) + b) - Len(A) = b
    BY <1>6, <2>5
  <2>7. ABC[Len(A) + b] = BC[b]
    BY <1>6, <2>6
  <2> DEFINE c == Len(A) + b
  <2>8. c \in 1..Len(ABC) /\ c \in Nat
    BY <1>6, <2>5
  <2> HIDE DEF c
  <2>9. c + 1 \in 2..(1 + Len(ABC)) /\ (c + 1) - 1 = c
    BY <1>6, <2>8
  <2>10. N[c + 1] = ABC[c]
    BY <1>8, <2>9
  <2>11. L + 2 * i - 1 = c + 1
    BY <1>5, <1>6, <2>1, <2>2 DEF c, b
  <2> QED
    BY <2>1, <2>4, <2>7, <2>10, <2>11 DEF b, c
<1> QED
  BY <1>8, <1>9, <1>10, <1>11 DEF Block, N, w, n, L

-----------------------------------------------------------------------------
(* What the call for a node leaves to do.                                  *)

(* A list of exactly the items of S, no literal's after a sorting.         *)
Lists(N, a, S) ==
    /\ a \in Seq(N)
    /\ \A i \in 1..Len(a) : a[i] \in S
    /\ \A c \in S : \E i \in 1..Len(a) : a[i] = c
    /\ \A i, j \in 1..Len(a) : a[i] = a[j] => i = j
    /\ \A i, j \in 1..Len(a) : i < j /\ Last(a[i]) = Illegal => Last(a[j]) \notin Literals
One(x, b) == IF b THEN <<x>> ELSE <<>>
OneOf(x, b) == {y \in {x} : b}

LEMMA ListsJoin ==
    ASSUME NEW N, NEW a, NEW A, Lists(N, a, A), NEW b, NEW B, Lists(N, b, B), A \cap B = {},
           \A y \in B : Last(y) \notin Literals
    PROVE  Lists(N, a \o b, A \cup B)
<1> DEFINE m == Len(a)
           n == Len(b)
           c == a \o b
<1>1. a \in Seq(N) /\ b \in Seq(N)
  BY DEF Lists
<1>2. /\ m \in Nat /\ n \in Nat /\ c \in Seq(N) /\ Len(c) = m + n
      /\ (\A i \in 1..m : c[i] = a[i])
      /\ \A i \in (m + 1)..(m + n) : c[i] = b[i - m]
  BY ONLY <1>1, JoinFacts
<1>3. /\ (\A i \in 1..m : a[i] \in A) /\ (\A y \in A : \E i \in 1..m : a[i] = y)
      /\ (\A i, j \in 1..m : a[i] = a[j] => i = j)
      /\ \A i, j \in 1..m : i < j /\ Last(a[i]) = Illegal => Last(a[j]) \notin Literals
  BY DEF Lists
<1>4. /\ (\A i \in 1..n : b[i] \in B) /\ (\A y \in B : \E i \in 1..n : b[i] = y)
      /\ (\A i, j \in 1..n : b[i] = b[j] => i = j)
  BY DEF Lists
<1> HIDE DEF m, n, c
<1>5. \A i \in 1..(m + n) : \/ i \in 1..m /\ c[i] = a[i] /\ c[i] \in A
                            \/ i \in (m + 1)..(m + n) /\ i - m \in 1..n /\ c[i] = b[i - m] /\ c[i] \in B
  <2> TAKE i \in 1..(m + n)
  <2>1. CASE i \in 1..m
    BY <1>2, <1>3, <2>1
  <2>2. CASE i \notin 1..m
    <3>1. i \in (m + 1)..(m + n) /\ i - m \in 1..n
      BY <1>2, <2>2
    <3> QED
      BY <1>2, <1>4, <3>1
  <2> QED
    BY <2>1, <2>2
<1>6. \A y \in A \cup B : \E i \in 1..(m + n) : c[i] = y
  <2> TAKE y \in A \cup B
  <2>1. CASE y \in A
    <3>1. PICK i \in 1..m : a[i] = y
      BY <1>3, <2>1
    <3>2. i \in 1..(m + n) /\ c[i] = y
      BY <1>2, <3>1
    <3> QED
      BY <3>2
  <2>2. CASE y \in B
    <3>1. PICK i \in 1..n : b[i] = y
      BY <1>4, <2>2
    <3>2. m + i \in (m + 1)..(m + n) /\ (m + i) - m = i /\ m + i \in 1..(m + n)
      BY <1>2, <3>1
    <3>3. c[m + i] = y
      BY <1>2, <3>1, <3>2
    <3> QED
      BY <3>2, <3>3
  <2> QED
    BY <2>1, <2>2
<1>7. \A i, j \in 1..(m + n) : c[i] = c[j] => i = j
  <2> TAKE i, j \in 1..(m + n)
  <2> HAVE c[i] = c[j]
  <2>1. CASE i \in 1..m /\ j \in 1..m /\ c[i] = a[i] /\ c[j] = a[j]
    BY <1>3, <2>1
  <2>2. CASE i - m \in 1..n /\ j - m \in 1..n /\ c[i] = b[i - m] /\ c[j] = b[j - m]
    <3>1. i - m = j - m
      BY <1>4, <2>2
    <3> QED
      BY <1>2, <3>1
  <2> QED
    BY <1>5, <2>1, <2>2
<1>8. \A i, j \in 1..(m + n) : i < j /\ Last(c[i]) = Illegal => Last(c[j]) \notin Literals
  <2> TAKE i, j \in 1..(m + n)
  <2> HAVE i < j /\ Last(c[i]) = Illegal
  <2>1. CASE j \in 1..m /\ c[j] = a[j]
    <3>1. i \in 1..m
      BY <1>2, <2>1
    <3>2. c[i] = a[i]
      BY <1>2, <3>1
    <3> QED
      BY <1>3, <2>1, <3>1, <3>2
  <2>2. CASE c[j] \in B
    BY <2>2
  <2> QED
    BY <1>5, <2>1, <2>2
<1>9. c \in Seq(N) /\ Len(c) = m + n /\ \A i \in 1..(m + n) : c[i] \in A \cup B
  BY <1>2, <1>5
<1>10. Lists(N, c, A \cup B)
  BY <1>6, <1>7, <1>8, <1>9 DEF Lists
<1> QED
  BY <1>10 DEF c

LEMMA ListsOne ==
    ASSUME NEW N, NEW x, NEW b, b => x \in N
    PROVE  Lists(N, One(x, b), OneOf(x, b))
<1>1. CASE b
  <2>1. <<x>> \in Seq(N) /\ Len(<<x>>) = 1 /\ <<x>>[1] = x
    BY <1>1
  <2>2. One(x, b) = <<x>> /\ OneOf(x, b) = {x}
    BY <1>1 DEF One, OneOf
  <2>3. Lists(N, <<x>>, {x})
    BY <2>1 DEF Lists
  <2> QED
    BY <2>2, <2>3
<1>2. CASE ~b
  <2>1. One(x, b) = <<>> /\ OneOf(x, b) = {}
    BY <1>2 DEF One, OneOf
  <2>2. Lists(N, <<>>, {})
    BY DEF Lists
  <2> QED
    BY <2>1, <2>2
<1> QED
  BY <1>1, <1>2

(* The items right under a segment, in the order of their calls.           *)
LitKids(t, k) == [i \in 1..Len(t[k].children) |-> LitKid(k, t[k].children[i])]
NodeKids(t, k) ==
    LitKids(t, k) \o One(SortOf(k), t[k].children # <<>>)
    \o One(Append(k, Par(t[k].param)), t[k].spec = "SPEC_PARAM")
    \o One(Append(k, Wildcard), t[k].spec = "SPEC_WILDCARD")
    \o One(Append(k, Trailing), t[k].trailing # NULL)

LEMMA NodeHeirs ==
    ASSUME NEW t, TreeFit(t), NEW k \in DOMAIN t
    PROVE  Heirs(t, k, NodeKids(t, k)) /\ LitKids(t, k) \in Seq(Items(t))
<1> DEFINE N == Items(t)
           s == t[k]
           n == Len(s.children)
           A == {LitKid(k, s.children[i]) : i \in 1..n}
           B1 == OneOf(SortOf(k), s.children # <<>>)
           B2 == OneOf(Append(k, Par(s.param)), s.spec = "SPEC_PARAM")
           B3 == OneOf(Append(k, Wildcard), s.spec = "SPEC_WILDCARD")
           B4 == OneOf(Append(k, Trailing), s.trailing # NULL)
           a == LitKids(t, k)
           b1 == One(SortOf(k), s.children # <<>>)
           b2 == One(Append(k, Par(s.param)), s.spec = "SPEC_PARAM")
           b3 == One(Append(k, Wildcard), s.spec = "SPEC_WILDCARD")
           b4 == One(Append(k, Trailing), s.trailing # NULL)
<1>1. /\ n \in Nat /\ k \in Seq(Token) /\ k \in Items(t)
      /\ \A i \in 1..n : s.children[i] \in Names /\ LitKid(k, s.children[i]) \in DOMAIN t
      /\ \A i, j \in 1..n : s.children[i] = s.children[j] => i = j
      /\ s.spec = "SPEC_PARAM" => Append(k, Par(s.param)) \in DOMAIN t /\ s.param \in Names
      /\ s.wildcard # NULL <=> s.spec = "SPEC_WILDCARD"
      /\ s.children \in Seq(Names)
  BY SegmentFacts DEF Items, Real
<1>2. /\ \A i \in 1..n : Last(LitKid(k, s.children[i])) = Lit(s.children[i]) /\ Lit(s.children[i]) \in Literals
      /\ Last(SortOf(k)) = Illegal /\ Last(Append(k, Wildcard)) = Wildcard /\ Last(Append(k, Trailing)) = Trailing
      /\ s.spec = "SPEC_PARAM" => /\ Last(Append(k, Par(s.param))) = Par(s.param) /\ Par(s.param) \in Params
  <2>1. /\ \A i \in 1..n : Lit(s.children[i]) \in Literals /\ Lit(s.children[i]) \in Token
        /\ s.spec = "SPEC_PARAM" => Par(s.param) \in Params /\ Par(s.param) \in Token
        /\ Illegal \in Token /\ Wildcard \in Token /\ Trailing \in Token
    BY <1>1, TokenKinds
  <2>2. \A e \in Token : Last(Append(k, e)) = e
    BY ONLY <1>1, AppendOf
  <2> QED
    BY <1>1, <2>1, <2>2 DEF SortOf, LitKid
<1>3. /\ Illegal \notin Literals /\ Wildcard \notin Literals /\ Trailing \notin Literals
      /\ Illegal \notin Params /\ Wildcard \notin Params /\ Trailing \notin Params
      /\ Literals \cap Params = {} /\ Trailing # Wildcard /\ Trailing # Illegal /\ Wildcard # Illegal
  BY TokenKinds
<1>4. Lists(N, a, A)
  <2>1. a \in Seq(N) /\ Len(a) = n /\ \A i \in 1..n : a[i] = LitKid(k, s.children[i])
    BY <1>1 DEF LitKids, Items, Real
  <2>2. \A i, j \in 1..n : LitKid(k, s.children[i]) = LitKid(k, s.children[j]) => i = j
    <3> TAKE i, j \in 1..n
    <3> HAVE LitKid(k, s.children[i]) = LitKid(k, s.children[j])
    <3>1. Lit(s.children[i]) = Lit(s.children[j])
      BY <1>2
    <3> QED
      BY <1>1, <3>1, TokenKinds
  <2>3. \A i \in 1..n : Last(LitKid(k, s.children[i])) # Illegal
    BY <1>2, <1>3
  <2>4. \A y \in A : \E i \in 1..n : y = LitKid(k, s.children[i])
    OBVIOUS
  <2>5. \A i \in 1..n : LitKid(k, s.children[i]) \in A
    OBVIOUS
  <2> HIDE DEF a, A, n, N, s
  <2> QED
    BY <2>1, <2>2, <2>3, <2>4, <2>5 DEF Lists
<1>5. Lists(N, b1, B1) /\ Lists(N, b2, B2) /\ Lists(N, b3, B3) /\ Lists(N, b4, B4)
  <2>1. /\ s.children # <<>> => SortOf(k) \in N
        /\ s.spec = "SPEC_PARAM" => Append(k, Par(s.param)) \in N
        /\ s.spec = "SPEC_WILDCARD" => Append(k, Wildcard) \in N
        /\ s.trailing # NULL => Append(k, Trailing) \in N
    BY <1>1, ItemFacts DEF Items, Real
  <2> HIDE DEF N
  <2> QED
    BY <2>1, ListsOne
<1>6. /\ (\A y \in A : Last(y) \in Literals)
      /\ (\A y \in B1 : Last(y) = Illegal)
      /\ (\A y \in B2 : Last(y) \in Params)
      /\ (\A y \in B3 : Last(y) = Wildcard)
      /\ (\A y \in B4 : Last(y) = Trailing)
  BY <1>2 DEF OneOf
<1> HIDE DEF A, B1, B2, B3, B4, N, s, n, a, b1, b2, b3, b4
<1>7. Lists(N, a \o b1, A \cup B1)
  <2>1. A \cap B1 = {} /\ \A y \in B1 : Last(y) \notin Literals
    BY <1>3, <1>6
  <2> QED
    BY ONLY <1>4, <1>5, <2>1, ListsJoin
<1>8. Lists(N, a \o b1 \o b2, A \cup B1 \cup B2)
  <2>1. (A \cup B1) \cap B2 = {} /\ \A y \in B2 : Last(y) \notin Literals
    BY <1>3, <1>6
  <2> QED
    BY ONLY <1>5, <1>7, <2>1, ListsJoin
<1>9. Lists(N, a \o b1 \o b2 \o b3, A \cup B1 \cup B2 \cup B3)
  <2>1. (A \cup B1 \cup B2) \cap B3 = {} /\ \A y \in B3 : Last(y) \notin Literals
    BY <1>3, <1>6
  <2> QED
    BY ONLY <1>5, <1>8, <2>1, ListsJoin
<1>10. Lists(N, a \o b1 \o b2 \o b3 \o b4, A \cup B1 \cup B2 \cup B3 \cup B4)
  <2>1. (A \cup B1 \cup B2 \cup B3) \cap B4 = {} /\ \A y \in B4 : Last(y) \notin Literals
    BY <1>3, <1>6
  <2> QED
    BY ONLY <1>5, <1>9, <2>1, ListsJoin
<1>11. \A c : c \in A \cup B1 \cup B2 \cup B3 \cup B4 <=> c \in Kids(Items(t), k)
  <2> TAKE c
  <2>1. c \in Kids(Items(t), k) <=>
              \/ c \in Kids(DOMAIN t, k)
              \/ t[k].children # <<>> /\ c = SortOf(k)
              \/ t[k].wildcard # NULL /\ c = Append(k, Wildcard)
              \/ t[k].trailing # NULL /\ c = Append(k, Trailing)
    BY <1>1, KidsOfItem
  <2>2. c \in Kids(DOMAIN t, k) <=>
              \/ \E i \in 1..Len(t[k].children) : c = LitKid(k, t[k].children[i])
              \/ t[k].spec = "SPEC_PARAM" /\ c = Append(k, Par(t[k].param))
    BY KidsOfSegment
  <2>3. /\ c \in A <=> \E i \in 1..Len(t[k].children) : c = LitKid(k, t[k].children[i])
        /\ c \in B1 <=> t[k].children # <<>> /\ c = SortOf(k)
        /\ c \in B2 <=> t[k].spec = "SPEC_PARAM" /\ c = Append(k, Par(t[k].param))
        /\ c \in B3 <=> t[k].spec = "SPEC_WILDCARD" /\ c = Append(k, Wildcard)
        /\ c \in B4 <=> t[k].trailing # NULL /\ c = Append(k, Trailing)
    BY DEF A, B1, B2, B3, B4, OneOf, s, n
  <2>4. t[k].wildcard # NULL <=> t[k].spec = "SPEC_WILDCARD"
    BY <1>1 DEF s
  <2> QED
    BY <2>1, <2>2, <2>3, <2>4
<1> DEFINE kids == NodeKids(t, k)
           K == A \cup B1 \cup B2 \cup B3 \cup B4
<1>12. Lists(N, kids, K)
  BY <1>10 DEF NodeKids, a, b1, b2, b3, b4, s
<1> HIDE DEF kids, K
<1>13. \A c : c \in K <=> c \in Kids(Items(t), k)
  BY <1>11 DEF K
<1>14. Heirs(t, k, kids)
  BY <1>12, <1>13 DEF Lists, Heirs, N
<1> QED
  BY <1>4, <1>14 DEF kids, Lists, a, N

LEMMA EntriesJoin ==
    ASSUME NEW t, NEW pos, NEW N
    PROVE  \A a, b \in Seq(N) : Entries(t, pos, a \o b) = Entries(t, pos, a) \o Entries(t, pos, b)
<1> TAKE a, b \in Seq(N)
<1> DEFINE E == {Entry(t, pos, y) : y \in N}
           m == Len(a)
           n == Len(b)
           c == a \o b
           u == Entries(t, pos, a)
           v == Entries(t, pos, b)
           w == Entries(t, pos, c)
<1>1. /\ m \in Nat /\ n \in Nat /\ c \in Seq(N) /\ Len(c) = m + n
      /\ (\A i \in 1..m : c[i] = a[i])
      /\ \A i \in (m + 1)..(m + n) : c[i] = b[i - m]
  BY JoinFacts
<1>2. \A y \in N : Entry(t, pos, y) \in E
  OBVIOUS
<1> HIDE DEF E, c
<1>3. \A x \in Seq(N) : /\ Entries(t, pos, x) \in Seq(E) /\ Len(Entries(t, pos, x)) = Len(x)
                        /\ \A i \in 1..Len(x) : Entries(t, pos, x)[i] = Entry(t, pos, x[i])
  <2> TAKE x \in Seq(N)
  <2>1. Len(x) \in Nat /\ \A i \in 1..Len(x) : x[i] \in N
    OBVIOUS
  <2> QED
    BY <1>2, <2>1 DEF Entries
<1>4. /\ u \in Seq(E) /\ Len(u) = m /\ (\A i \in 1..m : u[i] = Entry(t, pos, a[i]))
      /\ v \in Seq(E) /\ Len(v) = n /\ (\A i \in 1..n : v[i] = Entry(t, pos, b[i]))
      /\ w \in Seq(E) /\ Len(w) = m + n /\ (\A i \in 1..(m + n) : w[i] = Entry(t, pos, c[i]))
  BY <1>1, <1>3
<1> HIDE DEF u, v, w, m, n
<1>5. /\ u \o v \in Seq(E) /\ Len(u \o v) = Len(u) + Len(v)
      /\ (\A i \in 1..Len(u) : (u \o v)[i] = u[i])
      /\ \A i \in (Len(u) + 1)..(Len(u) + Len(v)) : (u \o v)[i] = v[i - Len(u)]
  <2>1. u \in Seq(E) /\ v \in Seq(E)
    BY <1>4
  <2> QED
    BY ONLY <2>1, JoinFacts
<1> DEFINE z == u \o v
<1> HIDE DEF z
<1>6. /\ z \in Seq(E) /\ Len(z) = m + n /\ (\A i \in 1..m : z[i] = u[i])
      /\ \A i \in (m + 1)..(m + n) : z[i] = v[i - m]
  BY <1>4, <1>5 DEF z
<1>7. \A i \in 1..(m + n) : w[i] = z[i]
  <2> TAKE i \in 1..(m + n)
  <2>1. CASE i \in 1..m
    BY <1>1, <1>4, <1>6, <2>1
  <2>2. CASE i \notin 1..m
    <3>1. i \in (m + 1)..(m + n) /\ i - m \in 1..n
      BY <1>1, <2>2
    <3> QED
      BY <1>1, <1>4, <1>6, <3>1
  <2> QED
    BY <2>1, <2>2
<1>8. w = z
  BY <1>4, <1>6, <1>7
<1> QED
  BY <1>8 DEF u, v, w, z, c

LEMMA EntriesOne ==
    ASSUME NEW t, NEW pos, NEW x
    PROVE  Entries(t, pos, <<x>>) = <<Entry(t, pos, x)>> /\ Entries(t, pos, <<>>) = <<>>
<1>1. Len(<<x>>) = 1 /\ <<x>>[1] = x
  OBVIOUS
<1>2. Entries(t, pos, <<x>>) = [i \in 1..1 |-> Entry(t, pos, <<x>>[i])]
  BY <1>1 DEF Entries
<1>3. [i \in 1..1 |-> Entry(t, pos, <<x>>[i])] = <<Entry(t, pos, x)>>
  <2>1. \A i \in 1..1 : Entry(t, pos, <<x>>[i]) = Entry(t, pos, x)
    BY <1>1
  <2> QED
    BY <2>1
<1>4. Entries(t, pos, <<>>) = <<>>
  BY DEF Entries
<1> QED
  BY <1>2, <1>3, <1>4

(* What an entry of the stack is.                                          *)
EdgeTo(t, pos, x) == IF x = Root THEN 0 ELSE pos[Front(x)] + EdgeAt(t[Front(x)], Last(x))

LEMMA EntryIs ==
    ASSUME NEW t, TreeFit(t), NEW pos, NEW x \in Items(t)
    PROVE  /\ x \in DOMAIN t => Entry(t, pos, x) = Node(x, EdgeTo(t, pos, x))
           /\ x \in Leaves(t) => Entry(t, pos, x) = Leaf(ContextOf(t, x), EdgeTo(t, pos, x))
           /\ x \in SortItems(t) => Entry(t, pos, x) = Sort(EdgeTo(t, pos, x), Len(t[Front(x)].children))
           /\ x # Root => EdgeTo(t, pos, x) = pos[Front(x)] + EdgeAt(t[Front(x)], Last(x))
           /\ Root \notin Leaves(t) /\ Root \notin SortItems(t)
<1>1. DOMAIN t \cap Leaves(t) = {} /\ DOMAIN t \cap SortItems(t) = {} /\ Root \in DOMAIN t
  BY ItemsClosed, DomainClosed
<1>2. /\ x \in Leaves(t) => /\ x # <<>> /\ Last(x) \in {Trailing, Wildcard}
      /\ x \in SortItems(t) => /\ x # <<>> /\ Last(x) = Illegal
      /\ Trailing # Wildcard /\ Trailing # Illegal /\ Wildcard # Illegal
  BY ItemFacts, TokenKinds
<1>3. x \in DOMAIN t => Entry(t, pos, x) = Node(x, EdgeTo(t, pos, x))
  BY DEF Entry, EdgeTo
<1>4. x \in Leaves(t) => Entry(t, pos, x) = Leaf(ContextOf(t, x), EdgeTo(t, pos, x))
  <2> HAVE x \in Leaves(t)
  <2>1. x \notin DOMAIN t /\ x # Root
    BY <1>1
  <2> QED
    BY <1>2, <2>1 DEF Entry, EdgeTo, ContextOf
<1>5. x \in SortItems(t) => Entry(t, pos, x) = Sort(EdgeTo(t, pos, x), Len(t[Front(x)].children))
  <2> HAVE x \in SortItems(t)
  <2>1. x \notin DOMAIN t /\ x # Root
    BY <1>1
  <2> QED
    BY <1>2, <2>1 DEF Entry, EdgeTo
<1>6. Root \notin Leaves(t) /\ Root \notin SortItems(t)
  BY <1>1
<1> QED
  BY <1>3, <1>4, <1>5, <1>6 DEF EdgeTo

(* The entries that the call for a segment leaves on the stack.            *)
NodeEntries(t, k, h, first) ==
    [i \in 1..Len(t[k].children) |-> Node(LitKid(k, t[k].children[i]), first + 2 * i - 1)]
    \o (IF Len(t[k].children) > 0 THEN <<Sort(first, Len(t[k].children))>> ELSE <<>>)
    \o (IF t[k].spec = "SPEC_PARAM" THEN <<Node(Append(k, Par(t[k].param)), h + 2)>> ELSE <<>>)
    \o (IF t[k].spec = "SPEC_WILDCARD" THEN <<Leaf(t[k].wildcard, h + 1)>> ELSE <<>>)
    \o (IF t[k].trailing # NULL THEN <<Leaf(t[k].trailing, h + 1 + SpecialLen(t[k]))>> ELSE <<>>)

LEMMA NodeEntriesAre ==
    ASSUME NEW t, TreeFit(t), NEW k \in DOMAIN t, NEW pos, NEW h \in Nat, pos[k] = h
    PROVE  Entries(t, pos, NodeKids(t, k)) = NodeEntries(t, k, h, h + LiteralsAt(t[k]))
<1> DEFINE N == Items(t)
           s == t[k]
           n == Len(s.children)
           L == LiteralsAt(s)
           a == LitKids(t, k)
           x1 == SortOf(k)
           x2 == Append(k, Par(s.param))
           x3 == Append(k, Wildcard)
           x4 == Append(k, Trailing)
           b1 == One(x1, s.children # <<>>)
           b2 == One(x2, s.spec = "SPEC_PARAM")
           b3 == One(x3, s.spec = "SPEC_WILDCARD")
           b4 == One(x4, s.trailing # NULL)
<1>1. /\ n \in Nat /\ k \in Seq(Token) /\ k \in Items(t) /\ s.children \in Seq(Names)
      /\ \A i \in 1..n : s.children[i] \in Names /\ LitKid(k, s.children[i]) \in DOMAIN t
      /\ s.spec = "SPEC_PARAM" => x2 \in DOMAIN t /\ s.param \in Names
      /\ s.wildcard # NULL <=> s.spec = "SPEC_WILDCARD"
  BY SegmentFacts DEF Items, Real
<1>2. /\ s.children # <<>> => x1 \in SortItems(t)
      /\ s.spec = "SPEC_WILDCARD" => x3 \in Leaves(t)
      /\ s.trailing # NULL => x4 \in Leaves(t)
  BY <1>1, ItemFacts
<1>3. /\ \A i \in 1..n : /\ Last(LitKid(k, s.children[i])) = Lit(s.children[i]) /\ Lit(s.children[i]) \in Literals
                         /\ Front(LitKid(k, s.children[i])) = k /\ LitKid(k, s.children[i]) # Root
      /\ Last(x1) = Illegal /\ Last(x3) = Wildcard /\ Last(x4) = Trailing
      /\ Front(x1) = k /\ Front(x3) = k /\ Front(x4) = k /\ x1 # Root /\ x3 # Root /\ x4 # Root
      /\ s.spec = "SPEC_PARAM" => Last(x2) = Par(s.param) /\ Par(s.param) \in Params /\ Front(x2) = k /\ x2 # Root
  <2>1. /\ \A i \in 1..n : Lit(s.children[i]) \in Literals /\ Lit(s.children[i]) \in Token
        /\ s.spec = "SPEC_PARAM" => Par(s.param) \in Params /\ Par(s.param) \in Token
        /\ Illegal \in Token /\ Wildcard \in Token /\ Trailing \in Token
    BY <1>1, TokenKinds
  <2>2. \A e \in Token : Last(Append(k, e)) = e /\ Front(Append(k, e)) = k /\ Append(k, e) # <<>>
    BY ONLY <1>1, AppendOf
  <2> QED
    BY <1>1, <2>1, <2>2 DEF SortOf, LitKid, Root
<1>4. /\ Illegal \notin Literals /\ Wildcard \notin Literals /\ Trailing \notin Literals
      /\ Illegal \notin Params /\ Wildcard \notin Params /\ Trailing \notin Params
      /\ Literals \cap Params = {} /\ Trailing # Wildcard /\ Trailing # Illegal /\ Wildcard # Illegal
      /\ \A m \in Names : Lit(m).str = m
  BY TokenKinds
<1>5. /\ \A i \in 1..n : EdgeAt(s, Lit(s.children[i])) = L + 2 * i - 1
      /\ EdgeAt(s, Illegal) = L /\ EdgeAt(s, Wildcard) = 1 /\ EdgeAt(s, Trailing) = 1 + SpecialLen(s)
      /\ s.spec = "SPEC_PARAM" => EdgeAt(s, Par(s.param)) = 2
  <2>1. \A i \in 1..n : EdgeAt(s, Lit(s.children[i])) = L + 2 * i - 1
    <3> TAKE i \in 1..n
    <3> DEFINE tok == Lit(s.children[i])
    <3>1. tok \notin Params /\ tok # Wildcard /\ tok # Trailing /\ tok # Illegal /\ tok.str = s.children[i]
      BY <1>1, <1>3, <1>4
    <3> HIDE DEF tok
    <3>2. EdgeAt(s, tok) = LiteralsAt(s) + 2 * Index(s, tok.str) - 1
      BY <3>1 DEF EdgeAt
    <3>3. Index(s, s.children[i]) = i
      BY IndexIs
    <3> QED
      BY <3>1, <3>2, <3>3 DEF tok
  <2> QED
    BY <1>3, <1>4, <2>1 DEF EdgeAt
<1>6. /\ \A i \in 1..n : Entry(t, pos, LitKid(k, s.children[i])) = Node(LitKid(k, s.children[i]), (h + L) + 2 * i - 1)
      /\ s.children # <<>> => Entry(t, pos, x1) = Sort(h + L, n)
      /\ s.spec = "SPEC_PARAM" => Entry(t, pos, x2) = Node(x2, h + 2)
      /\ s.spec = "SPEC_WILDCARD" => Entry(t, pos, x3) = Leaf(s.wildcard, h + 1)
      /\ s.trailing # NULL => Entry(t, pos, x4) = Leaf(s.trailing, h + 1 + SpecialLen(s))
  <2>1. \A x \in DOMAIN t : x # Root => Entry(t, pos, x) = Node(x, pos[Front(x)] + EdgeAt(t[Front(x)], Last(x)))
    BY EntryIs DEF Items, Real
  <2>2. \A x \in Leaves(t) : x # Root =>
           Entry(t, pos, x) = Leaf(ContextOf(t, x), pos[Front(x)] + EdgeAt(t[Front(x)], Last(x)))
    BY EntryIs DEF Items, Real
  <2>3. \A x \in SortItems(t) : x # Root =>
           Entry(t, pos, x) = Sort(pos[Front(x)] + EdgeAt(t[Front(x)], Last(x)), Len(t[Front(x)].children))
    BY EntryIs DEF Items
  <2>4. DOMAIN t \cap Leaves(t) = {}
    BY ItemsClosed
  <2>5. L \in Nat /\ SpecialLen(s) \in Nat /\ \A i \in 1..n : h + (L + 2 * i - 1) = (h + L) + 2 * i - 1
    <3>1. L \in Nat /\ SpecialLen(s) \in Nat
      BY SegShape
    <3> HIDE DEF L
    <3> QED
      BY <1>1, <3>1
  <2>6. /\ s.spec = "SPEC_WILDCARD" => ContextOf(t, x3) = s.wildcard
        /\ s.trailing # NULL => ContextOf(t, x4) = s.trailing
    BY <1>2, <1>3, <1>4, <2>4 DEF ContextOf
  <2>7. \A i \in 1..n : Entry(t, pos, LitKid(k, s.children[i])) = Node(LitKid(k, s.children[i]), (h + L) + 2 * i - 1)
    <3> TAKE i \in 1..n
    <3> DEFINE x == LitKid(k, s.children[i])
    <3>1. x \in DOMAIN t /\ x # Root /\ Front(x) = k /\ Last(x) = Lit(s.children[i])
      BY <1>1, <1>3
    <3> HIDE DEF x
    <3>2. Entry(t, pos, x) = Node(x, h + (L + 2 * i - 1))
      BY <1>5, <2>1, <3>1
    <3> QED
      BY <2>5, <3>2 DEF x
  <2>8. s.children # <<>> => Entry(t, pos, x1) = Sort(h + L, n)
    BY <1>2, <1>3, <1>5, <2>3
  <2>9. s.spec = "SPEC_PARAM" => Entry(t, pos, x2) = Node(x2, h + 2)
    BY <1>1, <1>3, <1>5, <2>1
  <2>10. s.spec = "SPEC_WILDCARD" => Entry(t, pos, x3) = Leaf(s.wildcard, h + 1)
    BY <1>2, <1>3, <1>5, <2>2, <2>6
  <2>11. s.trailing # NULL => Entry(t, pos, x4) = Leaf(s.trailing, h + 1 + SpecialLen(s))
    <3>1. s.trailing # NULL => Entry(t, pos, x4) = Leaf(s.trailing, h + (1 + SpecialLen(s)))
      BY <1>2, <1>3, <1>5, <2>2, <2>6
    <3>2. h + (1 + SpecialLen(s)) = h + 1 + SpecialLen(s)
      BY <2>5
    <3> QED
      BY <3>1, <3>2
  <2> QED
    BY <2>7, <2>8, <2>9, <2>10, <2>11
<1>7. /\ Entries(t, pos, a) = [i \in 1..n |-> Node(LitKid(k, s.children[i]), (h + L) + 2 * i - 1)]
      /\ Entries(t, pos, b1) = IF n > 0 THEN <<Sort(h + L, n)>> ELSE <<>>
      /\ Entries(t, pos, b2) = IF s.spec = "SPEC_PARAM" THEN <<Node(x2, h + 2)>> ELSE <<>>
      /\ Entries(t, pos, b3) = IF s.spec = "SPEC_WILDCARD" THEN <<Leaf(s.wildcard, h + 1)>> ELSE <<>>
      /\ Entries(t, pos, b4) = IF s.trailing # NULL THEN <<Leaf(s.trailing, h + 1 + SpecialLen(s))>> ELSE <<>>
  <2>1. Entries(t, pos, a) = [i \in 1..n |-> Node(LitKid(k, s.children[i]), (h + L) + 2 * i - 1)]
    <3>1. Len(a) = n /\ \A i \in 1..n : a[i] = LitKid(k, s.children[i])
      BY <1>1 DEF LitKids
    <3> HIDE DEF a, n, L, s
    <3>2. \A i \in 1..n : Entry(t, pos, a[i]) = Node(LitKid(k, s.children[i]), (h + L) + 2 * i - 1)
      BY <1>6, <3>1
    <3> QED
      BY <3>1, <3>2 DEF Entries
  <2>2. n > 0 <=> s.children # <<>>
    BY <1>1
  <2>3. Entries(t, pos, b1) = IF n > 0 THEN <<Sort(h + L, n)>> ELSE <<>>
    <3>1. Entries(t, pos, b1) = IF s.children # <<>> THEN <<Entry(t, pos, x1)>> ELSE <<>>
      <4> HIDE DEF x1
      <4>1. Entries(t, pos, <<x1>>) = <<Entry(t, pos, x1)>> /\ Entries(t, pos, <<>>) = <<>>
        BY EntriesOne
      <4> QED
        BY <4>1 DEF One
    <3> HIDE DEF b1, x1, n, L
    <3> QED
      BY <1>6, <2>2, <3>1
  <2>4. Entries(t, pos, b2) = IF s.spec = "SPEC_PARAM" THEN <<Node(x2, h + 2)>> ELSE <<>>
    <3>1. Entries(t, pos, b2) = IF s.spec = "SPEC_PARAM" THEN <<Entry(t, pos, x2)>> ELSE <<>>
      <4> HIDE DEF x2
      <4>1. Entries(t, pos, <<x2>>) = <<Entry(t, pos, x2)>> /\ Entries(t, pos, <<>>) = <<>>
        BY EntriesOne
      <4> QED
        BY <4>1 DEF One
    <3> HIDE DEF b2, x2
    <3> QED
      BY <1>6, <3>1
  <2>5. Entries(t, pos, b3) = IF s.spec = "SPEC_WILDCARD" THEN <<Leaf(s.wildcard, h + 1)>> ELSE <<>>
    <3>1. Entries(t, pos, b3) = IF s.spec = "SPEC_WILDCARD" THEN <<Entry(t, pos, x3)>> ELSE <<>>
      <4> HIDE DEF x3
      <4>1. Entries(t, pos, <<x3>>) = <<Entry(t, pos, x3)>> /\ Entries(t, pos, <<>>) = <<>>
        BY EntriesOne
      <4> QED
        BY <4>1 DEF One
    <3> HIDE DEF b3, x3
    <3> QED
      BY <1>6, <3>1
  <2>6. Entries(t, pos, b4) = IF s.trailing # NULL THEN <<Leaf(s.trailing, h + 1 + SpecialLen(s))>> ELSE <<>>
    <3>1. Entries(t, pos, b4) = IF s.trailing # NULL THEN <<Entry(t, pos, x4)>> ELSE <<>>
      <4> HIDE DEF x4
      <4>1. Entries(t, pos, <<x4>>) = <<Entry(t, pos, x4)>> /\ Entries(t, pos, <<>>) = <<>>
        BY EntriesOne
      <4> QED
        BY <4>1 DEF One
    <3> HIDE DEF b4, x4
    <3> QED
      BY <1>6, <3>1
  <2> QED
    BY <2>1, <2>3, <2>4, <2>5, <2>6
<1>8. a \in Seq(N) /\ b1 \in Seq(N) /\ b2 \in Seq(N) /\ b3 \in Seq(N) /\ b4 \in Seq(N)
  <2>1. a \in Seq(N)
    BY NodeHeirs
  <2>2. /\ s.children # <<>> => x1 \in N
        /\ s.spec = "SPEC_PARAM" => x2 \in N
        /\ s.spec = "SPEC_WILDCARD" => x3 \in N
        /\ s.trailing # NULL => x4 \in N
    BY <1>1, <1>2 DEF Items, Real
  <2> HIDE DEF N, x1, x2, x3, x4
  <2>3. \A x : \A b \in BOOLEAN : (b => x \in N) => One(x, b) \in Seq(N)
    BY DEF One
  <2> QED
    BY <2>1, <2>2, <2>3
<1> HIDE DEF N, a, b1, b2, b3, b4
<1>9. /\ a \o b1 \in Seq(N) /\ a \o b1 \o b2 \in Seq(N) /\ a \o b1 \o b2 \o b3 \in Seq(N)
  <2>1. \A u, v \in Seq(N) : u \o v \in Seq(N)
    OBVIOUS
  <2> QED
    BY ONLY <1>8, <2>1
<1>10. Entries(t, pos, a \o b1 \o b2 \o b3 \o b4)
        = Entries(t, pos, a) \o Entries(t, pos, b1) \o Entries(t, pos, b2) \o Entries(t, pos, b3) \o Entries(t, pos, b4)
  <2>0. \A u, v \in Seq(N) : Entries(t, pos, u \o v) = Entries(t, pos, u) \o Entries(t, pos, v)
    BY EntriesJoin
  <2>1. Entries(t, pos, a \o b1) = Entries(t, pos, a) \o Entries(t, pos, b1)
    BY ONLY <1>8, <2>0
  <2>2. Entries(t, pos, a \o b1 \o b2) = Entries(t, pos, a \o b1) \o Entries(t, pos, b2)
    BY ONLY <1>8, <1>9, <2>0
  <2>3. Entries(t, pos, a \o b1 \o b2 \o b3) = Entries(t, pos, a \o b1 \o b2) \o Entries(t, pos, b3)
    BY ONLY <1>8, <1>9, <2>0
  <2>4. Entries(t, pos, a \o b1 \o b2 \o b3 \o b4) = Entries(t, pos, a \o b1 \o b2 \o b3) \o Entries(t, pos, b4)
    BY ONLY <1>8, <1>9, <2>0
  <2> QED
    BY ONLY <2>1, <2>2, <2>3, <2>4
<1>11. NodeKids(t, k) = a \o b1 \o b2 \o b3 \o b4
  BY Zenon DEF NodeKids, a, b1, b2, b3, b4
<1> QED
  BY ONLY <1>7, <1>10, <1>11 DEF NodeEntries, s, n, L, x2

-----------------------------------------------------------------------------
(* The two steps that append words.                                        *)

Holders == Contexts \cup {NULL}

(* No offset is too large for its cast: the range check comes first.       *)
LEMMA NarrowIs ==
    ASSUME NEW h \in Nat, h <= MaxSize
    PROVE  Narrow(h) = h
<1>1. MaxSize \in Nat
  BY GraphAssumption
<1>2. \A m \in Nat : \A n \in Nat : n <= m => n % (m + 1) = n
  OBVIOUS
<1> QED
  BY <1>1, <1>2 DEF Narrow

(* No more words than the range check allowed.                             *)
LEMMA LengthFits ==
    ASSUME NEW t, TreeFit(t), SumFunctionOnSet(SizeF(t), Real(t)) <= MaxSize,
           NEW g, NEW P, P \subseteq Real(t), NEW pos, Allotted(t, g, P, pos)
    PROVE  Len(g) \in Nat /\ Len(g) <= MaxSize /\ Len(g) <= SumFunctionOnSet(SizeF(t), Real(t))
<1> DEFINE S == SizeF(t)
           R == Real(t)
<1>1. IsFiniteSet(R) /\ S \in [R -> Nat] /\ P \in SUBSET R
  BY Counts, SegWType
<1>2. Len(g) = SumFunctionOnSet(S, P)
  BY DEF Allotted
<1> HIDE DEF S, R
<1>3. /\ SumFunctionOnSet(S, P) \in Nat /\ SumFunctionOnSet(S, R) \in Nat
      /\ SumFunctionOnSet(S, P) <= SumFunctionOnSet(S, R)
  BY ONLY <1>1, SumPart
<1>4. MaxSize \in Nat /\ SumFunctionOnSet(S, R) <= MaxSize
  BY GraphAssumption DEF S, R
<1> QED
  BY <1>2, <1>3, <1>4 DEF S, R

(* Storing the edge that the next item is reached by.                      *)
Link(g, e) == IF e = 0 THEN g ELSE [g EXCEPT ![e + 1] = Narrow(Len(g))]

LEMMA LinkIs ==
    ASSUME NEW t, TreeFit(t), NEW g, g \in Seq(Nat), Len(g) <= MaxSize, NEW P, P \subseteq Real(t),
           NEW pos, pos \in Spots(t), Allotted(t, g, P, pos), NEW x, x \in Real(t), x # Root => Front(x) \in P
    PROVE  Linked1(t, x, pos, g, Link(g, EdgeTo(t, pos, x)))
<1> DEFINE h == Len(g)
           k == Front(x)
           e == EdgeAt(t[k], Last(x))
<1>1. h \in Nat /\ Narrow(h) = h
  BY NarrowIs
<1>2. CASE x = Root
  <2>1. Link(g, EdgeTo(t, pos, x)) = g
    BY <1>2 DEF Link, EdgeTo
  <2> QED
    BY <1>2, <2>1 DEF Linked1
<1>3. CASE x # Root
  <2>1. k \in P /\ k \in DOMAIN t /\ e \in 1..(NodeLen(t[k]) - 1)
    BY <1>3, EdgeDistinct
  <2>2. SizeF(t)[k] = NodeLen(t[k]) /\ NodeLen(t[k]) \in Nat
    BY <2>1, SegShape
  <2>3. e \in 0..(SizeF(t)[k] - 1) /\ e >= 1 /\ e \in Nat
    BY <2>1, <2>2
  <2>4. Disjoint(t, g, P, pos)
    BY ONLY TreeFit(t), P \subseteq Real(t), pos \in Spots(t), Allotted(t, g, P, pos), <1>1, Regions DEF h
  <2>5. pos[k] + e + 1 \in 1..h /\ pos[k] \in Nat
    BY <2>1, <2>3, <2>4 DEF Disjoint
  <2>6. EdgeTo(t, pos, x) = pos[k] + e
    BY <1>3 DEF EdgeTo
  <2> DEFINE a == pos[k] + e
  <2> HIDE DEF e, h
  <2>7. a \in Nat /\ a # 0 /\ a + 1 \in 1..h
    BY <2>3, <2>5
  <2> HIDE DEF a
  <2>8. Link(g, a) = [g EXCEPT ![a + 1] = h]
    BY <1>1, <2>7 DEF Link, h
  <2> DEFINE g1 == [g EXCEPT ![a + 1] = h]
  <2>9. g1 \in Seq(Nat) /\ Len(g1) = Len(g) /\ g1[a + 1] = h /\ \A i \in 1..Len(g) : i # a + 1 => g1[i] = g[i]
    BY <1>1, <2>7 DEF h
  <2> HIDE DEF g1
  <2>10. Link(g, EdgeTo(t, pos, x)) = g1
    BY <2>6, <2>8 DEF a, g1
  <2>11. a + 1 = pos[Front(x)] + EdgeAt(t[Front(x)], Last(x)) + 1
    BY DEF a, e
  <2>12. Linked1(t, x, pos, g, g1)
    BY <1>3, <2>9, <2>11 DEF Linked1, h
  <2> QED
    BY <2>10, <2>12
<1> QED
  BY <1>2, <1>3

(* The stack and its names.                                                *)
LEMMA StackTop ==
    ASSUME NEW t, TreeFit(t), NEW w, NEW lab, NEW pos, Stacked(t, w, lab, pos)
    PROVE  /\ Len(w) = Len(lab) /\ (w = <<>> <=> lab = <<>>)
           /\ w # <<>> => Head(w) = Entry(t, pos, lab[1]) /\ lab[1] \in Items(t) /\ Head(w) = w[1]
<1>1. lab \in Seq(Items(t)) /\ w = [i \in 1..Len(lab) |-> Entry(t, pos, lab[i])]
  BY DEF Stacked
<1> DEFINE I == Items(t)
           E == {Entry(t, pos, y) : y \in I}
<1>2. \A y \in I : Entry(t, pos, y) \in E
  OBVIOUS
<1> HIDE DEF I, E
<1>3. lab \in Seq(I)
  BY <1>1 DEF I
<1>4. Len(lab) \in Nat /\ \A i \in 1..Len(lab) : lab[i] \in I
  BY <1>3
<1>5. w \in Seq(E) /\ Len(w) = Len(lab) /\ \A i \in 1..Len(lab) : w[i] = Entry(t, pos, lab[i])
  BY <1>1, <1>2, <1>4
<1>6. w = <<>> <=> lab = <<>>
  BY <1>3, <1>5
<1>7. w # <<>> => Head(w) = w[1] /\ 1 \in 1..Len(lab)
  BY <1>5
<1> QED
  BY <1>4, <1>5, <1>6, <1>7 DEF I

(* graph_compile half way: all that is placed is well placed.              *)
Compiled(t, w, g, rf, bs, lab, pos) ==
    /\ pos \in Spots(t) /\ g \in Seq(Nat) /\ rf \in Seq(Nat) /\ bs \in Seq(Holders)
    /\ Built(t, w, g, rf, bs, lab, pos)

InOrder(a, b, c) == (a \o b) \o c = a \o (b \o c)
Flat5(a, b, c, d, e) == a \o b \o c \o d \o e = a \o (b \o (c \o (d \o e)))

LEMMA Joining ==
    ASSUME NEW T, NEW a, a \in Seq(T), NEW b, b \in Seq(T), NEW c, c \in Seq(T)
    PROVE  InOrder(a, b, c)
<1>1. (a \o b) \o c = a \o (b \o c)
  BY ConcatAssociative
<1> QED
  BY <1>1 DEF InOrder

LEMMA FiveJoined ==
    ASSUME NEW T, NEW a, a \in Seq(T), NEW b, b \in Seq(T), NEW c, c \in Seq(T), NEW d, d \in Seq(T),
           NEW e, e \in Seq(T)
    PROVE  Flat5(a, b, c, d, e)
<1> DEFINE u == a \o b
           v == u \o c
           p == d \o e
           q == c \o p
<1>1. u \in Seq(T) /\ p \in Seq(T)
  BY ConcatProperties
<1> HIDE DEF u, p
<1>2. v \in Seq(T) /\ q \in Seq(T)
  BY <1>1, ConcatProperties
<1>3. InOrder(u, c, p)
  BY <1>1, Joining
<1> HIDE DEF v, q
<1>4. InOrder(a, b, q)
  BY <1>2, Joining
<1>5. InOrder(v, d, e)
  BY <1>2, Joining
<1>6. v \o p = u \o q
  BY ONLY <1>3 DEF InOrder, v, q
<1>7. u \o q = a \o (b \o q)
  BY ONLY <1>4 DEF InOrder, u
<1>8. (v \o d) \o e = v \o p
  BY ONLY <1>5 DEF InOrder, p
<1>9. (v \o d) \o e = a \o (b \o q)
  BY ONLY <1>6, <1>7, <1>8
<1> QED
  BY ONLY <1>9 DEF u, v, p, q, Flat5

LEMMA PlaceIt ==
    ASSUME NEW t, TreeFit(t), NEW w, NEW g, g \in Seq(Nat), NEW rf, rf \in Seq(Nat), NEW bs, bs \in Seq(Holders),
           NEW lab, NEW pos, pos \in Spots(t), Built(t, w, g, rf, bs, lab, pos), lab # <<>>,
           NEW x, x \in Real(t), x = lab[1], NEW block, Block(t, x, block), NEW g1, Linked1(t, x, pos, g, g1),
           NEW rf2, NEW bs2, Listed(t, x, Len(g), Holders, rf, bs, rf2, bs2), NEW kids, Heirs(t, x, kids),
           NEW pos2, pos2 = Moved(pos, x, Len(g)), NEW lab2, lab2 = kids \o Tail(lab),
           NEW w2, w2 = Entries(t, pos2, kids) \o Tail(w), NEW g2, g2 = g1 \o block
    PROVE  Compiled(t, w2, g2, rf2, bs2, lab2, pos2)
<1>1. Built(t, w2, g1 \o block, rf2, bs2, kids \o Tail(lab), pos2)
  BY PlaceStep
<1>2. pos2 \in Spots(t)
  BY PlaceStep
<1>3. g1 \o block \in Seq(Nat)
  <2>1. g1 \in Seq(Nat) /\ block \in Seq(Nat)
    BY DEF Linked1, Block
  <2> QED
    BY <2>1
<1>4. rf2 \in Seq(Nat) /\ bs2 \in Seq(Holders)
  BY PlaceStep
<1> QED
  BY ONLY <1>1, <1>2, <1>3, <1>4, lab2 = kids \o Tail(lab), g2 = g1 \o block DEF Compiled

(* What CompileNode does, of constants.                                    *)
NodeEffect(t, w, g, rf, bs, w2, g2, rf2, bs2) ==
    LET k == Head(w).seg
        s == t[k]
        first == Len(g) + 1 + Len(SpecialWords(t, s)) + Len(TrailingWords(s))
    IN  /\ w # <<>> /\ Head(w).do = "node"
        /\ g2 = Link(g, Head(w).edge) \o <<NodeWord(s)>> \o SpecialWords(t, s) \o TrailingWords(s) \o EdgeWords(t, s)
        /\ s.terminal # NULL => rf2 = Append(rf, Narrow(Len(g))) /\ bs2 = Append(bs, s.terminal)
        /\ s.terminal = NULL => rf2 = rf /\ bs2 = bs
        /\ w2 = [i \in 1..Len(s.children) |-> Node(LitKid(k, s.children[i]), first + 2 * i - 1)]
                \o (IF Len(s.children) > 0 THEN <<Sort(first, Len(s.children))>> ELSE <<>>)
                \o (IF s.spec = "SPEC_PARAM" THEN <<Node(Append(k, Par(s.param)), Len(g) + 2)>> ELSE <<>>)
                \o (IF s.spec = "SPEC_WILDCARD" THEN <<Leaf(s.wildcard, Len(g) + 1)>> ELSE <<>>)
                \o (IF s.trailing # NULL THEN <<Leaf(s.trailing, Len(g) + 1 + Len(SpecialWords(t, s)))>> ELSE <<>>)
                \o Tail(w)

(* The call for a segment.                                                 *)
LEMMA NodePlaced ==
    ASSUME NEW t, TreeFit(t), SumFunctionOnSet(SizeF(t), Real(t)) <= MaxSize,
           NEW w, NEW g, NEW rf, NEW bs, NEW lab, NEW pos, Compiled(t, w, g, rf, bs, lab, pos),
           NEW w2, NEW g2, NEW rf2, NEW bs2, NodeEffect(t, w, g, rf, bs, w2, g2, rf2, bs2)
    PROVE  \E lab2, pos2 : Compiled(t, w2, g2, rf2, bs2, lab2, pos2)
<1> DEFINE x == lab[1]
           h == Len(g)
           s == t[x]
           P == Placed(t, lab)
           pos2 == Moved(pos, x, h)
           kids == NodeKids(t, x)
           block == NodeWords(t, x)
           g1 == Link(g, EdgeTo(t, pos, x))
<1>1. /\ pos \in Spots(t) /\ g \in Seq(Nat) /\ rf \in Seq(Nat) /\ bs \in Seq(Holders)
      /\ Built(t, w, g, rf, bs, lab, pos) /\ Stacked(t, w, lab, pos) /\ Allotted(t, g, P, pos)
  BY DEF Compiled, Built
<1>2. w # <<>> /\ Head(w).do = "node"
  BY DEF NodeEffect
<1>3. lab # <<>> /\ Head(w) = Entry(t, pos, x) /\ x \in Items(t) /\ lab \in Seq(Items(t)) /\ Apart(lab)
  BY <1>1, <1>2, StackTop DEF Stacked
<1>4. x \in DOMAIN t /\ x \in Real(t) /\ Head(w).seg = x /\ Head(w).edge = EdgeTo(t, pos, x)
  <2>1. x \notin Leaves(t) /\ x \notin SortItems(t)
    BY <1>2, <1>3, EntryIs DEF Leaf, Sort
  <2>2. x \in DOMAIN t
    BY <1>3, <2>1 DEF Items, Real
  <2>3. Entry(t, pos, x) = Node(x, EdgeTo(t, pos, x))
    BY <1>3, <2>2, EntryIs
  <2> QED
    BY <1>3, <2>2, <2>3 DEF Node, Real
<1>5. P \subseteq Real(t) /\ (x # Root => Front(x) \in P)
  BY <1>3, PlacedFacts
<1>6. h \in Nat /\ h <= MaxSize /\ Narrow(h) = h
  BY <1>1, <1>5, LengthFits, NarrowIs
<1>7. Linked1(t, x, pos, g, g1)
  <2>1. Len(g) <= MaxSize
    BY <1>6
  <2> QED
    BY ONLY TreeFit(t), <1>1, <1>4, <1>5, <2>1, LinkIs
<1>8. Block(t, x, block) /\ Heirs(t, x, kids)
  BY <1>4, NodeBlock, NodeHeirs
<1>9. /\ SpecialWords(t, s) \in Seq(Nat) /\ Len(SpecialWords(t, s)) = SpecialLen(s) /\ TrailingWords(s) \in Seq(Nat)
      /\ LiteralsAt(s) = 1 + SpecialLen(s) + Len(TrailingWords(s)) /\ EdgeWords(t, s) \in Seq(Nat)
      /\ <<NodeWord(s)>> \in Seq(Nat) /\ SpecialLen(s) \in Nat
  BY <1>4, WordParts, SegShape
<1>10. g2 = g1 \o block
  <2> DEFINE A == <<NodeWord(s)>>
             B == SpecialWords(t, s)
             C == TrailingWords(s)
             D == EdgeWords(t, s)
  <2>1. g2 = g1 \o A \o B \o C \o D
    BY <1>4 DEF NodeEffect
  <2>2. g1 \in Seq(Nat) /\ A \in Seq(Nat) /\ B \in Seq(Nat) /\ C \in Seq(Nat) /\ D \in Seq(Nat)
    BY <1>7, <1>9 DEF Linked1
  <2>3. block = A \o (B \o (C \o D))
    BY DEF NodeWords
  <2> HIDE DEF A, B, C, D, g1, block
  <2>4. Flat5(g1, A, B, C, D)
    BY ONLY <2>2, FiveJoined
  <2> QED
    BY ONLY <2>1, <2>3, <2>4 DEF Flat5
<1>11. w2 = Entries(t, pos2, kids) \o Tail(w)
  <2>1. pos2[x] = h
    BY <1>1, <1>4 DEF Moved, Spots
  <2>2. Entries(t, pos2, kids) = NodeEntries(t, x, h, h + LiteralsAt(s))
    BY ONLY TreeFit(t), <1>4, <1>6, <2>1, NodeEntriesAre DEF s, kids
  <2>3. h + 1 + Len(SpecialWords(t, s)) + Len(TrailingWords(s)) = h + LiteralsAt(s)
    <3>1. \A a, b, c \in Nat : a + 1 + b + c = a + (1 + b + c)
      OBVIOUS
    <3> DEFINE a == Len(SpecialWords(t, s))
               b == Len(TrailingWords(s))
               n == LiteralsAt(s)
    <3>2. a \in Nat /\ b \in Nat /\ n = 1 + a + b
      BY <1>9
    <3> HIDE DEF a, b, n, h, s, x
    <3>3. h + 1 + a + b = h + n
      BY <1>6, <3>1, <3>2
    <3> QED
      BY <3>3 DEF a, b, n
  <2> DEFINE first == h + LiteralsAt(s)
  <2>4. w2 = [i \in 1..Len(s.children) |-> Node(LitKid(x, s.children[i]), first + 2 * i - 1)]
                \o (IF Len(s.children) > 0 THEN <<Sort(first, Len(s.children))>> ELSE <<>>)
                \o (IF s.spec = "SPEC_PARAM" THEN <<Node(Append(x, Par(s.param)), h + 2)>> ELSE <<>>)
                \o (IF s.spec = "SPEC_WILDCARD" THEN <<Leaf(s.wildcard, h + 1)>> ELSE <<>>)
                \o (IF s.trailing # NULL THEN <<Leaf(s.trailing, h + 1 + SpecialLen(s))>> ELSE <<>>)
                \o Tail(w)
    <3> HIDE DEF x
    <3>1. Head(w).seg = x /\ Len(SpecialWords(t, s)) = SpecialLen(s)
      BY <1>4, <1>9
    <3> QED
      BY <2>3, <3>1, Zenon DEF NodeEffect
  <2>5. w2 = NodeEntries(t, x, h, first) \o Tail(w)
    <3> HIDE DEF x, first, h
    <3> QED
      BY ONLY <2>4 DEF NodeEntries, s
  <2> QED
    BY <2>2, <2>5
<1>12. Listed(t, x, h, Holders, rf, bs, rf2, bs2)
  <2>1. x \in Ends(t) <=> s.terminal # NULL
    <3>1. DOMAIN t \cap Leaves(t) = {}
      BY ItemsClosed
    <3> QED
      BY <1>4, <3>1 DEF Ends, WithTerminal
  <2>2. ContextOf(t, x) = s.terminal /\ s.terminal \in Holders
    BY <1>4, SegmentFacts DEF ContextOf, Segment, Holders
  <2>3. /\ s.terminal # NULL => rf2 = Append(rf, h) /\ bs2 = Append(bs, s.terminal)
        /\ s.terminal = NULL => rf2 = rf /\ bs2 = bs
    <3> HIDE DEF x
    <3> QED
      BY <1>4, <1>6 DEF NodeEffect
  <2> QED
    BY <2>1, <2>2, <2>3 DEF Listed
<1> HIDE DEF x, h, P, pos2, kids, block, g1, s
<1> DEFINE lab2 == kids \o Tail(lab)
<1>13. Compiled(t, w2, g2, rf2, bs2, lab2, pos2)
  <2>1. x = lab[1] /\ pos2 = Moved(pos, x, Len(g)) /\ Listed(t, x, Len(g), Holders, rf, bs, rf2, bs2)
    BY <1>12 DEF x, pos2, h
  <2>2. /\ TreeFit(t) /\ g \in Seq(Nat) /\ rf \in Seq(Nat) /\ bs \in Seq(Holders)
        /\ pos \in Spots(t) /\ Built(t, w, g, rf, bs, lab, pos) /\ lab # <<>>
        /\ x \in Real(t) /\ Block(t, x, block) /\ Linked1(t, x, pos, g, g1) /\ Heirs(t, x, kids)
        /\ w2 = Entries(t, pos2, kids) \o Tail(w) /\ g2 = g1 \o block /\ lab2 = kids \o Tail(lab)
    BY ONLY TreeFit(t), <1>1, <1>3, <1>4, <1>7, <1>8, <1>10, <1>11
  <2> HIDE DEF lab2
  <2> QED
    BY ONLY <2>1, <2>2, PlaceIt
<1> QED
  BY <1>13

(* What CompileLeaf does, of constants.                                    *)
LeafEffect(w, g, rf, bs, w2, g2, rf2, bs2) ==
    /\ w # <<>> /\ Head(w).do = "leaf"
    /\ g2 = Append(Link(g, Head(w).edge), FLAG_TERMINAL)
    /\ rf2 = Append(rf, Narrow(Len(g))) /\ bs2 = Append(bs, Head(w).route)
    /\ w2 = Tail(w)

LEMMA LeafPlaced ==
    ASSUME NEW t, TreeFit(t), SumFunctionOnSet(SizeF(t), Real(t)) <= MaxSize,
           NEW w, NEW g, NEW rf, NEW bs, NEW lab, NEW pos, Compiled(t, w, g, rf, bs, lab, pos),
           NEW w2, NEW g2, NEW rf2, NEW bs2, LeafEffect(w, g, rf, bs, w2, g2, rf2, bs2)
    PROVE  \E lab2, pos2 : Compiled(t, w2, g2, rf2, bs2, lab2, pos2)
<1> DEFINE x == lab[1]
           h == Len(g)
           P == Placed(t, lab)
           pos2 == Moved(pos, x, h)
           kids == <<>>
           block == <<FLAG_TERMINAL>>
           g1 == Link(g, EdgeTo(t, pos, x))
           lab2 == kids \o Tail(lab)
<1>1. /\ pos \in Spots(t) /\ g \in Seq(Nat) /\ rf \in Seq(Nat) /\ bs \in Seq(Holders)
      /\ Built(t, w, g, rf, bs, lab, pos) /\ Stacked(t, w, lab, pos) /\ Allotted(t, g, P, pos)
  BY DEF Compiled, Built
<1>2. w # <<>> /\ Head(w).do = "leaf"
  BY DEF LeafEffect
<1>3. lab # <<>> /\ Head(w) = Entry(t, pos, x) /\ x \in Items(t) /\ lab \in Seq(Items(t)) /\ Apart(lab)
      /\ Len(w) = Len(lab) /\ w = [i \in 1..Len(lab) |-> Entry(t, pos, lab[i])]
  BY <1>1, <1>2, StackTop DEF Stacked
<1>4. /\ x \in Leaves(t) /\ x \in Real(t) /\ Head(w).route = ContextOf(t, x)
      /\ Head(w).edge = EdgeTo(t, pos, x)
  <2>1. x \notin DOMAIN t /\ x \notin SortItems(t)
    BY <1>2, <1>3, EntryIs DEF Node, Sort
  <2>2. x \in Leaves(t)
    BY <1>3, <2>1 DEF Items, Real
  <2>3. Entry(t, pos, x) = Leaf(ContextOf(t, x), EdgeTo(t, pos, x))
    BY <1>3, <2>2, EntryIs
  <2> QED
    BY <1>3, <2>2, <2>3 DEF Leaf, Real
<1>5. P \subseteq Real(t) /\ (x # Root => Front(x) \in P)
  BY <1>3, PlacedFacts
<1>6. h \in Nat /\ h <= MaxSize /\ Narrow(h) = h
  BY <1>1, <1>5, LengthFits, NarrowIs
<1>7. Linked1(t, x, pos, g, g1)
  <2>1. Len(g) <= MaxSize
    BY <1>6
  <2> QED
    BY ONLY TreeFit(t), <1>1, <1>4, <1>5, <2>1, LinkIs
<1>8. x \notin DOMAIN t /\ x \in Ends(t)
  BY <1>4, ItemsClosed DEF Ends
<1>9. Block(t, x, block)
  <2>1. SizeF(t)[x] = 1
    BY <1>4, <1>8 DEF SizeF
  <2>2. block \in Seq(Nat) /\ Len(block) = 1
    BY DEF FLAG_TERMINAL
  <2> QED
    BY <1>8, <2>1, <2>2 DEF Block
<1>10. Heirs(t, x, kids)
  <2>1. \A c : c \notin Kids(Items(t), x)
    BY <1>3, <1>8, KidsOfItem
  <2> QED
    BY <2>1 DEF Heirs
<1>11. w2 = Entries(t, pos2, kids) \o Tail(w)
  <2>1. Entries(t, pos2, kids) = <<>>
    BY EntriesOne
  <2> DEFINE E == {Entry(t, pos, lab[i]) : i \in 1..Len(lab)}
  <2>2. Len(lab) \in Nat /\ w \in Seq(E)
    BY <1>3
  <2> HIDE DEF E
  <2>3. Tail(w) \in Seq(E)
    BY <1>2, <2>2
  <2>4. <<>> \o Tail(w) = Tail(w)
    BY <2>3
  <2> QED
    BY <2>1, <2>4 DEF LeafEffect
<1>12. ContextOf(t, x) \in Holders
  <2>1. Front(x) \in DOMAIN t
    BY <1>4, ItemFacts
  <2>2. t[Front(x)] \in Segment
    BY <2>1, SegmentFacts
  <2> QED
    BY <1>8, <2>2 DEF ContextOf, Segment, Holders
<1>13. Listed(t, x, h, Holders, rf, bs, rf2, bs2)
  BY <1>4, <1>6, <1>8, <1>12 DEF Listed, LeafEffect
<1>14. g2 = g1 \o block
  <2>1. g2 = Append(g1, FLAG_TERMINAL)
    BY <1>4 DEF LeafEffect
  <2>2. g1 \in Seq(Nat) /\ FLAG_TERMINAL \in Nat
    BY <1>7 DEF Linked1, FLAG_TERMINAL
  <2> HIDE DEF g1
  <2> QED
    BY <2>1, <2>2
<1> HIDE DEF x, h, P, pos2, kids, block, g1
<1>15. Compiled(t, w2, g2, rf2, bs2, lab2, pos2)
  <2>1. x = lab[1] /\ pos2 = Moved(pos, x, Len(g)) /\ Listed(t, x, Len(g), Holders, rf, bs, rf2, bs2)
    BY <1>13 DEF x, pos2, h
  <2>2. /\ TreeFit(t) /\ g \in Seq(Nat) /\ rf \in Seq(Nat) /\ bs \in Seq(Holders)
        /\ pos \in Spots(t) /\ Built(t, w, g, rf, bs, lab, pos) /\ lab # <<>>
        /\ x \in Real(t) /\ Block(t, x, block) /\ Linked1(t, x, pos, g, g1) /\ Heirs(t, x, kids)
        /\ w2 = Entries(t, pos2, kids) \o Tail(w) /\ g2 = g1 \o block /\ lab2 = kids \o Tail(lab)
    BY ONLY TreeFit(t), <1>1, <1>3, <1>4, <1>7, <1>9, <1>10, <1>11, <1>14
  <2> HIDE DEF lab2
  <2> QED
    BY ONLY <2>1, <2>2, PlaceIt
<1> QED
  BY <1>15

-----------------------------------------------------------------------------
(* The sorting of edges.                                                   *)

(* Sorting n pairs of words, of constants.                                 *)
WordPairs(g, o, n) == [i \in 1..n |-> <<g[o + 2 * i - 1], g[o + 2 * i]>>]
SortWords(g, o, n) ==
    [i \in DOMAIN g |-> IF i \in (o + 1)..(o + 2 * n)
                        THEN Sorted(WordPairs(g, o, n))[(i - o + 1) \div 2][IF (i - o) % 2 = 1 THEN 1 ELSE 2]
                        ELSE g[i]]
(* The pairs of g2 are those of g, in ascending order of their first words. *)
Reordered(g, g2, o, n) ==
    /\ g2 \in Seq(Nat) /\ Len(g2) = Len(g)
    /\ \A i \in 1..Len(g) : i \notin (o + 1)..(o + 2 * n) => g2[i] = g[i]
    /\ \A i \in 1..n : \E j \in 1..n : g2[o + 2 * i - 1] = g[o + 2 * j - 1] /\ g2[o + 2 * i] = g[o + 2 * j]
    /\ \A j \in 1..n : \E i \in 1..n : g2[o + 2 * i - 1] = g[o + 2 * j - 1] /\ g2[o + 2 * i] = g[o + 2 * j]
    /\ \A i, j \in 1..n : i < j => g2[o + 2 * i - 1] < g2[o + 2 * j - 1]

Ranks(f, n) ==
    /\ \A j \in 1..n : Rank(f, n, j) \in 0..(n - 1)
    /\ \A i, j \in 1..n : f[i] < f[j] => Rank(f, n, i) < Rank(f, n, j)
    /\ \A v \in 0..(n - 1) : \E i \in 1..n : Rank(f, n, i) = v
Differing(f, n) == (\A i \in 1..n : f[i] \in Nat) /\ \A i, j \in 1..n : f[i] = f[j] => i = j

LEMMA RanksAre ==
    ASSUME NEW n, n \in Nat, NEW f, Differing(f, n)
    PROVE  Ranks(f, n)
<1>1. (\A i \in 1..n : f[i] \in Nat) /\ \A i, j \in 1..n : f[i] = f[j] => i = j
  BY DEF Differing
<1>2. \A j \in 1..n : Rank(f, n, j) \in 0..(n - 1)
  BY ONLY n \in Nat, <1>1, RankFacts
<1>3. \A i, j \in 1..n : f[i] < f[j] => Rank(f, n, i) < Rank(f, n, j)
  BY ONLY n \in Nat, <1>1, RankFacts
<1>4. \A v \in 0..(n - 1) : \E i \in 1..n : Rank(f, n, i) = v
  BY ONLY n \in Nat, <1>1, RankFacts
<1> QED
  BY ONLY <1>2, <1>3, <1>4 DEF Ranks

SortedAt(g, o, n, f, i) ==
    Sorted(WordPairs(g, o, n))[i] = WordPairs(g, o, n)[CHOOSE j \in 1..n : Rank(f, n, j) = i - 1]

LEMMA SortedIs ==
    ASSUME NEW g, NEW o, o \in Nat, NEW n, n \in Nat, NEW f, f = [i \in 1..n |-> g[o + 2 * i - 1]],
           NEW i, i \in 1..n
    PROVE  SortedAt(g, o, n, f, i)
<1> DEFINE s == WordPairs(g, o, n)
           before(j) == Cardinality({h \in DOMAIN s : BySymbol(s[h], s[j])})
<1>1. DOMAIN s = 1..n /\ \A h \in 1..n : s[h][1] = f[h]
  BY DEF WordPairs
<1>2. \A j \in 1..n : {h \in DOMAIN s : BySymbol(s[h], s[j])} = Smaller(f, n, j)
  BY <1>1 DEF BySymbol, Smaller
<1>3. \A j \in 1..n : before(j) = Rank(f, n, j)
  BY <1>2 DEF Rank
<1>4. (CHOOSE j \in DOMAIN s : before(j) = i - 1) = CHOOSE j \in 1..n : Rank(f, n, j) = i - 1
  BY <1>1, <1>3
<1>5. Sorted(s)[i] = s[CHOOSE j \in DOMAIN s : before(j) = i - 1]
  BY <1>1 DEF Sorted
<1> QED
  BY <1>4, <1>5 DEF SortedAt

LEMMA SortReorders ==
    ASSUME NEW g, g \in Seq(Nat), NEW o, o \in Nat, NEW n, n \in Nat, o + 2 * n <= Len(g),
           \A i, j \in 1..n : g[o + 2 * i - 1] = g[o + 2 * j - 1] => i = j
    PROVE  Reordered(g, SortWords(g, o, n), o, n)
<1> DEFINE f == [i \in 1..n |-> g[o + 2 * i - 1]]
           r == [i \in 1..n |-> CHOOSE j \in 1..n : Rank(f, n, j) = i - 1]
           s == WordPairs(g, o, n)
           S == Sorted(s)
           g2 == SortWords(g, o, n)
<1>1. Len(g) \in Nat /\ \A i \in 1..Len(g) : g[i] \in Nat
  OBVIOUS
<1>2. \A i \in 1..n : o + 2 * i - 1 \in 1..Len(g) /\ o + 2 * i \in 1..Len(g)
  BY <1>1
<1>3. (\A i \in 1..n : f[i] \in Nat /\ f[i] = g[o + 2 * i - 1]) /\ \A i, j \in 1..n : f[i] = f[j] => i = j
  BY <1>1, <1>2
<1> HIDE DEF f
<1>4. /\ \A j \in 1..n : Rank(f, n, j) \in 0..(n - 1)
      /\ \A i, j \in 1..n : f[i] < f[j] => Rank(f, n, i) < Rank(f, n, j)
      /\ \A v \in 0..(n - 1) : \E i \in 1..n : Rank(f, n, i) = v
  <2>1. Differing(f, n)
    BY ONLY <1>3 DEF Differing
  <2>2. Ranks(f, n)
    BY ONLY <2>1, n \in Nat, RanksAre
  <2> QED
    BY ONLY <2>2 DEF Ranks
<1>5. \A i \in 1..n : r[i] \in 1..n /\ Rank(f, n, r[i]) = i - 1
  <2> TAKE i \in 1..n
  <2>1. i - 1 \in 0..(n - 1)
    OBVIOUS
  <2>2. \E j \in 1..n : Rank(f, n, j) = i - 1
    BY <1>4, <2>1
  <2> QED
    BY <2>2
<1>6. \A i \in 1..n : S[i] = s[r[i]]
  <2> TAKE i \in 1..n
  <2>1. f = [a \in 1..n |-> g[o + 2 * a - 1]]
    BY DEF f
  <2>2. Sorted(WordPairs(g, o, n))[i] = WordPairs(g, o, n)[CHOOSE j \in 1..n : Rank(f, n, j) = i - 1]
    <3> HIDE DEF f
    <3>1. SortedAt(g, o, n, f, i)
      BY ONLY <2>1, o \in Nat, n \in Nat, i \in 1..n, SortedIs
    <3> QED
      BY ONLY <3>1 DEF SortedAt
  <2> QED
    BY <2>2
<1> HIDE DEF r
<1> HIDE DEF S
<1>7. \A i \in 1..n : s[i][1] = g[o + 2 * i - 1] /\ s[i][2] = g[o + 2 * i]
  BY DEF WordPairs
<1> HIDE DEF s
<1>8. g2 = [i \in 1..Len(g) |-> IF i \in (o + 1)..(o + 2 * n)
                        THEN S[(i - o + 1) \div 2][IF (i - o) % 2 = 1 THEN 1 ELSE 2] ELSE g[i]]
  <2>1. DOMAIN g = 1..Len(g)
    OBVIOUS
  <2>2. [i \in DOMAIN g |-> IF i \in (o + 1)..(o + 2 * n)
            THEN S[(i - o + 1) \div 2][IF (i - o) % 2 = 1 THEN 1 ELSE 2] ELSE g[i]]
        = [i \in 1..Len(g) |-> IF i \in (o + 1)..(o + 2 * n)
            THEN S[(i - o + 1) \div 2][IF (i - o) % 2 = 1 THEN 1 ELSE 2] ELSE g[i]]
    BY ONLY <2>1, Zenon
  <2> QED
    BY <2>2, Zenon DEF SortWords, S, s
<1>9. ASSUME NEW i \in 1..n
      PROVE  g2[o + 2 * i - 1] = g[o + 2 * r[i] - 1] /\ g2[o + 2 * i] = g[o + 2 * r[i]]
  <2>1. /\ o + 2 * i - 1 \in (o + 1)..(o + 2 * n) /\ o + 2 * i \in (o + 1)..(o + 2 * n)
        /\ (o + 2 * i - 1) - o = 2 * i - 1 /\ (o + 2 * i) - o = 2 * i
    BY <1>2
  <2>2. (2 * i - 1) % 2 = 1 /\ (2 * i) % 2 # 1 /\ (2 * i - 1 + 1) \div 2 = i /\ (2 * i + 1) \div 2 = i
    OBVIOUS
  <2>3. g2[o + 2 * i - 1] = S[i][1] /\ g2[o + 2 * i] = S[i][2]
    <3>1. g2[o + 2 * i - 1] = S[((o + 2 * i - 1) - o + 1) \div 2][IF ((o + 2 * i - 1) - o) % 2 = 1 THEN 1 ELSE 2]
      BY <1>2, <1>8, <2>1
    <3>2. g2[o + 2 * i] = S[((o + 2 * i) - o + 1) \div 2][IF ((o + 2 * i) - o) % 2 = 1 THEN 1 ELSE 2]
      BY <1>2, <1>8, <2>1
    <3> QED
      BY <2>1, <2>2, <3>1, <3>2
  <2> QED
    BY <1>5, <1>6, <1>7, <2>3
<1>10. \A i \in 1..Len(g) : i \notin (o + 1)..(o + 2 * n) => g2[i] = g[i]
  BY <1>8
<1>11. \A i \in (o + 1)..(o + 2 * n) : \E j \in 1..n : i = o + 2 * j - 1 \/ i = o + 2 * j
  <2> TAKE i \in (o + 1)..(o + 2 * n)
  <2> DEFINE a == i - o
  <2>1. a \in 1..(2 * n) /\ i = o + a
    OBVIOUS
  <2> HIDE DEF a
  <2>2. \E j \in 1..n : a = 2 * j - 1 \/ a = 2 * j
    <3>1. (a + 1) \div 2 \in 1..n /\ (a = 2 * ((a + 1) \div 2) - 1 \/ a = 2 * ((a + 1) \div 2))
      BY <2>1
    <3> QED
      BY <3>1
  <2> QED
    BY <2>1, <2>2
<1> HIDE DEF g2
<1>12. \A i \in 1..Len(g) : g2[i] \in Nat
  <2> TAKE i \in 1..Len(g)
  <2>1. CASE i \notin (o + 1)..(o + 2 * n)
    BY <1>1, <1>10, <2>1
  <2>2. CASE i \in (o + 1)..(o + 2 * n)
    <3>1. PICK j \in 1..n : i = o + 2 * j - 1 \/ i = o + 2 * j
      BY <1>11, <2>2
    <3>2. o + 2 * r[j] - 1 \in 1..Len(g) /\ o + 2 * r[j] \in 1..Len(g)
      BY <1>2, <1>5
    <3> QED
      BY <1>1, <1>9, <3>1, <3>2
  <2> QED
    BY <2>1, <2>2
<1>13. g2 \in Seq(Nat) /\ Len(g2) = Len(g)
  BY <1>1, <1>8, <1>12
<1>14. \A i, j \in 1..n : i < j => g2[o + 2 * i - 1] < g2[o + 2 * j - 1]
  <2> TAKE i, j \in 1..n
  <2> HAVE i < j
  <2>1. f[r[i]] \in Nat /\ f[r[j]] \in Nat /\ r[i] \in 1..n /\ r[j] \in 1..n
        /\ Rank(f, n, r[i]) = i - 1 /\ Rank(f, n, r[j]) = j - 1
    BY <1>3, <1>5
  <2>2. r[i] # r[j]
    BY <2>1
  <2>3. f[r[i]] # f[r[j]]
    BY <1>3, <2>1, <2>2
  <2>4. ~(f[r[j]] < f[r[i]])
    <3>1. f[r[j]] < f[r[i]] => Rank(f, n, r[j]) < Rank(f, n, r[i])
      BY <1>4, <2>1
    <3> QED
      BY <2>1, <3>1
  <2>5. f[r[i]] < f[r[j]]
    BY <2>1, <2>3, <2>4
  <2> QED
    BY <1>3, <1>9, <2>1, <2>5
<1>15. \A j \in 1..n : \E i \in 1..n : r[i] = j
  <2> TAKE j \in 1..n
  <2> DEFINE i == Rank(f, n, j) + 1
  <2> DEFINE v == Rank(f, n, j)
  <2>0. v \in 0..(n - 1)
    BY <1>4
  <2> HIDE DEF v
  <2>00. i \in 1..n /\ i - 1 = v
    BY ONLY <2>0, n \in Nat DEF v
  <2>1. i \in 1..n /\ i - 1 = Rank(f, n, j)
    BY <2>00 DEF v
  <2> HIDE DEF i
  <2>2. r[i] \in 1..n /\ Rank(f, n, r[i]) = v
    BY ONLY <1>5, <2>00
  <2>3. v \in Nat /\ Rank(f, n, j) = v
    BY ONLY <2>0, n \in Nat DEF v
  <2>4. ~(f[r[i]] < f[j]) /\ ~(f[j] < f[r[i]])
    <3> DEFINE m == r[i]
    <3>1. m \in 1..n /\ Rank(f, n, m) = v
      BY <2>2
    <3> HIDE DEF m
    <3>2. f[m] < f[j] => Rank(f, n, m) < Rank(f, n, j)
      BY ONLY <1>4, <3>1, j \in 1..n
    <3>3. f[j] < f[m] => Rank(f, n, j) < Rank(f, n, m)
      BY ONLY <1>4, <3>1, j \in 1..n
    <3>4. ~(f[m] < f[j]) /\ ~(f[j] < f[m])
      BY ONLY <2>3, <3>1, <3>2, <3>3
    <3> QED
      BY <3>4 DEF m
  <2>5. f[r[i]] = f[j]
    BY ONLY <1>3, <2>2, <2>4, j \in 1..n
  <2> QED
    BY <1>3, <2>00, <2>2, <2>5
<1> HIDE DEF r
<1>16. \A i \in 1..n : \E j \in 1..n : g2[o + 2 * i - 1] = g[o + 2 * j - 1] /\ g2[o + 2 * i] = g[o + 2 * j]
  BY <1>5, <1>9
<1>17. \A j \in 1..n : \E i \in 1..n : g2[o + 2 * i - 1] = g[o + 2 * j - 1] /\ g2[o + 2 * i] = g[o + 2 * j]
  <2> TAKE j \in 1..n
  <2>1. PICK i \in 1..n : r[i] = j
    BY <1>15
  <2>2. g2[o + 2 * i - 1] = g[o + 2 * r[i] - 1] /\ g2[o + 2 * i] = g[o + 2 * r[i]]
    BY <1>9
  <2> QED
    BY <2>1, <2>2
<1>18. Reordered(g, g2, o, n)
  BY ONLY <1>10, <1>13, <1>14, <1>16, <1>17 DEF Reordered
<1> QED
  BY <1>18 DEF g2

(* What SortEdges does, of constants.                                      *)
SortEffect(w, g, w2, g2) ==
    /\ w # <<>> /\ Head(w).do = "sort"
    /\ g2 = SortWords(g, Head(w).edge, Head(w).count)
    /\ w2 = Tail(w)

(* The literals of a segment whose edges are sorted next are all placed.   *)
LEMMA KidsPlaced ==
    ASSUME NEW t, TreeFit(t), NEW w, NEW lab, NEW pos, Stacked(t, w, lab, pos), lab # <<>>,
           NEW k, k \in DOMAIN t, lab[1] = SortOf(k)
    PROVE  \A n \in ToSet(t[k].children) : LitKid(k, n) \in Placed(t, lab)
<1> TAKE n \in ToSet(t[k].children)
<1> DEFINE q == LitKid(k, n)
           x == lab[1]
           I == Items(t)
<1>1. lab \in Seq(I) /\ Apart(lab)
  BY DEF Stacked
<1>2. Len(lab) \in Nat /\ 1 \in 1..Len(lab) /\ \A i \in 1..Len(lab) : lab[i] \in I
  BY <1>1
<1>3. Closed(I) /\ k \in I /\ I \subseteq Seq(Token)
  BY ItemsClosed DEF Items, Real, Closed
<1>4. k \in Seq(Token) /\ Illegal \in Token
  BY <1>3, TokenKinds
<1>5. x # <<>> /\ Front(x) = k /\ Last(x) = Illegal /\ Len(x) = Len(k) + 1 /\ x \in Seq(Token)
      /\ x[Len(k) + 1] = Illegal /\ Len(k) \in Nat /\ Under(k, x)
  <2>1. /\ SortOf(k) # <<>> /\ Front(SortOf(k)) = k /\ Last(SortOf(k)) = Illegal
        /\ Len(SortOf(k)) = Len(k) + 1 /\ SortOf(k) \in Seq(Token) /\ SortOf(k)[Len(k) + 1] = Illegal
    BY <1>4, AppendOf DEF SortOf
  <2>2. Under(Front(SortOf(k)), SortOf(k))
    BY <2>1, UnderFront
  <2> QED
    BY <1>4, <2>1, <2>2
<1>6. n \in Names /\ q \in DOMAIN t
  <2>1. PICK i \in 1..Len(t[k].children) : n = t[k].children[i]
    BY SegmentFacts DEF ToSet
  <2> QED
    BY <2>1, SegmentFacts
<1>7. Lit(n) \in Token /\ Lit(n) # Illegal
  BY <1>6, TokenKinds
<1>8. q # <<>> /\ Front(q) = k /\ Last(q) = Lit(n) /\ q \in Seq(Token) /\ Len(q) = Len(k) + 1 /\ q[Len(k) + 1] = Lit(n)
  BY <1>4, <1>7, AppendOf DEF LitKid
<1> HIDE DEF q, x, I
<1>9. ASSUME NEW j \in 1..Len(lab), Under(lab[j], q) PROVE FALSE
  <2>1. lab[j] \in Seq(Token)
    BY <1>2, <1>3
  <2>2. Under(lab[j], k) \/ lab[j] = q
    BY <1>8, <1>9, <2>1, UnderFront
  <2>3. CASE Under(lab[j], k)
    <3>1. Under(lab[j], x)
      BY <1>4, <1>5, <2>1, <2>3, UnderFacts
    <3>2. j = 1
      BY <1>1, <1>2, <3>1 DEF Apart, x
    <3>3. Under(x, k)
      BY <2>3, <3>2 DEF x
    <3>4. Len(x) <= Len(k)
      BY <3>3 DEF Under
    <3> QED
      BY <1>5, <3>4
  <2>4. CASE lab[j] = q
    <3>1. j # 1
      BY <1>5, <1>7, <1>8, <2>4 DEF x
    <3>2. 1 < j
      BY <1>2, <3>1
    <3>3. ~Under(LitKid(Front(lab[1]), n), lab[j])
      <4>1. \A i, a \in 1..Len(lab) : (i < a /\ Last(lab[i]) = Illegal /\ lab[i] # <<>>) =>
               \A m \in ToSet(t[Front(lab[i])].children) : ~Under(LitKid(Front(lab[i]), m), lab[a])
        BY DEF Stacked
      <4>2. Last(lab[1]) = Illegal /\ lab[1] # <<>> /\ Front(lab[1]) = k
        BY <1>5 DEF x
      <4>3. \A m \in ToSet(t[Front(lab[1])].children) : ~Under(LitKid(Front(lab[1]), m), lab[j])
        BY ONLY <1>2, <3>2, <4>1, <4>2
      <4> QED
        BY <4>2, <4>3
    <3>4. ~Under(q, q)
      BY <1>5, <2>4, <3>3 DEF q, x
    <3> QED
      BY <1>8, <3>4, UnderFacts
  <2> QED
    BY <2>2, <2>3, <2>4
<1>10. q \notin Rest(I, lab)
  BY <1>9 DEF Rest
<1> QED
  BY <1>6, <1>10 DEF Placed, Real, q, I

SameWord(g, g2, pos, y, a) == g2[pos[y] + a + 1] = g[pos[y] + a + 1]

(* Sorting the edges of segment k leaves every other word as it was.       *)
LEMMA SortKeeps ==
    ASSUME NEW t, TreeFit(t), NEW g, NEW g2, NEW P, P \subseteq Real(t), NEW pos, pos \in Spots(t),
           Disjoint(t, g, P, pos), NEW k, k \in P, k \in DOMAIN t,
           Reordered(g, g2, pos[k] + LiteralsAt(t[k]), Len(t[k].children)),
           NEW y, y \in P, NEW a, a \in 0..(SizeF(t)[y] - 1), y # k \/ a < LiteralsAt(t[k])
    PROVE  SameWord(g, g2, pos, y, a)
<1> DEFINE L == LiteralsAt(t[k])
           n == Len(t[k].children)
           p == pos[k]
           q == pos[y]
           S == SizeF(t)
<1>1. L \in Nat /\ n \in Nat /\ S[k] = L + 2 * n
  BY SegShape
<1>2. p \in Nat /\ q \in Nat
  BY DEF Spots
<1>3. /\ \A b \in 0..(S[y] - 1) : q + b + 1 \in 1..Len(g)
      /\ \A b \in 0..(S[y] - 1) : \A c \in 0..(S[k] - 1) : q + b + 1 = p + c + 1 => y = k /\ b = c
  BY DEF Disjoint
<1>4. \A i \in 1..Len(g) : i \notin (p + L + 1)..(p + L + 2 * n) => g2[i] = g[i]
  BY DEF Reordered
<1> HIDE DEF L, n, p, q, S
<1>5. a \in 0..(S[y] - 1) /\ (y # k \/ a < L)
  BY DEF S, L
<1>6. q + a + 1 \notin (p + L + 1)..(p + L + 2 * n)
  <2> SUFFICES ASSUME q + a + 1 \in (p + L + 1)..(p + L + 2 * n) PROVE FALSE
    OBVIOUS
  <2> DEFINE c == q + a - p
  <2>1. a \in Nat
    BY <1>5
  <2>2. c \in L..(L + 2 * n - 1) /\ q + a + 1 = p + c + 1
    BY <1>1, <1>2, <2>1
  <2> HIDE DEF c
  <2>3. c \in 0..(S[k] - 1) /\ c >= L
    BY <1>1, <2>2
  <2>4. y = k /\ a = c
    BY ONLY <1>3, <1>5, <2>2, <2>3
  <2> QED
    BY <1>1, <1>5, <2>1, <2>3, <2>4
<1>7. g2[q + a + 1] = g[q + a + 1]
  BY <1>3, <1>4, <1>5, <1>6
<1> QED
  BY <1>7 DEF q, SameWord

LEMMA WrittenSorted ==
    ASSUME NEW t, TreeFit(t), NEW g, NEW g2, NEW P, P \subseteq Real(t), NEW pos, pos \in Spots(t),
           Disjoint(t, g, P, pos), NEW k, k \in P, k \in DOMAIN t, NEW U, k \in U,
           Reordered(g, g2, pos[k] + LiteralsAt(t[k]), Len(t[k].children)),
           \A y \in P : y # Root => Front(y) \in P /\ Front(y) \in DOMAIN t,
           \A n \in ToSet(t[k].children) : LitKid(k, n) \in P,
           Written(t, g, P, U, pos), NEW U2, U2 = U \ {k}
    PROVE  Written(t, g2, P, U2, pos)
<1> DEFINE Kept(y, a) == g2[pos[y] + a + 1] = g[pos[y] + a + 1]
<1>1. \A y \in P : \A a \in 0..(SizeF(t)[y] - 1) : (y # k \/ a < LiteralsAt(t[k])) => Kept(y, a)
  <2> TAKE y \in P
  <2> TAKE a \in 0..(SizeF(t)[y] - 1)
  <2> HAVE y # k \/ a < LiteralsAt(t[k])
  <2> QED
    <3>1. SameWord(g, g2, pos, y, a)
      BY SortKeeps
    <3> QED
      BY <3>1 DEF SameWord
<1>2. ASSUME NEW y, y \in P, y \in DOMAIN t
      PROVE  /\ g2[pos[y] + 1] = g[pos[y] + 1]
             /\ t[y].spec = "SPEC_PARAM" => g2[pos[y] + 2] = g[pos[y] + 2]
             /\ y # k => \A i \in 1..Len(t[y].children) : /\ SymAt(g2, pos[y], t[y], i) = SymAt(g, pos[y], t[y], i)
                                                          /\ TgtAt(g2, pos[y], t[y], i) = TgtAt(g, pos[y], t[y], i)
  <2> DEFINE L == LiteralsAt(t[y])
             n == Len(t[y].children)
             S == SizeF(t)[y]
             p == pos[y]
             M == LiteralsAt(t[k])
  <2>1. /\ L \in Nat /\ L >= 1 + SpecialLen(t[y]) /\ n \in Nat /\ S = L + 2 * n /\ S \in Nat
        /\ (t[y].spec = "SPEC_PARAM" => SpecialLen(t[y]) = 2) /\ SpecialLen(t[y]) \in {0, 1, 2}
    BY <1>2, SegShape
  <2>2. p \in Nat
    BY <1>2 DEF Spots
  <2>3. \A a \in 0..(S - 1) : (y # k \/ a < M) => g2[p + a + 1] = g[p + a + 1]
    BY <1>1, <1>2
  <2>4. y = k => M = L
    OBVIOUS
  <2> HIDE DEF L, n, S, p, M
  <2>5. 0 \in 0..(S - 1) /\ p + 0 + 1 = p + 1 /\ (y # k \/ 0 < M)
    BY <2>1, <2>2, <2>4
  <2>6. t[y].spec = "SPEC_PARAM" => 1 \in 0..(S - 1) /\ p + 1 + 1 = p + 2 /\ (y # k \/ 1 < M)
    BY <2>1, <2>2, <2>4
  <2>7. \A i \in 1..n : /\ L + 2 * i - 2 \in 0..(S - 1) /\ p + (L + 2 * i - 2) + 1 = p + L + 2 * i - 1
                        /\ L + 2 * i - 1 \in 0..(S - 1) /\ p + (L + 2 * i - 1) + 1 = p + L + 2 * i
    BY <2>1, <2>2
  <2>8. g2[p + 1] = g[p + 1] /\ (t[y].spec = "SPEC_PARAM" => g2[p + 2] = g[p + 2])
    BY <2>3, <2>5, <2>6
  <2>9. y # k => \A i \in 1..n : g2[p + L + 2 * i - 1] = g[p + L + 2 * i - 1] /\ g2[p + L + 2 * i] = g[p + L + 2 * i]
    <3> HAVE y # k
    <3> TAKE i \in 1..n
    <3>1. g2[p + (L + 2 * i - 2) + 1] = g[p + (L + 2 * i - 2) + 1]
      BY ONLY <2>3, <2>7, y # k, i \in 1..n
    <3>2. g2[p + (L + 2 * i - 1) + 1] = g[p + (L + 2 * i - 1) + 1]
      BY ONLY <2>3, <2>7, y # k, i \in 1..n
    <3> QED
      BY <2>7, <3>1, <3>2
  <2> QED
    BY <2>8, <2>9 DEF SymAt, TgtAt, L, n, p
<1>3. ASSUME NEW y, y \in P, y \in DOMAIN t, y # k, y \notin U PROVE SortedEdges(t, g2, y, pos)
  <2>1. SortedEdges(t, g, y, pos)
    BY <1>3 DEF Written
  <2>2. \A i \in 1..Len(t[y].children) : /\ SymAt(g2, pos[y], t[y], i) = SymAt(g, pos[y], t[y], i)
                                         /\ TgtAt(g2, pos[y], t[y], i) = TgtAt(g, pos[y], t[y], i)
    BY <1>2, <1>3
  <2> QED
    BY <2>1, <2>2 DEF SortedEdges
<1>4. SortedEdges(t, g2, k, pos)
  <2> DEFINE L == LiteralsAt(t[k])
             n == Len(t[k].children)
             o == pos[k] + L
             ch == t[k].children
  <2>1. /\ L \in Nat /\ n \in Nat /\ pos[k] \in Nat
    BY SegShape DEF Spots
  <2>2. /\ \A i \in 1..n : \E j \in 1..n : g2[o + 2 * i - 1] = g[o + 2 * j - 1] /\ g2[o + 2 * i] = g[o + 2 * j]
        /\ \A j \in 1..n : \E i \in 1..n : g2[o + 2 * i - 1] = g[o + 2 * j - 1] /\ g2[o + 2 * i] = g[o + 2 * j]
        /\ \A i, j \in 1..n : i < j => g2[o + 2 * i - 1] < g2[o + 2 * j - 1]
    BY DEF Reordered
  <2>3. \A i \in 1..n : g[o + 2 * i - 1] = Resolve(LitNames(t), ch[i])
    BY DEF Written, SymAt
  <2>4. \A i \in 1..n : g[o + 2 * i] = pos[LitKid(k, ch[i])]
    <3> TAKE i \in 1..n
    <3> DEFINE y == LitKid(k, ch[i])
    <3>1. y \in P /\ y \in DOMAIN t /\ ch[i] \in Names
      <4>1. ch[i] \in ToSet(ch)
        BY SegmentFacts DEF ToSet
      <4> QED
        BY <4>1, SegmentFacts
    <3>2. Lit(ch[i]) \in Literals /\ Lit(ch[i]) \in Token /\ Lit(ch[i]).str = ch[i]
      BY <3>1, TokenKinds
    <3>3. k \in Seq(Token)
      BY SegmentFacts
    <3>4. y # Root /\ Front(y) = k /\ Last(y) = Lit(ch[i])
      BY <3>2, <3>3, AppendOf DEF LitKid, Root
    <3>5. g[pos[Front(y)] + EdgeAt(t[Front(y)], Last(y)) + 1] = pos[y]
      BY <3>1, <3>4 DEF Written
    <3>6. Index(t[k], ch[i]) = i
      BY IndexIs
    <3>7. EdgeAt(t[k], Lit(ch[i])) = L + 2 * i - 1
      <4>1. Lit(ch[i]) \notin Params /\ Lit(ch[i]) \notin {Wildcard, Trailing, Illegal}
        BY <3>2, TokenKinds
      <4> QED
        BY <3>2, <3>6, <4>1 DEF EdgeAt
    <3>8. pos[k] + (L + 2 * i - 1) + 1 = o + 2 * i
      BY <2>1
    <3> HIDE DEF y, L, o
    <3> QED
      BY <3>4, <3>5, <3>7, <3>8 DEF y
  <2> DEFINE Pair(i, j) == /\ SymAt(g2, pos[k], t[k], i) = Resolve(LitNames(t), ch[j])
                           /\ TgtAt(g2, pos[k], t[k], i) = pos[LitKid(k, ch[j])]
  <2>5. \A i \in 1..n : SymAt(g2, pos[k], t[k], i) = g2[o + 2 * i - 1] /\ TgtAt(g2, pos[k], t[k], i) = g2[o + 2 * i]
    BY DEF SymAt, TgtAt
  <2> HIDE DEF o, n, L
  <2>6. (\A i \in 1..n : \E j \in 1..n : Pair(i, j)) /\ (\A j \in 1..n : \E i \in 1..n : Pair(i, j))
    <3>1. ASSUME NEW i \in 1..n PROVE \E j \in 1..n : Pair(i, j)
      <4>1. PICK j \in 1..n : g2[o + 2 * i - 1] = g[o + 2 * j - 1] /\ g2[o + 2 * i] = g[o + 2 * j]
        BY <2>2
      <4>2. Pair(i, j)
        BY <2>3, <2>4, <2>5, <4>1
      <4> QED
        BY <4>2
    <3>2. ASSUME NEW j \in 1..n PROVE \E i \in 1..n : Pair(i, j)
      <4>1. PICK i \in 1..n : g2[o + 2 * i - 1] = g[o + 2 * j - 1] /\ g2[o + 2 * i] = g[o + 2 * j]
        BY <2>2
      <4>2. Pair(i, j)
        BY <2>3, <2>4, <2>5, <4>1
      <4> QED
        BY <4>2
    <3> QED
      BY <3>1, <3>2
  <2>7. \A i, j \in 1..n : i < j => SymAt(g2, pos[k], t[k], i) < SymAt(g2, pos[k], t[k], j)
    BY <2>2, <2>5
  <2> QED
    BY <2>6, <2>7 DEF SortedEdges, n
<1>5. ASSUME NEW y, y \in P, y # Root, Last(y) \in Literals => Front(y) \in U2
      PROVE  g2[pos[Front(y)] + EdgeAt(t[Front(y)], Last(y)) + 1] = pos[y]
  <2> DEFINE f == Front(y)
             a == EdgeAt(t[f], Last(y))
  <2>1. f \in P /\ f \in DOMAIN t /\ y \in Real(t)
    BY <1>5
  <2>2. a \in 1..(NodeLen(t[f]) - 1) /\ SizeF(t)[f] = NodeLen(t[f]) /\ NodeLen(t[f]) \in Nat
    BY <1>5, <2>1, EdgeDistinct, SegShape
  <2>3. a \in 0..(SizeF(t)[f] - 1)
    BY <2>2
  <2>4. f # k \/ a < LiteralsAt(t[k])
    <3>1. SUFFICES ASSUME f = k PROVE a < LiteralsAt(t[k])
      OBVIOUS
    <3>2. Last(y) \notin Literals
      BY <1>5, <3>1
    <3>3. y \in Items(t) /\ y \notin SortItems(t)
      BY <2>1, ItemsClosed DEF Items, Real
    <3>4. Last(y) \notin Literals \cup {Illegal}
      BY <1>5, <3>2, <3>3, EdgeFacts
    <3> QED
      BY <1>5, <3>1, <3>3, <3>4, EdgeFacts
  <2>5. Kept(f, a)
    BY <1>1, <2>1, <2>3, <2>4
  <2>6. g[pos[f] + a + 1] = pos[y]
    BY <1>5 DEF Written
  <2> HIDE DEF a
  <2> QED
    BY <2>5, <2>6 DEF a
<1>6. ASSUME NEW y, y \in P, y \in DOMAIN t
      PROVE  /\ g2[pos[y] + 1] = NodeWord(t[y])
             /\ t[y].spec = "SPEC_PARAM" => g2[pos[y] + 2] = Resolve(ParNames(t), t[y].param)
             /\ y \in U2 => \A i \in 1..Len(t[y].children) :
                                SymAt(g2, pos[y], t[y], i) = Resolve(LitNames(t), t[y].children[i])
             /\ y \notin U2 => (\A n \in ToSet(t[y].children) : LitKid(y, n) \in P) /\ SortedEdges(t, g2, y, pos)
  <2>1. /\ g[pos[y] + 1] = NodeWord(t[y])
        /\ t[y].spec = "SPEC_PARAM" => g[pos[y] + 2] = Resolve(ParNames(t), t[y].param)
        /\ y \in U => \A i \in 1..Len(t[y].children) :
                           SymAt(g, pos[y], t[y], i) = Resolve(LitNames(t), t[y].children[i])
        /\ y \notin U => \A n \in ToSet(t[y].children) : LitKid(y, n) \in P
    BY <1>6 DEF Written
  <2>2. y \in U2 => y \in U /\ y # k
    OBVIOUS
  <2>3. y \in U2 => \A i \in 1..Len(t[y].children) :
                        SymAt(g2, pos[y], t[y], i) = Resolve(LitNames(t), t[y].children[i])
    BY <1>2, <1>6, <2>1, <2>2
  <2>4. CASE y = k
    BY <1>2, <1>4, <1>6, <2>1, <2>3, <2>4
  <2>5. CASE y # k
    BY <1>2, <1>3, <1>6, <2>1, <2>3, <2>5
  <2> QED
    BY <2>4, <2>5
<1> QED
  BY <1>5, <1>6 DEF Written

LEMMA SortPlaced ==
    ASSUME NEW t, TreeFit(t), NEW w, NEW g, NEW rf, NEW bs, NEW lab, NEW pos, Compiled(t, w, g, rf, bs, lab, pos),
           NEW w2, NEW g2, SortEffect(w, g, w2, g2)
    PROVE  \E lab2, pos2 : Compiled(t, w2, g2, rf, bs, lab2, pos2)
<1> DEFINE x == lab[1]
           k == Front(x)
           P == Placed(t, lab)
           U == Unsorted(t, lab)
           lab2 == <<>> \o Tail(lab)
           o == pos[k] + LiteralsAt(t[k])
           n == Len(t[k].children)
           I == Items(t)
<1>1. /\ pos \in Spots(t) /\ g \in Seq(Nat) /\ rf \in Seq(Nat) /\ bs \in Seq(Holders)
      /\ Stacked(t, w, lab, pos) /\ Allotted(t, g, P, pos) /\ Written(t, g, P, U, pos) /\ Terminals(t, rf, bs, P, pos)
  BY DEF Compiled, Built
<1>2. w # <<>> /\ Head(w).do = "sort"
  BY DEF SortEffect
<1>3. lab # <<>> /\ Head(w) = Entry(t, pos, x) /\ x \in I /\ lab \in Seq(I) /\ Apart(lab)
      /\ Len(w) = Len(lab) /\ w = [i \in 1..Len(lab) |-> Entry(t, pos, lab[i])]
  BY <1>1, <1>2, StackTop DEF Stacked
<1>4. /\ x \in SortItems(t) /\ x \notin Real(t) /\ x # <<>> /\ k \in DOMAIN t /\ x = SortOf(k) /\ Last(x) = Illegal
      /\ t[k].children # <<>>
  <2>1. x \notin DOMAIN t /\ x \notin Leaves(t)
    BY <1>2, <1>3, EntryIs DEF Node, Leaf
  <2>2. x \in SortItems(t)
    BY <1>3, <2>1 DEF Items, Real
  <2> QED
    BY <2>1, <2>2, ItemFacts DEF Real
<1>5. Head(w).edge = o /\ Head(w).count = n
  <2>1. Entry(t, pos, x) = Sort(EdgeTo(t, pos, x), n)
    BY <1>3, <1>4, EntryIs
  <2>2. EdgeTo(t, pos, x) = pos[k] + EdgeAt(t[k], Last(x))
    BY <1>4 DEF EdgeTo, Root
  <2>3. EdgeAt(t[k], Last(x)) = LiteralsAt(t[k])
    BY <1>3, <1>4, EdgeFacts DEF Root
  <2> QED
    BY <1>3, <2>1, <2>2, <2>3 DEF Sort
<1>6. P \in SUBSET Real(t) /\ (\A y \in P : y # Root => Front(y) \in P /\ Front(y) \in DOMAIN t) /\ k \in P
  BY <1>3, <1>4, PlacedFacts DEF Root
<1>7. Disjoint(t, g, P, pos)
  <2>1. Len(g) \in Nat
    BY <1>1
  <2> QED
    BY <1>1, <1>6, <2>1, Regions
<1>8. \A m \in ToSet(t[k].children) : LitKid(k, m) \in P
  BY <1>1, <1>3, <1>4, KidsPlaced
<1>9. Heirs(t, x, <<>>)
  <2>1. x \notin DOMAIN t
    BY <1>4, ItemsClosed
  <2>2. \A c : c \notin Kids(Items(t), x)
    BY <1>3, <2>1, KidsOfItem
  <2> QED
    BY <2>2 DEF Heirs
<1>10. w2 = Entries(t, pos, <<>>) \o Tail(w)
  <2>1. Entries(t, pos, <<>>) = <<>>
    BY EntriesOne
  <2> DEFINE E == {Entry(t, pos, lab[i]) : i \in 1..Len(lab)}
  <2>2. Len(lab) \in Nat /\ w \in Seq(E)
    BY <1>3
  <2> HIDE DEF E
  <2>3. Tail(w) \in Seq(E)
    BY <1>2, <2>2
  <2>4. <<>> \o Tail(w) = Tail(w)
    BY <2>3
  <2> QED
    BY <2>1, <2>4 DEF SortEffect
<1>11. SameBut(pos, pos, x)
  BY DEF SameBut
<1> HIDE DEF lab2
<1>12. Stacked(t, w2, lab2, pos) /\ Fewer(t, lab, lab2, x)
  <2>1. Stacked(t, w2, <<>> \o Tail(lab), pos)
    BY ONLY TreeFit(t), <1>1, <1>3, <1>9, <1>10, <1>11, StackedGrown
  <2>2. Fewer(t, lab, <<>> \o Tail(lab), x)
    BY ONLY TreeFit(t), <1>1, <1>3, <1>9, <1>10, <1>11, StackedGrown
  <2> QED
    BY <2>1, <2>2 DEF lab2
<1>13. x \in Rest(I, lab) /\ Rest(I, lab2) = Rest(I, lab) \ {x}
  BY <1>12 DEF Fewer
<1>14. Placed(t, lab2) = P
  BY <1>4, <1>13 DEF Placed
<1>15. k \in U /\ Unsorted(t, lab2) = U \ {k}
  <2>1. \A j \in DOMAIN t : SortOf(j) = SortOf(k) => j = k
    <3> TAKE j \in DOMAIN t
    <3>1. j \in Seq(Token) /\ k \in Seq(Token) /\ Illegal \in Token
      BY <1>4, SegmentFacts, TokenKinds
    <3>2. Front(SortOf(j)) = j /\ Front(SortOf(k)) = k
      BY <3>1, AppendOf DEF SortOf
    <3> QED
      BY <3>2
  <2> QED
    BY <1>4, <1>13, <2>1 DEF Unsorted
<1>16. Reordered(g, g2, o, n)
  <2>1. /\ LiteralsAt(t[k]) \in Nat /\ n \in Nat /\ pos[k] \in Nat /\ SizeF(t)[k] = LiteralsAt(t[k]) + 2 * n
        /\ Len(g) \in Nat
    BY <1>1, <1>4, <1>6, SegShape DEF Spots
  <2>2. pos[k] + SizeF(t)[k] <= Len(g)
    BY <1>1, <1>6 DEF Allotted
  <2>3. o \in Nat /\ n \in Nat /\ o + 2 * n <= Len(g)
    BY <2>1, <2>2
  <2>4. \A i \in 1..n : g[o + 2 * i - 1] = Resolve(LitNames(t), t[k].children[i])
    <3>1. \A i \in 1..Len(t[k].children) : SymAt(g, pos[k], t[k], i) = Resolve(LitNames(t), t[k].children[i])
      BY <1>1, <1>4, <1>6, <1>15 DEF Written
    <3> QED
      BY <3>1 DEF SymAt
  <2>5. \A i, j \in 1..n : g[o + 2 * i - 1] = g[o + 2 * j - 1] => i = j
    <3> TAKE i, j \in 1..n
    <3> HAVE g[o + 2 * i - 1] = g[o + 2 * j - 1]
    <3>1. Resolve(LitNames(t), t[k].children[i]) = Resolve(LitNames(t), t[k].children[j])
      BY <2>4
    <3>2. t[k].children[i] \in LitNames(t) /\ t[k].children[j] \in LitNames(t)
      BY <1>4, NamesFinite
    <3>3. t[k].children[i] = t[k].children[j]
      <4>1. LitNames(t) \in SUBSET Nat /\ IsFiniteSet(LitNames(t))
        BY NamesFinite
      <4>2. \A a, b \in LitNames(t) : Resolve(LitNames(t), a) = Resolve(LitNames(t), b) => a = b
        BY <4>1, ResolveFacts
      <4> QED
        BY ONLY <3>1, <3>2, <4>2
    <3> QED
      BY <1>4, <3>3, SegmentFacts
  <2>6. g2 = SortWords(g, o, n)
    BY <1>5 DEF SortEffect
  <2> HIDE DEF o, n
  <2>7. Reordered(g, SortWords(g, o, n), o, n)
    BY ONLY <1>1, <2>3, <2>5, SortReorders
  <2> QED
    BY <2>6, <2>7
<1>17. Len(g2) = Len(g) /\ g2 \in Seq(Nat)
  BY <1>16 DEF Reordered
<1> HIDE DEF x, k, P, U, I
<1>18. Written(t, g2, P, U \ {k}, pos)
  <2> DEFINE V == U \ {k}
  <2>1. V = U \ {k}
    OBVIOUS
  <2> HIDE DEF V
  <2>2. Reordered(g, g2, pos[k] + LiteralsAt(t[k]), Len(t[k].children))
    BY <1>16
  <2>3. P \subseteq Real(t)
    BY <1>6
  <2>4. Written(t, g2, P, V, pos)
    BY ONLY TreeFit(t), <1>1, <1>4, <1>6, <1>7, <1>8, <1>15, <2>1, <2>2, <2>3, WrittenSorted
  <2> QED
    BY <2>1, <2>4
<1>19. Allotted(t, g2, P, pos)
  BY <1>1, <1>17 DEF Allotted
<1>20. Built(t, w2, g2, rf, bs, lab2, pos)
  BY <1>1, <1>12, <1>14, <1>15, <1>18, <1>19 DEF Built
<1> QED
  BY <1>1, <1>17, <1>20 DEF Compiled

(* Where compilation starts: nothing is placed, the root is on the stack.  *)
LEMMA StartCompiled ==
    ASSUME NEW t, TreeFit(t)
    PROVE  \E lab, pos : Compiled(t, <<Node(Root, 0)>>, <<>>, <<>>, <<>>, lab, pos)
<1> DEFINE lab == <<Root>>
           pos == [x \in Real(t) |-> 0]
           I == Items(t)
           w == <<Node(Root, 0)>>
<1>1. Closed(I) /\ Root \in I
  BY ItemsClosed
<1>2. Rest(I, lab) = I /\ Apart(lab)
  BY <1>1, RestFacts
<1>3. Placed(t, lab) = {}
  BY <1>2 DEF Placed, Items
<1>4. lab \in Seq(I) /\ Len(lab) = 1 /\ lab[1] = Root
  BY <1>1
<1>5. w = [i \in 1..Len(lab) |-> Entry(t, pos, lab[i])]
  <2>1. Entry(t, pos, Root) = Node(Root, 0)
    BY DEF Entry
  <2> QED
    BY <1>4, <2>1
<1>6. Stacked(t, w, lab, pos)
  <2>1. \A i, j \in 1..Len(lab) : ~(i < j)
    BY <1>4
  <2> HIDE DEF lab, pos, w
  <2> QED
    BY <1>2, <1>4, <1>5, <2>1 DEF Stacked
<1>7. /\ SumFunctionOnSet(SizeF(t), {}) = 0 /\ SumFunctionOnSet(EndF(t), {}) = 0
  <2>1. /\ IsFiniteSet({}) /\ \A i \in {} : SizeF(t)[i] = 0 /\ EndF(t)[i] = 0
    BY FS_EmptySet
  <2> QED
    BY <2>1, SumZero
<1>8. Allotted(t, <<>>, {}, pos)
  BY <1>7 DEF Allotted
<1>9. Written(t, <<>>, {}, Unsorted(t, lab), pos)
  BY DEF Written
<1>10. Terminals(t, <<>>, <<>>, {}, pos)
  BY <1>7 DEF Terminals
<1>11. Built(t, w, <<>>, <<>>, <<>>, lab, pos)
  BY <1>3, <1>6, <1>8, <1>9, <1>10 DEF Built
<1>12. pos \in Spots(t)
  BY DEF Spots
<1> HIDE DEF lab, pos
<1> QED
  BY <1>11, <1>12 DEF Compiled

-----------------------------------------------------------------------------
(* The invariant of graph_compile, and what it says of the end.            *)

(* The inductive invariant: some items are on the stack, the others have   *)
(* their offsets.                                                          *)
CompileInv ==
    /\ phase \in {"stats", "compile", "done", "out_of_range"}
    /\ phase \in {"stats", "out_of_range"} => graph = <<>> /\ refs = <<>> /\ base = <<>>
    /\ phase \in {"compile", "done"} =>
          /\ stats.size <= MaxSize
          /\ \E lab, pos : Compiled(tree, work, graph, refs, base, lab, pos)
    /\ phase = "done" => work = <<>>

LEMMA CompileInit == GraphInit => CompileInv
BY DEF GraphInit, CompileInv

LEMMA SizeFits ==
    ASSUME CountInv, phase # "stats", stats.size <= MaxSize
    PROVE  TreeFit(tree) /\ SumFunctionOnSet(SizeF(tree), Real(tree)) <= MaxSize
BY TreesFit DEF CountInv, Totals

LEMMA CompileNext == CountInv /\ CompileInv /\ [GraphNext]_graphVars => CompileInv'
<1> SUFFICES ASSUME CountInv, CompileInv, [GraphNext]_graphVars PROVE CompileInv'
  OBVIOUS
<1>1. CASE CountSegment
  BY <1>1 DEF CountSegment, CompileInv
<1>2. CASE CheckRange
  <2>1. CASE phase' = "out_of_range"
    BY <1>2, <2>1 DEF CheckRange, CompileInv
  <2>2. CASE phase' # "out_of_range"
    <3>1. /\ phase = "stats" /\ work = <<>> /\ ~(stats.size > MaxSize)
          /\ phase' = "compile" /\ work' = <<Node(Root, 0)>>
          /\ tree' = tree /\ stats' = stats /\ graph' = <<>> /\ refs' = <<>> /\ base' = <<>>
      BY <1>2, <2>2 DEF CheckRange, CompileInv, Node
    <3>2. Totals(tree, stats) /\ TreeFit(tree)
      BY <3>1, TreesFit, CountedAll DEF CountInv
    <3>3. stats.size <= MaxSize
      BY <3>1, <3>2, GraphAssumption DEF Totals
    <3>4. \E lab, pos : Compiled(tree, <<Node(Root, 0)>>, <<>>, <<>>, <<>>, lab, pos)
      BY <3>2, StartCompiled
    <3>5. \E lab, pos : Compiled(tree', work', graph', refs', base', lab, pos)
      BY <3>1, <3>4
    <3> QED
      BY <3>1, <3>3, <3>5 DEF CompileInv
  <2> QED
    BY <2>1, <2>2
<1>3. CASE CompileNode
  <2>1. phase = "compile" /\ phase' = "compile" /\ tree' = tree /\ stats' = stats
    BY <1>3 DEF CompileNode
  <2>2. /\ stats.size <= MaxSize
        /\ TreeFit(tree) /\ SumFunctionOnSet(SizeF(tree), Real(tree)) <= MaxSize
    BY <2>1, SizeFits DEF CompileInv
  <2>3. PICK lab, pos : Compiled(tree, work, graph, refs, base, lab, pos)
    BY <2>1 DEF CompileInv
  <2>4. NodeEffect(tree, work, graph, refs, base, work', graph', refs', base')
    <3> DEFINE k == Head(work).seg
               s == tree[k]
    <3>1. /\ work # <<>> /\ Head(work).do = "node"
          /\ graph' = Link(graph, Head(work).edge) \o <<NodeWord(s)>> \o SpecialWords(tree, s) \o TrailingWords(s)
                      \o EdgeWords(tree, s)
      BY <1>3 DEF CompileNode, Link, Linking, Here, SpecialWords, TrailingWords, EdgeWords, ParamNames, LiteralNames,
                  ParNames, LitNames
    <3>2. /\ s.terminal # NULL => refs' = Append(refs, Narrow(Len(graph))) /\ base' = Append(base, s.terminal)
          /\ s.terminal = NULL => refs' = refs /\ base' = base
      BY <1>3 DEF CompileNode, AppendTerminal, Here
    <3>3. work' = LET first == Len(graph) + 1 + Len(SpecialWords(tree, s)) + Len(TrailingWords(s)) IN
                [i \in 1..Len(s.children) |-> Node(LitKid(k, s.children[i]), first + 2 * i - 1)]
                \o (IF Len(s.children) > 0 THEN <<Sort(first, Len(s.children))>> ELSE <<>>)
                \o (IF s.spec = "SPEC_PARAM" THEN <<Node(Append(k, Par(s.param)), Len(graph) + 2)>> ELSE <<>>)
                \o (IF s.spec = "SPEC_WILDCARD" THEN <<Leaf(s.wildcard, Len(graph) + 1)>> ELSE <<>>)
                \o (IF s.trailing # NULL
                    THEN <<Leaf(s.trailing, Len(graph) + 1 + Len(SpecialWords(tree, s)))>> ELSE <<>>)
                \o Tail(work)
      <4>1. k \in DOMAIN tree
        <5>1. Stacked(tree, work, lab, pos) /\ work # <<>> /\ Head(work).do = "node"
          BY <2>3, <3>1 DEF Compiled, Built
        <5>2. Head(work) = Entry(tree, pos, lab[1]) /\ lab[1] \in Items(tree)
          BY <2>2, <5>1, StackTop
        <5>3. lab[1] \in DOMAIN tree
          BY <2>2, <5>1, <5>2, EntryIs DEF Leaf, Sort, Items, Real
        <5> QED
          BY <2>2, <5>2, <5>3, EntryIs DEF Node
      <4>2. DOMAIN s.children = 1..Len(s.children)
        BY <2>2, <4>1, SegmentFacts
      <4> DEFINE first == Len(graph) + 1 + Len(SpecialWords(tree, s)) + Len(TrailingWords(s))
      <4>3. [i \in 1..Len(s.children) |-> Node(ChildPaths(k)[i], first + 2 * i - 1)]
            = [i \in 1..Len(s.children) |-> Node(LitKid(k, s.children[i]), first + 2 * i - 1)]
        <5>1. \A i \in 1..Len(s.children) : ChildPaths(k)[i] = LitKid(k, s.children[i])
          BY <4>2 DEF ChildPaths, LitKid
        <5> HIDE DEF first, s, k
        <5> QED
          BY ONLY <5>1
      <4>4. work' = [i \in 1..Len(s.children) |-> Node(ChildPaths(k)[i], first + 2 * i - 1)]
                \o (IF Len(s.children) > 0 THEN <<Sort(first, Len(s.children))>> ELSE <<>>)
                \o (IF s.spec = "SPEC_PARAM" THEN <<Node(Append(k, Par(s.param)), Len(graph) + 2)>> ELSE <<>>)
                \o (IF s.spec = "SPEC_WILDCARD" THEN <<Leaf(s.wildcard, Len(graph) + 1)>> ELSE <<>>)
                \o (IF s.trailing # NULL
                    THEN <<Leaf(s.trailing, Len(graph) + 1 + Len(SpecialWords(tree, s)))>> ELSE <<>>)
                \o Tail(work)
        BY <1>3, Zenon DEF CompileNode, SpecialWords, TrailingWords, ParamNames, ParNames, ParamPath, Here
      <4> HIDE DEF s, k
      <4> QED
        BY ONLY <4>3, <4>4, Zenon DEF first
    <3> QED
      BY <3>1, <3>2, <3>3 DEF NodeEffect
  <2>5. \E lab2, pos2 : Compiled(tree, work', graph', refs', base', lab2, pos2)
    BY <2>2, <2>3, <2>4, NodePlaced
  <2> QED
    BY <2>1, <2>2, <2>5 DEF CompileInv
<1>4. CASE CompileLeaf
  <2>1. phase = "compile" /\ phase' = "compile" /\ tree' = tree /\ stats' = stats
    BY <1>4 DEF CompileLeaf
  <2>2. /\ stats.size <= MaxSize
        /\ TreeFit(tree) /\ SumFunctionOnSet(SizeF(tree), Real(tree)) <= MaxSize
    BY <2>1, SizeFits DEF CompileInv
  <2>3. PICK lab, pos : Compiled(tree, work, graph, refs, base, lab, pos)
    BY <2>1 DEF CompileInv
  <2>4. LeafEffect(work, graph, refs, base, work', graph', refs', base')
    BY <1>4 DEF CompileLeaf, LeafEffect, Link, Linking, Here, AppendTerminal
  <2>5. \E lab2, pos2 : Compiled(tree, work', graph', refs', base', lab2, pos2)
    BY <2>2, <2>3, <2>4, LeafPlaced
  <2> QED
    BY <2>1, <2>2, <2>5 DEF CompileInv
<1>5. CASE SortEdges
  <2>1. phase = "compile" /\ phase' = "compile" /\ tree' = tree /\ stats' = stats /\ refs' = refs /\ base' = base
    BY <1>5 DEF SortEdges
  <2>2. stats.size <= MaxSize /\ TreeFit(tree)
    BY <2>1, SizeFits DEF CompileInv
  <2>3. PICK lab, pos : Compiled(tree, work, graph, refs, base, lab, pos)
    BY <2>1 DEF CompileInv
  <2>4. SortEffect(work, graph, work', graph')
    BY <1>5 DEF SortEdges, SortEffect, SortWords, WordPairs, Pairs
  <2>5. \E lab2, pos2 : Compiled(tree, work', graph', refs, base, lab2, pos2)
    BY <2>2, <2>3, <2>4, SortPlaced
  <2> QED
    BY <2>1, <2>2, <2>5 DEF CompileInv
<1>6. CASE CompileDone
  <2>1. /\ phase = "compile" /\ phase' = "done" /\ tree' = tree /\ stats' = stats /\ refs' = refs /\ base' = base
        /\ work' = work /\ graph' = graph /\ work = <<>>
    BY <1>6 DEF CompileDone
  <2> QED
    BY <2>1 DEF CompileInv
<1>7. CASE UNCHANGED graphVars
  BY <1>7 DEF CompileInv, graphVars
<1> QED
  BY <1>1, <1>2, <1>3, <1>4, <1>5, <1>6, <1>7 DEF GraphNext

(* The graph is well built at every step: nothing is written over or left  *)
(* out, no edge leads anywhere but to the node of its segment.             *)
THEOREM CompiledCorrect == GraphSpec => []CompileInv
<1> QED
  BY CompileInit, CompileNext, CountedCorrect, PTL DEF GraphSpec

(* Placed, then, is everything.                                            *)
LEMMA AllPlaced ==
    ASSUME NEW t, TreeFit(t), NEW g, NEW rf, NEW bs, NEW lab, NEW pos, Compiled(t, <<>>, g, rf, bs, lab, pos)
    PROVE  lab = <<>> /\ Placed(t, lab) = Real(t) /\ Unsorted(t, lab) = {}
<1>1. lab = <<>>
  BY StackTop DEF Compiled, Built
<1>2. Rest(Items(t), <<>>) = {}
  BY ItemsClosed, RestFacts
<1> QED
  BY <1>1, <1>2 DEF Placed, Unsorted

LEMMA FillsFacts ==
    ASSUME NEW t, TreeFit(t), NEW w, NEW g, NEW rf, NEW bs, NEW lab, NEW pos, Compiled(t, w, g, rf, bs, lab, pos),
           NEW st, Totals(t, st)
    PROVE  /\ Len(g) <= st.size /\ Len(rf) <= st.terminals
           /\ w = <<>> => Len(g) = st.size /\ Len(rf) = st.terminals
<1> DEFINE P == Placed(t, lab)
           R == Real(t)
           S == SizeF(t)
           E == EndF(t)
<1>1. /\ Len(g) = SumFunctionOnSet(S, P) /\ Len(rf) = SumFunctionOnSet(E, P)
      /\ st.size = SumFunctionOnSet(S, R) /\ st.terminals = SumFunctionOnSet(E, R)
  BY DEF Compiled, Built, Allotted, Terminals, Totals
<1>2. IsFiniteSet(R) /\ S \in [R -> Nat] /\ P \in SUBSET R
  BY Counts, SegWType DEF Placed
<1>3. E \in [R -> Nat]
  BY DEF EndF
<1>4. w = <<>> => P = R
  BY AllPlaced
<1> HIDE DEF P, R, S, E
<1>5. SumFunctionOnSet(S, P) <= SumFunctionOnSet(S, R)
  BY ONLY <1>2, SumPart
<1>6. SumFunctionOnSet(E, P) <= SumFunctionOnSet(E, R)
  BY ONLY <1>2, <1>3, SumPart
<1> QED
  BY <1>1, <1>4, <1>5, <1>6

(* The second traversal writes exactly the words and the terminals that    *)
(* the first one counted, for which wrouter_compile has allocated.         *)
THEOREM FillsAllocationCorrect == GraphSpec => []FillsAllocation
<1>1. CountInv /\ CompileInv => FillsAllocation
  <2> SUFFICES ASSUME CountInv, CompileInv, phase \in {"compile", "done"} PROVE FillsAllocation
    BY DEF FillsAllocation
  <2>1. PICK lab, pos : Compiled(tree, work, graph, refs, base, lab, pos)
    BY DEF CompileInv
  <2>2. TreeFit(tree) /\ Totals(tree, stats)
    BY TreesFit DEF CountInv
  <2>3. Len(graph) <= stats.size /\ Len(refs) <= stats.terminals
    BY <2>1, <2>2, FillsFacts
  <2>4. work = <<>> => Len(graph) = stats.size /\ Len(refs) = stats.terminals
    BY <2>1, <2>2, FillsFacts
  <2> QED
    BY <2>2, <2>3, <2>4 DEF FillsAllocation, Totals, CompileInv
<1> QED
  BY <1>1, CountedCorrect, CompiledCorrect, PTL

(* The terminals are in ascending order of their offsets at every step, as *)
(* the binary search of terminal_lookup needs them.                        *)
THEOREM TerminalsSortedCorrect == GraphSpec => []TerminalsSorted
<1>1. CompileInv => TerminalsSorted
  <2> SUFFICES ASSUME CompileInv PROVE TerminalsSorted
    OBVIOUS
  <2>1. CASE phase \in {"stats", "out_of_range"}
    BY <2>1 DEF CompileInv, TerminalsSorted
  <2>2. CASE phase \in {"compile", "done"}
    BY <2>2 DEF CompileInv, Compiled, Built, Terminals, TerminalsSorted
  <2> QED
    BY <2>1, <2>2 DEF CompileInv
<1> QED
  BY <1>1, CompiledCorrect, PTL
=============================================================================
