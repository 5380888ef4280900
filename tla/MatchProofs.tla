----------------------------- MODULE MatchProofs ----------------------------
(***************************************************************************)
(* Theorems about the compiled graph as route_match reads it, and about    *)
(* the answers of route_match, for all sound trees, all request paths and  *)
(* any number of dispatchers.                                              *)
(* Part 1: the searches find, and what is read at the offset of a segment  *)
(*   is what the tree says of it: the graph is the tree.                   *)
(* Part 2: a tree and a path, without any steps. From a segment at most    *)
(*   one child fits a literal, so a path leads one way into the tree.      *)
(*   Where that way ends decides which routes fit and cover the path.      *)
(* Part 3: the steps. A request is always at a segment on the way of its   *)
(*   path, with the parameters of that way bound and the last wildcard on  *)
(*   it remembered; so it ends where the way ends.                         *)
(***************************************************************************)
EXTENDS GraphProofs, Match

-----------------------------------------------------------------------------
(* Part 1. The two searches, of terminal.c and of route_match.             *)

(* What a search of ascending keys must find.                              *)
Position(keys, v, low, high, r) ==
    \/ r \in (low + 1)..high /\ keys[r] = v
    \/ r = 0 /\ \A i \in (low + 1)..high : keys[i] # v
Increasing(keys) == \A i, j \in 1..Len(keys) : i < j => keys[i] < keys[j]

(* The binary search, as a function of the range.                          *)
Halve(keys, v, F, range) ==
    LET low == range[1]
        high == range[2]
        mid == low + (high - low) \div 2
    IN  IF low >= high THEN 0
        ELSE IF v < keys[mid + 1] THEN F[<<low, mid>>]
        ELSE IF v > keys[mid + 1] THEN F[<<mid + 1, high>>]
        ELSE mid + 1
Bisects(keys, v, F) == F = [range \in (0..Len(keys)) \X (0..Len(keys)) |-> Halve(keys, v, F, range)]

(* One halving step, given what the two halves find.                       *)
LEMMA HalveIs ==
    ASSUME NEW keys, keys \in Seq(Nat), Increasing(keys), NEW v, v \in Nat, NEW F,
           NEW low, low \in 0..Len(keys), NEW high, high \in 0..Len(keys),
           \A a, b \in 0..Len(keys) : (b - a < high - low) => Position(keys, v, a, b, F[<<a, b>>])
    PROVE  Position(keys, v, low, high, Halve(keys, v, F, <<low, high>>))
<1> DEFINE n == Len(keys)
           mid == low + (high - low) \div 2
           r == Halve(keys, v, F, <<low, high>>)
<1>1. n \in Nat /\ (\A i \in 1..n : keys[i] \in Nat) /\ \A i, j \in 1..n : i < j => keys[i] < keys[j]
  BY DEF Increasing
<1>2. r = IF low >= high THEN 0
          ELSE IF v < keys[mid + 1] THEN F[<<low, mid>>]
          ELSE IF v > keys[mid + 1] THEN F[<<mid + 1, high>>]
          ELSE mid + 1
  BY DEF Halve
<1> SUFFICES Position(keys, v, low, high, r)
  OBVIOUS
<1> HIDE DEF r
<1>3. CASE low >= high
  <2>1. r = 0 /\ \A i \in (low + 1)..high : FALSE
    BY <1>1, <1>2, <1>3
  <2> QED
    BY ONLY <2>1 DEF Position
<1>4. CASE low < high
  <2>1. mid \in 0..n /\ low <= mid /\ mid < high
    BY <1>1, <1>4
  <2> HIDE DEF mid
  <2>2. mid + 1 \in 1..n /\ mid + 1 \in 0..n /\ mid - low < high - low /\ high - (mid + 1) < high - low
    BY <1>1, <1>4, <2>1
  <2>3. CASE v < keys[mid + 1]
    <3>1. r = F[<<low, mid>>]
      BY <1>2, <1>4, <2>3
    <3>2. Position(keys, v, low, mid, F[<<low, mid>>])
      BY ONLY <2>1, <2>2, low \in 0..Len(keys),
              \A a, b \in 0..Len(keys) : (b - a < high - low) => Position(keys, v, a, b, F[<<a, b>>]) DEF n
    <3>3. \A i \in (low + 1)..high : keys[i] = v => i \in (low + 1)..mid
      <4> TAKE i \in (low + 1)..high
      <4> HAVE keys[i] = v
      <4>1. i \in 1..n
        BY <1>1
      <4>2. ~(mid + 1 < i) /\ i # mid + 1
        BY <1>1, <2>2, <2>3, <4>1
      <4> QED
        BY <2>1, <4>1, <4>2
    <3>4. \A i \in (low + 1)..mid : i \in (low + 1)..high
      BY <2>1
    <3> QED
      BY ONLY <3>1, <3>2, <3>3, <3>4 DEF Position
  <2>4. CASE v > keys[mid + 1]
    <3>1. r = F[<<mid + 1, high>>]
      BY <1>1, <1>2, <1>4, <2>2, <2>4
    <3>2. Position(keys, v, mid + 1, high, F[<<mid + 1, high>>])
      BY ONLY <2>1, <2>2, high \in 0..Len(keys),
              \A a, b \in 0..Len(keys) : (b - a < high - low) => Position(keys, v, a, b, F[<<a, b>>]) DEF n
    <3>3. \A i \in (low + 1)..high : keys[i] = v => i \in (mid + 1 + 1)..high
      <4> TAKE i \in (low + 1)..high
      <4> HAVE keys[i] = v
      <4>1. i \in 1..n
        BY <1>1
      <4>2. ~(i < mid + 1) /\ i # mid + 1
        <5>1. keys[i] \in Nat /\ keys[mid + 1] \in Nat /\ (i < mid + 1 => keys[i] < keys[mid + 1])
          BY <1>1, <2>2, <4>1
        <5> QED
          BY <2>4, <5>1
      <4> QED
        BY <2>1, <4>1, <4>2
    <3>4. \A i \in (mid + 1 + 1)..high : i \in (low + 1)..high
      BY <2>1
    <3> QED
      BY ONLY <3>1, <3>2, <3>3, <3>4 DEF Position
  <2>5. CASE v = keys[mid + 1]
    <3>1. r = mid + 1
      BY <1>1, <1>2, <1>4, <2>2, <2>5
    <3>2. mid + 1 \in (low + 1)..high
      BY <2>1
    <3> QED
      BY <2>5, <3>1, <3>2 DEF Position
  <2> QED
    BY <1>1, <2>2, <2>3, <2>4, <2>5
<1> QED
  BY <1>1, <1>3, <1>4

(* What is found at one place only is found exactly.                       *)
LEMMA PositionUnique ==
    ASSUME NEW keys, keys \in Seq(Nat), Increasing(keys), NEW v, NEW low, low \in 0..Len(keys),
           NEW high, high \in 0..Len(keys), NEW a, Position(keys, v, low, high, a),
           NEW b, Position(keys, v, low, high, b)
    PROVE  a = b
<1>1. Len(keys) \in Nat /\ \A i \in 1..Len(keys) : keys[i] \in Nat
  OBVIOUS
<1>2. ASSUME NEW c \in (low + 1)..high, keys[c] = v, NEW d \in (low + 1)..high, keys[d] = v PROVE c = d
  <2>1. c \in 1..Len(keys) /\ d \in 1..Len(keys)
    BY <1>1
  <2>2. ~(c < d) /\ ~(d < c)
    BY <1>1, <1>2, <2>1 DEF Increasing
  <2> QED
    BY <2>1, <2>2
<1> QED
  BY <1>2 DEF Position

(* The recursion has a solution, and every solution finds what it should.  *)
LEMMA BisectsExist ==
    ASSUME NEW keys, keys \in Seq(Nat), Increasing(keys), NEW v, v \in Nat
    PROVE  \E F : Bisects(keys, v, F)
<1> DEFINE n == Len(keys)
           Is(a, b, r) == Position(keys, v, a, b, r)
           F == [range \in (0..n) \X (0..n) |-> CHOOSE r : Is(range[1], range[2], r)]
<1>1. \A a, b \in 0..n : Is(a, b, F[<<a, b>>])
  <2> TAKE a, b \in 0..n
  <2>1. \E r : Is(a, b, r)
    <3>1. CASE \E i \in (a + 1)..b : keys[i] = v
      BY <3>1 DEF Position
    <3>2. CASE ~\E i \in (a + 1)..b : keys[i] = v
      BY <3>2 DEF Position
    <3> QED
      BY <3>1, <3>2
  <2> HIDE DEF Is
  <2>2. F[<<a, b>>] = CHOOSE r : Is(a, b, r)
    OBVIOUS
  <2> HIDE DEF F
  <2>3. Is(a, b, CHOOSE r : Is(a, b, r))
    BY ONLY <2>1
  <2> QED
    BY ONLY <2>2, <2>3
<1> HIDE DEF F
<1>2. ASSUME NEW range \in (0..n) \X (0..n) PROVE F[range] = Halve(keys, v, F, range)
  <2>1. PICK a \in 0..n, b \in 0..n : range = <<a, b>>
    OBVIOUS
  <2>2. \A c, d \in 0..n : (d - c < b - a) => Position(keys, v, c, d, F[<<c, d>>])
    BY <1>1
  <2>3. Position(keys, v, a, b, Halve(keys, v, F, <<a, b>>))
    BY <2>2, HalveIs
  <2>4. Position(keys, v, a, b, F[<<a, b>>])
    BY <1>1
  <2>5. F[<<a, b>>] = Halve(keys, v, F, <<a, b>>)
    BY <2>3, <2>4, PositionUnique
  <2> QED
    BY <2>1, <2>5
<1>3. F = [range \in (0..n) \X (0..n) |-> F[range]]
  BY DEF F
<1>4. Bisects(keys, v, F)
  BY <1>2, <1>3 DEF Bisects
<1> QED
  BY <1>4

LEMMA BisectsFind ==
    ASSUME NEW keys, keys \in Seq(Nat), Increasing(keys), NEW v, v \in Nat, NEW F, Bisects(keys, v, F),
           NEW low, low \in 0..Len(keys), NEW high, high \in 0..Len(keys)
    PROVE  Position(keys, v, low, high, F[<<low, high>>])
<1> DEFINE n == Len(keys)
           S == {m \in Nat : \A a, b \in 0..n : b - a < m => Position(keys, v, a, b, F[<<a, b>>])}
<1>1. n \in Nat /\ \A a, b \in 0..n : F[<<a, b>>] = Halve(keys, v, F, <<a, b>>)
  <2>1. n \in Nat
    OBVIOUS
  <2>2. F = [range \in (0..n) \X (0..n) |-> Halve(keys, v, F, range)]
    BY Zenon DEF Bisects
  <2> HIDE DEF n
  <2>3. ASSUME NEW a \in 0..n, NEW b \in 0..n PROVE F[<<a, b>>] = Halve(keys, v, F, <<a, b>>)
    <3>1. <<a, b>> \in (0..n) \X (0..n)
      OBVIOUS
    <3> QED
      BY <2>2, <3>1, Zenon
  <2> QED
    BY <2>1, <2>3
<1>2. ASSUME NEW m \in Nat, \A a, b \in 0..n : b - a < m => Position(keys, v, a, b, F[<<a, b>>]),
             NEW a \in 0..n, NEW b \in 0..n, b - a <= m
      PROVE  Position(keys, v, a, b, F[<<a, b>>])
  <2>1. \A c, d \in 0..n : d - c < b - a => Position(keys, v, c, d, F[<<c, d>>])
    <3> TAKE c, d \in 0..n
    <3> HAVE d - c < b - a
    <3>1. d - c < m
      BY <1>2
    <3> QED
      BY <1>2, <3>1
  <2>2. Position(keys, v, a, b, Halve(keys, v, F, <<a, b>>))
    BY <2>1, HalveIs
  <2> QED
    BY <1>1, <2>2
<1>3. 0 \in S
  <2> SUFFICES ASSUME NEW a \in 0..n, NEW b \in 0..n, b - a < 0 PROVE Position(keys, v, a, b, F[<<a, b>>])
    OBVIOUS
  <2>1. a >= b /\ \A i \in (a + 1)..b : FALSE
    BY <1>1
  <2>2. F[<<a, b>>] = 0
    BY <1>1, <2>1 DEF Halve
  <2> QED
    BY <2>1, <2>2 DEF Position
<1>4. ASSUME NEW m \in S PROVE m + 1 \in S
  <2>1. m \in Nat /\ \A a, b \in 0..n : b - a < m => Position(keys, v, a, b, F[<<a, b>>])
    BY <1>4
  <2>2. \A a, b \in 0..n : b - a < m + 1 => Position(keys, v, a, b, F[<<a, b>>])
    <3> TAKE a, b \in 0..n
    <3> HAVE b - a < m + 1
    <3>1. b - a <= m
      BY <1>1, <2>1
    <3> QED
      BY <1>2, <2>1, <3>1
  <2> QED
    BY <2>1, <2>2
<1>5. S = Nat
  <2> HIDE DEF S
  <2>1. S \subseteq Nat
    BY DEF S
  <2> QED
    BY <1>3, <1>4, <2>1, Induction
<1>6. n + 1 \in S
  <2> HIDE DEF S
  <2> QED
    BY <1>1, <1>5
<1>7. high - low < n + 1
  BY <1>1
<1>8. \A a, b \in 0..n : b - a < n + 1 => Position(keys, v, a, b, F[<<a, b>>])
  BY <1>6
<1> HIDE DEF S
<1> QED
  BY <1>7, <1>8

(* Both searches find the key if it is there.                              *)
LEMMA SearchFinds ==
    ASSUME NEW keys, keys \in Seq(Nat), Increasing(keys), NEW v, v \in Nat
    PROVE  Position(keys, v, 0, Len(keys), Search(keys, v))
<1> DEFINE n == Len(keys)
           F == CHOOSE f : Bisects(keys, v, f)
           hits == {i \in 1..n : keys[i] = v}
           s == Search(keys, v)
<1>1. n \in Nat /\ 0 \in 0..n /\ n \in 0..n
  OBVIOUS
<1>2. Bisects(keys, v, F)
  BY BisectsExist
<1>3. s = IF n > LinearSearch THEN F[<<0, n>>] ELSE IF hits = {} THEN 0 ELSE Min(hits)
  BY Zenon DEF Search, Bisects, Halve
<1>4. Position(keys, v, 0, n, F[<<0, n>>])
  <2> HIDE DEF F
  <2> QED
    BY <1>1, <1>2, BisectsFind
<1> HIDE DEF s, F
<1>5. CASE n > LinearSearch
  BY <1>3, <1>4, <1>5 DEF s
<1>6. CASE ~(n > LinearSearch) /\ hits = {}
  <2>1. s = 0 /\ ~\E i \in (0 + 1)..n : keys[i] = v
    BY <1>3, <1>6
  <2> QED
    BY <2>1 DEF Position, s
<1>7. CASE ~(n > LinearSearch) /\ hits # {}
  <2>1. PICK m \in hits : \A j \in hits : m <= j
    <3>1. hits \subseteq Nat
      BY <1>1
    <3> HIDE DEF hits
    <3> QED
      BY <1>7, <3>1, LeastNat
  <2>2. Min(hits) \in hits
    BY <2>1 DEF Min
  <2>3. s \in 1..n /\ keys[s] = v
    BY <1>3, <1>7, <2>2
  <2>4. s \in (0 + 1)..n
    BY <2>3
  <2> QED
    BY <2>3, <2>4 DEF Position, s
<1> QED
  BY <1>5, <1>6, <1>7

-----------------------------------------------------------------------------
(* The finished graph, read at the offset of a segment.                    *)

(* The bits of a node word.                                                *)
LEMMA WordBits ==
    ASSUME NEW n \in Nat, n < 4096, NEW a \in {0, 1}, NEW b \in {0, 1}, NEW c \in {0, 1}, NEW d \in {0, 1},
           NEW w, w = n + 4096 * a + 8192 * b + 16384 * c + 32768 * d
    PROVE  /\ w % 4096 = n
           /\ (w \div 4096) % 2 = a
           /\ (w \div 8192) % 2 = b
           /\ (w \div 16384) % 2 = c
           /\ (w \div 32768) % 2 = d
<1>1. w % 4096 = n
  OBVIOUS
<1>2. w \div 4096 = a + 2 * b + 4 * c + 8 * d
  OBVIOUS
<1>3. w \div 8192 = b + 2 * c + 4 * d
  OBVIOUS
<1>4. w \div 16384 = c + 2 * d
  OBVIOUS
<1>5. w \div 32768 = d
  OBVIOUS
<1>6. (a + 2 * b + 4 * c + 8 * d) % 2 = a /\ (b + 2 * c + 4 * d) % 2 = b /\ (c + 2 * d) % 2 = c /\ d % 2 = d
  OBVIOUS
<1> QED
  BY ONLY <1>1, <1>2, <1>3, <1>4, <1>5, <1>6

(* A node word and its segment.                                            *)
WordSays(w, s) ==
    /\ LiteralCount(w) = Len(s.children)
    /\ HasFlag(w, FLAG_TERMINAL) <=> s.terminal # NULL
    /\ HasFlag(w, FLAG_PARAM) <=> s.spec = "SPEC_PARAM"
    /\ HasFlag(w, FLAG_WILDCARD) <=> s.spec = "SPEC_WILDCARD"
    /\ HasFlag(w, FLAG_TRAILING) <=> s.trailing # NULL

LEMMA NodeWordSays ==
    ASSUME NEW t, TreeFit(t), NEW k, k \in DOMAIN t
    PROVE  WordSays(NodeWord(t[k]), t[k])
<1> DEFINE s == t[k]
           n == Len(s.children)
           w == NodeWord(s)
           a == IF s.terminal # NULL THEN 1 ELSE 0
           b == IF s.spec = "SPEC_PARAM" THEN 1 ELSE 0
           c == IF s.spec = "SPEC_WILDCARD" THEN 1 ELSE 0
           d == IF s.trailing # NULL THEN 1 ELSE 0
<1>1. n \in Nat /\ n < 4096
  <2>1. n \in Nat /\ n <= MaxChildren /\ MaxChildren < FLAG_TERMINAL /\ MaxChildren \in Nat
    BY SegmentFacts, GraphAssumption, TreeAssumption DEF TreeFit
  <2> HIDE DEF n
  <2> QED
    BY <2>1 DEF FLAG_TERMINAL
<1>2. a \in {0, 1} /\ b \in {0, 1} /\ c \in {0, 1} /\ d \in {0, 1}
  OBVIOUS
<1>3. /\ Flag(FLAG_TERMINAL, s.terminal # NULL) = 4096 * a
      /\ Flag(FLAG_PARAM, s.spec = "SPEC_PARAM") = 8192 * b
      /\ Flag(FLAG_WILDCARD, s.spec = "SPEC_WILDCARD") = 16384 * c
      /\ Flag(FLAG_TRAILING, s.trailing # NULL) = 32768 * d
  BY DEF Flag, FLAG_TERMINAL, FLAG_PARAM, FLAG_WILDCARD, FLAG_TRAILING
<1>4. w = n + 4096 * a + 8192 * b + 16384 * c + 32768 * d
  <2>1. w = n + Flag(FLAG_TERMINAL, s.terminal # NULL) + Flag(FLAG_PARAM, s.spec = "SPEC_PARAM")
            + Flag(FLAG_WILDCARD, s.spec = "SPEC_WILDCARD") + Flag(FLAG_TRAILING, s.trailing # NULL)
    BY DEF NodeWord
  <2> HIDE DEF w, n, a, b, c, d
  <2> QED
    BY ONLY <1>3, <2>1
<1>5. /\ s.terminal # NULL <=> a = 1
      /\ s.spec = "SPEC_PARAM" <=> b = 1
      /\ s.spec = "SPEC_WILDCARD" <=> c = 1
      /\ s.trailing # NULL <=> d = 1
  OBVIOUS
<1> HIDE DEF n, w, a, b, c, d
<1>6. /\ w % 4096 = n
      /\ (w \div 4096) % 2 = a
      /\ (w \div 8192) % 2 = b
      /\ (w \div 16384) % 2 = c
      /\ (w \div 32768) % 2 = d
  BY ONLY <1>1, <1>2, <1>4, WordBits
<1>7. /\ LiteralCount(w) = n
      /\ HasFlag(w, FLAG_TERMINAL) <=> a = 1
      /\ HasFlag(w, FLAG_PARAM) <=> b = 1
      /\ HasFlag(w, FLAG_WILDCARD) <=> c = 1
      /\ HasFlag(w, FLAG_TRAILING) <=> d = 1
  BY ONLY <1>6 DEF LiteralCount, HasFlag, FLAG_TERMINAL, FLAG_PARAM, FLAG_WILDCARD, FLAG_TRAILING
<1> QED
  BY ONLY <1>5, <1>7 DEF WordSays, w, n

(* The finished graph, read at the positions of the tree's items.          *)
Complete(t, pos) ==
    /\ pos \in Spots(t) /\ graph \in Seq(Nat) /\ refs \in Seq(Nat) /\ base \in Seq(Holders)
    /\ Allotted(t, graph, Real(t), pos) /\ Written(t, graph, Real(t), {}, pos)
    /\ Terminals(t, refs, base, Real(t), pos)

(* What the accessors of the graph read at the node of segment k.          *)
Parts(t, pos, k, o) ==
    /\ WordSays(Word(o), t[k])
    /\ SpecialSize(o) = SpecialLen(t[k]) /\ LiteralBase(o) = o + LiteralsAt(t[k])
    /\ t[k].spec = "SPEC_PARAM" => /\ ParamSymbol(o) = Resolve(ParNames(t), t[k].param)
                                   /\ ParamEdge(o) = pos[Append(k, Par(t[k].param))]
    /\ t[k].spec = "SPEC_WILDCARD" => WildcardEdge(o) = pos[Append(k, Wildcard)]
    /\ t[k].trailing # NULL => TrailingEdge(o) = pos[Append(k, Trailing)]
    /\ \A i \in 1..Len(t[k].children) : /\ EdgeSymbol(o, i) = SymAt(graph, o, t[k], i)
                                        /\ EdgeTarget(o, i) = TgtAt(graph, o, t[k], i)

LEMMA PartsRead ==
    ASSUME NEW t, TreeFit(t), NEW pos, Complete(t, pos), NEW k, k \in DOMAIN t, NEW o, o = pos[k]
    PROVE  Parts(t, pos, k, o)
<1> DEFINE s == t[k]
           L == LiteralsAt(s)
           n == Len(s.children)
           z == SpecialLen(s)
<1>1. /\ k \in Real(t) /\ L \in Nat /\ n \in Nat /\ z \in {0, 1, 2}
      /\ (s.trailing # NULL => L = 2 + z) /\ (s.trailing = NULL => L = 1 + z)
      /\ (s.spec = "SPEC_PARAM" => z = 2) /\ (s.spec = "SPEC_WILDCARD" => z = 1) /\ (s.spec = "SPEC_NONE" => z = 0)
      /\ s.spec \in {"SPEC_NONE", "SPEC_PARAM", "SPEC_WILDCARD"}
  BY SegShape, SegmentFacts
<1>2. o \in Nat
  BY <1>1 DEF Complete, Spots
<1>3. Word(o) = NodeWord(s)
  BY <1>1 DEF Complete, Written, Word
<1>4. WordSays(Word(o), s)
  BY <1>3, NodeWordSays
<1>5. \A x \in Real(t) : (x # Root /\ Front(x) = k /\ Last(x) \notin Literals) =>
         graph[o + EdgeAt(s, Last(x)) + 1] = pos[x]
  BY DEF Complete, Written
<1>6. k \in Seq(Token) /\ Wildcard \in Token /\ Trailing \in Token
      /\ Wildcard \notin Literals /\ Trailing \notin Literals
  BY SegmentFacts, TokenKinds
<1>7. SpecialSize(o) = z
  BY <1>1, <1>4 DEF WordSays, SpecialSize, SpecialLen
<1>8. LiteralBase(o) = o + L
  <2>1. Flag(1, HasFlag(Word(o), FLAG_TRAILING)) = IF s.trailing # NULL THEN 1 ELSE 0
    BY <1>4 DEF WordSays, Flag
  <2> HIDE DEF L, z, s
  <2>2. LiteralBase(o) = o + 1 + z + IF s.trailing # NULL THEN 1 ELSE 0
    BY <1>7, <2>1 DEF LiteralBase
  <2>3. CASE s.trailing # NULL
    BY <1>1, <1>2, <2>2, <2>3
  <2>4. CASE s.trailing = NULL
    BY <1>1, <1>2, <2>2, <2>4
  <2> QED
    BY <2>3, <2>4
<1>9. ASSUME s.spec = "SPEC_PARAM"
      PROVE  ParamSymbol(o) = Resolve(ParNames(t), s.param) /\ ParamEdge(o) = pos[Append(k, Par(s.param))]
  <2> DEFINE c == Append(k, Par(s.param))
  <2>1. graph[o + 2] = Resolve(ParNames(t), s.param)
    BY <1>1, <1>9 DEF Complete, Written
  <2>2. c \in DOMAIN t /\ s.param \in Names
    BY <1>9, SegmentFacts
  <2>3. Par(s.param) \in Params /\ Par(s.param) \in Token /\ Par(s.param) \notin Literals
    BY <2>2, TokenKinds
  <2>4. c \in Real(t) /\ c # Root /\ Front(c) = k /\ Last(c) = Par(s.param)
    BY <1>6, <2>2, <2>3, AppendOf DEF Real, Root
  <2>5. EdgeAt(s, Par(s.param)) = 2
    BY <2>3 DEF EdgeAt
  <2> HIDE DEF c, s
  <2>6. graph[o + 2 + 1] = pos[c]
    BY <1>5, <2>3, <2>4, <2>5
  <2>7. o + 1 + 1 = o + 2
    BY <1>2
  <2> QED
    BY <2>1, <2>6, <2>7 DEF ParamSymbol, ParamEdge, Word, c
<1>10. ASSUME s.spec = "SPEC_WILDCARD" PROVE WildcardEdge(o) = pos[Append(k, Wildcard)]
  <2> DEFINE c == Append(k, Wildcard)
  <2>1. s.wildcard # NULL
    BY <1>10, SegmentFacts
  <2>2. c \in Real(t) /\ c # Root /\ Front(c) = k /\ Last(c) = Wildcard
    BY <1>6, <2>1, AppendOf DEF Real, Leaves, WithWildcard, Root
  <2>3. EdgeAt(s, Wildcard) = 1
    BY TokenKinds DEF EdgeAt, Step
  <2> HIDE DEF c, s
  <2>4. graph[o + 1 + 1] = pos[c]
    BY <1>5, <1>6, <2>2, <2>3
  <2> QED
    BY <2>4 DEF WildcardEdge, Word, c
<1>11. ASSUME s.trailing # NULL PROVE TrailingEdge(o) = pos[Append(k, Trailing)]
  <2> DEFINE c == Append(k, Trailing)
  <2>1. c \in Real(t) /\ c # Root /\ Front(c) = k /\ Last(c) = Trailing
    BY <1>6, <1>11, AppendOf DEF Real, Leaves, WithTrailing, Root
  <2>2. EdgeAt(s, Trailing) = 1 + z
    BY TokenKinds DEF EdgeAt, Step
  <2> HIDE DEF c, s, z
  <2>3. graph[o + (1 + z) + 1] = pos[c]
    BY <1>5, <1>6, <2>1, <2>2
  <2>4. o + 1 + z = o + (1 + z)
    BY <1>1, <1>2
  <2> QED
    BY <1>7, <2>3, <2>4 DEF TrailingEdge, Word, c
<1>12. ASSUME NEW i \in 1..n
       PROVE  EdgeSymbol(o, i) = SymAt(graph, o, s, i) /\ EdgeTarget(o, i) = TgtAt(graph, o, s, i)
  <2> HIDE DEF n, L, s
  <2>1. /\ o + L + 2 * (i - 1) + 1 = o + L + 2 * i - 1
        /\ o + L + 2 * (i - 1) + 1 + 1 = o + L + 2 * i
    BY <1>1, <1>2
  <2> QED
    BY <1>8, <2>1 DEF EdgeSymbol, EdgeTarget, SymAt, TgtAt, Word, L
<1> QED
  BY <1>4, <1>7, <1>8, <1>9, <1>10, <1>11, <1>12 DEF Parts

(* Its literal edges.                                                      *)
EdgePair(t, pos, k, o, i, j) ==
    /\ EdgeSymbol(o, i) = Resolve(LitNames(t), t[k].children[j])
    /\ EdgeTarget(o, i) = pos[LitKid(k, t[k].children[j])]
Edges(t, pos, k, o) ==
    /\ \A i \in 1..Len(t[k].children) : EdgeSymbol(o, i) \in Nat
    /\ \A i, j \in 1..Len(t[k].children) : i < j => EdgeSymbol(o, i) < EdgeSymbol(o, j)
    /\ \A j \in 1..Len(t[k].children) : \E i \in 1..Len(t[k].children) : EdgePair(t, pos, k, o, i, j)
    /\ \A i \in 1..Len(t[k].children) : \E j \in 1..Len(t[k].children) : EdgePair(t, pos, k, o, i, j)

LEMMA EdgesRead ==
    ASSUME NEW t, TreeFit(t), NEW pos, Complete(t, pos), NEW k, k \in DOMAIN t, NEW o, o = pos[k]
    PROVE  Edges(t, pos, k, o)
<1> DEFINE n == Len(t[k].children)
           ch == t[k].children
<1>1. k \in Real(t)
  BY SegShape
<1>2. SortedEdges(t, graph, k, pos)
  BY <1>1 DEF Complete, Written
<1>3. \A i \in 1..n : EdgeSymbol(o, i) = SymAt(graph, o, t[k], i) /\ EdgeTarget(o, i) = TgtAt(graph, o, t[k], i)
  BY PartsRead DEF Parts
<1>4. \A j \in 1..n : \E i \in 1..n : EdgePair(t, pos, k, o, i, j)
  BY <1>2, <1>3 DEF SortedEdges, EdgePair
<1>5. \A i \in 1..n : \E j \in 1..n : EdgePair(t, pos, k, o, i, j)
  BY <1>2, <1>3 DEF SortedEdges, EdgePair
<1>6. \A i, j \in 1..n : i < j => EdgeSymbol(o, i) < EdgeSymbol(o, j)
  BY <1>2, <1>3 DEF SortedEdges
<1>7. \A i \in 1..n : EdgeSymbol(o, i) \in Nat
  <2>1. \A m : Resolve(LitNames(t), m) \in Nat
    BY NamesFinite, ResolveFacts
  <2> QED
    BY <1>5, <2>1 DEF EdgePair
<1> QED
  BY <1>4, <1>5, <1>6, <1>7 DEF Edges

(* A position is taken by one item.                                        *)
LEMMA SpotsApart ==
    ASSUME NEW t, TreeFit(t), NEW pos, Complete(t, pos)
    PROVE  /\ \A x \in Real(t) : pos[x] \in Nat
           /\ \A x, y \in Real(t) : pos[x] = pos[y] => x = y
<1>1. Disjoint(t, graph, Real(t), pos)
  <2>1. Len(graph) \in Nat /\ Real(t) \subseteq Real(t)
    BY DEF Complete
  <2> QED
    BY <2>1, Regions DEF Complete
<1>2. \A x \in Real(t) : pos[x] \in Nat
  BY DEF Complete, Spots
<1>3. \A x \in Real(t) : 0 \in 0..(SizeF(t)[x] - 1)
  <2> TAKE x \in Real(t)
  <2>1. CASE x \in DOMAIN t
    <3>1. SizeF(t)[x] \in Nat /\ SizeF(t)[x] >= 1
      <4> DEFINE L == LiteralsAt(t[x])
                 n == Len(t[x].children)
      <4>1. L \in Nat /\ n \in Nat /\ L >= 1 + SpecialLen(t[x]) /\ SpecialLen(t[x]) \in {0, 1, 2}
            /\ SizeF(t)[x] = L + 2 * n
        BY <2>1, SegShape
      <4> DEFINE z == SpecialLen(t[x])
                 S == SizeF(t)[x]
      <4>2. L \in Nat /\ n \in Nat /\ L >= 1 + z /\ z \in {0, 1, 2} /\ S = L + 2 * n
        BY <4>1
      <4> HIDE DEF L, n, z, S
      <4>3. S \in Nat /\ S >= 1
        BY ONLY <4>2
      <4> QED
        BY <4>3 DEF S
    <3> QED
      BY <3>1
  <2>2. CASE x \notin DOMAIN t
    BY <2>2 DEF SizeF
  <2> QED
    BY <2>1, <2>2
<1>4. \A x, y \in Real(t) : pos[x] = pos[y] => x = y
  <2> TAKE x, y \in Real(t)
  <2> HAVE pos[x] = pos[y]
  <2>1. pos[x] + 0 + 1 = pos[y] + 0 + 1
    OBVIOUS
  <2> QED
    BY <1>1, <1>3, <2>1 DEF Disjoint
<1> QED
  BY <1>2, <1>4

LooksUp(t, pos, x) == Lookup(pos[x]) = IF x \in Ends(t) THEN ContextOf(t, x) ELSE NULL

LEMMA LookupFinds ==
    ASSUME NEW t, TreeFit(t), NEW pos, Complete(t, pos), NEW x, x \in Real(t)
    PROVE  LooksUp(t, pos, x)
<1> DEFINE v == pos[x]
           n == Len(refs)
           i == Search(refs, v)
<1>1. v \in Nat /\ \A y \in Real(t) : pos[y] = v => y = x
  BY SpotsApart
<1>2. /\ refs \in Seq(Nat) /\ base \in Seq(Holders) /\ n \in Nat /\ Len(base) = n
      /\ \A a, b \in 1..n : a < b => refs[a] < refs[b]
      /\ \A a \in 1..n : \E y \in Real(t) \cap Ends(t) : refs[a] = pos[y] /\ base[a] = ContextOf(t, y)
      /\ \A y \in Real(t) \cap Ends(t) : \E a \in 1..n : refs[a] = pos[y]
  BY DEF Complete, Terminals
<1>3. Increasing(refs)
  BY <1>2 DEF Increasing
<1>4. Position(refs, v, 0, n, i)
  BY <1>1, <1>2, <1>3, SearchFinds
<1>5. Lookup(v) = IF i = 0 THEN NULL ELSE base[i]
  BY DEF Lookup
<1> HIDE DEF v, i
<1>6. CASE i \in (0 + 1)..n /\ refs[i] = v
  <2>1. i \in 1..n /\ i # 0
    BY <1>2, <1>6
  <2>2. PICK y \in Real(t) \cap Ends(t) : refs[i] = pos[y] /\ base[i] = ContextOf(t, y)
    BY <1>2, <2>1
  <2>3. y = x
    BY <1>1, <1>6, <2>2
  <2> QED
    BY <1>5, <2>1, <2>2, <2>3 DEF LooksUp, v
<1>7. CASE i = 0 /\ \A a \in (0 + 1)..n : refs[a] # v
  <2>1. \A a \in 1..n : refs[a] # v
    BY <1>2, <1>7
  <2>2. x \notin Ends(t)
    BY <1>2, <2>1 DEF v
  <2> QED
    BY <1>5, <1>7, <2>2 DEF LooksUp, v
<1> QED
  BY <1>4, <1>6, <1>7 DEF Position

(* Every step leads from the node of one item to that of the next.         *)
NextSpot(o, step) ==
    IF step \in Params THEN ParamEdge(o)
    ELSE EdgeTarget(o, CHOOSE h \in 1..LiteralCount(Word(o)) : EdgeSymbol(o, h) = Resolve(LiteralNames, step.str))

LEMMA NextSpotIs ==
    ASSUME NEW t, t = tree, TreeFit(t), NEW pos, Complete(t, pos), NEW q, q \in DOMAIN t, q # Root
    PROVE  NextSpot(pos[Front(q)], Last(q)) = pos[q]
<1> DEFINE k == Front(q)
           e == Last(q)
           o == pos[k]
<1>1. k \in DOMAIN t /\ q \in Seq(Token) /\ k \in Seq(Token)
  BY DomainClosed, SegmentFacts DEF Closed, Root
<1>2. q \in Kids(DOMAIN t, k) /\ q = Append(k, e)
  BY <1>1, FrontOf DEF Kids, Root
<1>3. Parts(t, pos, k, o) /\ Edges(t, pos, k, o)
  BY <1>1, PartsRead, EdgesRead
<1>4. CASE t[k].spec = "SPEC_PARAM" /\ q = Append(k, Par(t[k].param))
  <2>1. Par(t[k].param) \in Params /\ Par(t[k].param) \in Token
    BY <1>1, <1>4, SegmentFacts, TokenKinds
  <2>2. e = Par(t[k].param)
    <3> HIDE DEF k
    <3>1. Last(Append(k, Par(t[k].param))) = Par(t[k].param)
      BY <1>1, <2>1, AppendOf
    <3> QED
      BY <1>4, <3>1
  <2>3. ParamEdge(o) = pos[q]
    BY <1>3, <1>4 DEF Parts
  <2> QED
    BY <2>1, <2>2, <2>3 DEF NextSpot
<1>5. CASE \E j \in 1..Len(t[k].children) : q = LitKid(k, t[k].children[j])
  <2> DEFINE n == Len(t[k].children)
  <2>1. PICK j \in 1..n : q = LitKid(k, t[k].children[j])
    BY <1>5
  <2> DEFINE m == t[k].children[j]
  <2>2. Lit(m) \in Literals /\ Lit(m) \in Token /\ Lit(m).str = m /\ Lit(m) \notin Params /\ n \in Nat
    BY <1>1, SegmentFacts, TokenKinds
  <2>3. e = Lit(m)
    <3> HIDE DEF k, m
    <3>1. Last(Append(k, Lit(m))) = Lit(m)
      BY <1>1, <2>2, AppendOf
    <3> QED
      BY <2>1, <3>1 DEF LitKid, m
  <2>4. LiteralCount(Word(o)) = n
    BY <1>3 DEF Parts, WordSays
  <2>5. LiteralNames = LitNames(t)
    BY DEF LiteralNames, LitNames
  <2> DEFINE Is(h) == EdgeSymbol(o, h) = Resolve(LitNames(t), m)
  <2>6. PICK i \in 1..n : EdgePair(t, pos, k, o, i, j)
    BY <1>3 DEF Edges
  <2>7. Is(i) /\ EdgeTarget(o, i) = pos[q]
    BY <2>1, <2>6 DEF EdgePair
  <2>8. \A h \in 1..n : Is(h) => h = i
    <3>1. /\ \A a \in 1..n : EdgeSymbol(o, a) \in Nat
          /\ \A a, b \in 1..n : a < b => EdgeSymbol(o, a) < EdgeSymbol(o, b)
      BY <1>3 DEF Edges
    <3> TAKE h \in 1..n
    <3> HAVE Is(h)
    <3>2. EdgeSymbol(o, h) = EdgeSymbol(o, i) /\ EdgeSymbol(o, i) \in Nat
      BY <2>7, <3>1
    <3>3. ~(h < i) /\ ~(i < h)
      BY <3>1, <3>2
    <3> QED
      BY <2>2, <3>3
  <2> HIDE DEF Is
  <2>9. (CHOOSE h \in 1..n : Is(h)) = i
    BY ONLY <2>7, <2>8, i \in 1..n
  <2>10. NextSpot(o, e) = EdgeTarget(o, CHOOSE h \in 1..n : Is(h))
    BY <2>2, <2>3, <2>4, <2>5 DEF NextSpot, Is
  <2> QED
    BY <2>7, <2>9, <2>10
<1> QED
  BY <1>1, <1>2, <1>4, <1>5, KidsOfSegment

-----------------------------------------------------------------------------
(* The offsets that a walk from the root reaches.                          *)

Steps(F, k) == F = [i \in 0..Len(k) |-> IF i = 0 THEN 0 ELSE NextSpot(F[i - 1], k[i])]
Upto(k, i) == SubSeq(k, 1, i)

LEMMA UptoFacts ==
    ASSUME NEW t, TreeFit(t), NEW k, k \in DOMAIN t
    PROVE  /\ Len(k) \in Nat /\ Upto(k, 0) = Root /\ Upto(k, Len(k)) = k
           /\ \A i \in 0..Len(k) : Upto(k, i) \in DOMAIN t /\ Len(Upto(k, i)) = i
           /\ \A i \in 1..Len(k) : /\ Upto(k, i) # Root /\ Front(Upto(k, i)) = Upto(k, i - 1)
                                   /\ Last(Upto(k, i)) = k[i] /\ Upto(k, i) = Append(Upto(k, i - 1), k[i])
<1>1. k \in Seq(Token) /\ Closed(DOMAIN t) /\ Len(k) \in Nat
  BY SegmentFacts, DomainClosed
<1>2. Upto(k, 0) = Root /\ Upto(k, Len(k)) = k
  BY <1>1 DEF Upto, Root
<1>3. \A i \in 0..Len(k) : Upto(k, i) \in DOMAIN t
  BY <1>1, PrefixIn DEF Upto
<1>4. \A i \in 0..Len(k) : /\ Upto(k, i) \in Seq(Token) /\ Len(Upto(k, i)) = i
                           /\ \A j \in 1..i : Upto(k, i)[j] = k[j]
  BY <1>1, Shortened DEF Upto
<1>5. ASSUME NEW i \in 1..Len(k)
      PROVE  /\ Upto(k, i) # Root /\ Front(Upto(k, i)) = Upto(k, i - 1)
             /\ Last(Upto(k, i)) = k[i] /\ Upto(k, i) = Append(Upto(k, i - 1), k[i])
  <2> DEFINE p == Upto(k, i)
             r == Upto(k, i - 1)
  <2>1. i \in 0..Len(k) /\ i - 1 \in 0..Len(k) /\ i \in 1..i
    BY <1>1
  <2>2. /\ p \in Seq(Token) /\ Len(p) = i /\ \A j \in 1..i : p[j] = k[j]
    BY <1>4, <2>1
  <2>3. /\ r \in Seq(Token) /\ Len(r) = i - 1 /\ \A j \in 1..(i - 1) : r[j] = k[j]
    BY <1>4, <2>1
  <2> HIDE DEF p, r
  <2>4. p # <<>>
    BY <2>1, <2>2
  <2>5. /\ Front(p) \in Seq(Token) /\ Len(Front(p)) = i - 1 /\ \A j \in 1..(i - 1) : Front(p)[j] = p[j]
        /\ Last(p) = p[i] /\ p = Append(Front(p), Last(p))
    BY <2>2, <2>4, FrontOf
  <2>6. \A j \in 1..(i - 1) : j \in 1..i
    BY <2>1
  <2>7. Front(p) = r
    BY <2>1, <2>2, <2>3, <2>5, <2>6
  <2>8. Last(p) = k[i]
    BY <2>1, <2>2, <2>5
  <2> QED
    BY <2>4, <2>5, <2>7, <2>8 DEF p, r, Root
<1> QED
  BY <1>1, <1>2, <1>3, <1>4, <1>5

LEMMA ReachIs ==
    ASSUME NEW t, t = tree, TreeFit(t), NEW pos, Complete(t, pos), NEW k, k \in DOMAIN t
    PROVE  Reach(k) = pos[k]
<1> DEFINE n == Len(k)
           F == [i \in 0..n |-> pos[Upto(k, i)]]
           G == CHOOSE f : Steps(f, k)
<1>1. /\ n \in Nat /\ Upto(k, 0) = Root /\ Upto(k, n) = k
      /\ \A i \in 0..n : Upto(k, i) \in DOMAIN t
      /\ \A i \in 1..n : Upto(k, i) # Root /\ Front(Upto(k, i)) = Upto(k, i - 1) /\ Last(Upto(k, i)) = k[i]
  BY UptoFacts
<1>2. \A i \in 1..n : NextSpot(pos[Upto(k, i - 1)], k[i]) = pos[Upto(k, i)]
  <2> TAKE i \in 1..n
  <2> DEFINE q == Upto(k, i)
  <2>1. q \in DOMAIN t /\ q # Root /\ Front(q) = Upto(k, i - 1) /\ Last(q) = k[i]
    BY <1>1
  <2> HIDE DEF q
  <2>2. NextSpot(pos[Front(q)], Last(q)) = pos[q]
    BY <2>1, NextSpotIs
  <2> QED
    BY <2>1, <2>2 DEF q
<1>3. pos[Root] = 0
  BY ItemsClosed DEF Complete, Allotted
<1>4. Steps(F, k)
  <2>1. \A i \in 0..n : F[i] = IF i = 0 THEN 0 ELSE NextSpot(F[i - 1], k[i])
    <3> TAKE i \in 0..n
    <3>1. CASE i = 0
      BY <1>1, <1>3, <3>1
    <3>2. CASE i # 0
      <4>1. i \in 1..n /\ i - 1 \in 0..n
        BY <1>1, <3>2
      <4> QED
        BY <1>2, <3>2, <4>1
    <3> QED
      BY <3>1, <3>2
  <2>2. F = [i \in 0..n |-> F[i]]
    OBVIOUS
  <2> HIDE DEF F
  <2>3. F = [i \in 0..n |-> IF i = 0 THEN 0 ELSE NextSpot(F[i - 1], k[i])]
    BY ONLY <2>1, <2>2
  <2> QED
    BY ONLY <2>3 DEF Steps, n
<1>5. Steps(G, k)
  <2> HIDE DEF F
  <2> QED
    BY <1>4
<1>6. Reach(k) = G[n]
  BY Zenon DEF Reach, Steps, NextSpot
<1> HIDE DEF G
<1>7. \A i \in 0..n : G[i] = IF i = 0 THEN 0 ELSE NextSpot(G[i - 1], k[i])
  BY <1>5 DEF Steps
<1> DEFINE S == {m \in Nat : m <= n => G[m] = pos[Upto(k, m)]}
<1>8. 0 \in S
  BY <1>1, <1>3, <1>7
<1>9. ASSUME NEW m \in S PROVE m + 1 \in S
  <2> SUFFICES ASSUME m + 1 <= n PROVE G[m + 1] = pos[Upto(k, m + 1)]
    BY <1>9
  <2>1. m \in Nat /\ m <= n /\ G[m] = pos[Upto(k, m)] /\ m + 1 \in 1..n /\ m + 1 \in 0..n /\ (m + 1) - 1 = m
        /\ m + 1 # 0
    BY <1>1, <1>9
  <2>2. G[m + 1] = NextSpot(G[(m + 1) - 1], k[m + 1])
    BY <1>7, <2>1
  <2>3. NextSpot(pos[Upto(k, (m + 1) - 1)], k[m + 1]) = pos[Upto(k, m + 1)]
    BY <1>2, <2>1
  <2> QED
    BY <2>1, <2>2, <2>3
<1>10. S = Nat
  <2> HIDE DEF S
  <2>1. S \subseteq Nat
    BY DEF S
  <2> QED
    BY <1>8, <1>9, <2>1, Induction
<1>11. n \in S
  <2> HIDE DEF S
  <2> QED
    BY <1>1, <1>10
<1> QED
  BY <1>1, <1>6, <1>11

-----------------------------------------------------------------------------
(* The graph is the tree.                                                  *)

(* A segment and its leaves, looked up.                                    *)
LEMMA SegmentLookups ==
    ASSUME NEW t, TreeFit(t), NEW pos, Complete(t, pos), NEW k, k \in DOMAIN t
    PROVE  /\ Lookup(pos[k]) = t[k].terminal
           /\ t[k].wildcard # NULL => Lookup(pos[Append(k, Wildcard)]) = t[k].wildcard
           /\ t[k].trailing # NULL => Lookup(pos[Append(k, Trailing)]) = t[k].trailing
<1>1. DOMAIN t \cap Leaves(t) = {} /\ k \in Seq(Token) /\ Wildcard \in Token /\ Trailing \in Token /\ Wildcard # Trailing
  BY ItemsClosed, SegmentFacts, TokenKinds
<1>2. Lookup(pos[k]) = t[k].terminal
  <2>1. k \in Real(t) /\ ContextOf(t, k) = t[k].terminal
    BY DEF Real, ContextOf
  <2>2. k \in Ends(t) <=> t[k].terminal # NULL
    BY <1>1 DEF Ends, WithTerminal
  <2>3. LooksUp(t, pos, k)
    BY <2>1, LookupFinds
  <2> QED
    BY <2>1, <2>2, <2>3 DEF LooksUp
<1>3. ASSUME t[k].wildcard # NULL PROVE Lookup(pos[Append(k, Wildcard)]) = t[k].wildcard
  <2> DEFINE x == Append(k, Wildcard)
  <2>1. Front(x) = k /\ Last(x) = Wildcard
    BY <1>1, AppendOf
  <2>2. x \in Leaves(t)
    BY <1>3 DEF Leaves, WithWildcard
  <2>3. x \in Real(t) /\ x \in Ends(t) /\ x \notin DOMAIN t
    BY <1>1, <2>2 DEF Real, Ends
  <2> HIDE DEF x
  <2>4. ContextOf(t, x) = t[k].wildcard
    BY <2>1, <2>3 DEF ContextOf
  <2>5. LooksUp(t, pos, x)
    BY <2>3, LookupFinds
  <2> QED
    BY <2>3, <2>4, <2>5 DEF LooksUp, x
<1>4. ASSUME t[k].trailing # NULL PROVE Lookup(pos[Append(k, Trailing)]) = t[k].trailing
  <2> DEFINE x == Append(k, Trailing)
  <2>1. Front(x) = k /\ Last(x) = Trailing
    BY <1>1, AppendOf
  <2>2. x \in Leaves(t)
    BY <1>4 DEF Leaves, WithTrailing
  <2>3. x \in Real(t) /\ x \in Ends(t) /\ x \notin DOMAIN t
    BY <1>1, <2>2 DEF Real, Ends
  <2> HIDE DEF x
  <2>4. ContextOf(t, x) = t[k].trailing
    BY <1>1, <2>1, <2>3 DEF ContextOf
  <2>5. LooksUp(t, pos, x)
    BY <2>3, LookupFinds
  <2> QED
    BY <2>3, <2>4, <2>5 DEF LooksUp, x
<1> QED
  BY <1>2, <1>3, <1>4

(* A graph that is done is complete.                                       *)
LEMMA DoneComplete ==
    ASSUME CountInv, CompileInv, phase = "done"
    PROVE  TreeFit(tree) /\ \E pos : Complete(tree, pos)
<1>1. TreeFit(tree)
  BY TreesFit DEF CountInv
<1>2. PICK lab, pos : Compiled(tree, <<>>, graph, refs, base, lab, pos)
  BY DEF CompileInv
<1>3. Placed(tree, lab) = Real(tree) /\ Unsorted(tree, lab) = {}
  BY <1>1, <1>2, AllPlaced
<1>4. Complete(tree, pos)
  BY <1>2, <1>3 DEF Compiled, Built, Complete
<1> QED
  BY <1>1, <1>4

LEMMA DoneIsTree == CountInv /\ CompileInv => GraphIsTree
<1> SUFFICES ASSUME CountInv, CompileInv, phase = "done" PROVE GraphIsTree
  BY DEF GraphIsTree
<1>1. TreeFit(tree)
  BY DoneComplete
<1>2. PICK pos : Complete(tree, pos)
  BY DoneComplete
<1>3. \A k \in DOMAIN tree : Reach(k) = pos[k]
  BY <1>1, <1>2, ReachIs
<1>4. ASSUME NEW k \in DOMAIN tree
      PROVE  LET o == pos[k]
                 w == Word(o)
                 s == tree[k]
             IN  /\ LiteralCount(w) = Len(s.children)
                 /\ \A i, j \in 1..LiteralCount(w) : i < j => EdgeSymbol(o, i) < EdgeSymbol(o, j)
                 /\ Lookup(o) = s.terminal
                 /\ HasFlag(w, FLAG_TERMINAL) <=> s.terminal # NULL
                 /\ HasFlag(w, FLAG_PARAM) <=> s.spec = "SPEC_PARAM"
                 /\ HasFlag(w, FLAG_WILDCARD) <=> s.wildcard # NULL
                 /\ HasFlag(w, FLAG_TRAILING) <=> s.trailing # NULL
                 /\ HasFlag(w, FLAG_PARAM) => ParamSymbol(o) = Resolve(ParamNames, s.param)
                 /\ HasFlag(w, FLAG_WILDCARD) => Lookup(WildcardEdge(o)) = s.wildcard
                 /\ HasFlag(w, FLAG_TRAILING) => Lookup(TrailingEdge(o)) = s.trailing
  <2> DEFINE o == pos[k]
             s == tree[k]
  <2>1. Parts(tree, pos, k, o) /\ Edges(tree, pos, k, o)
    BY <1>1, <1>2, PartsRead, EdgesRead
  <2>2. WordSays(Word(o), s)
    BY <2>1 DEF Parts
  <2>3. s.wildcard # NULL <=> s.spec = "SPEC_WILDCARD"
    BY <1>1, SegmentFacts
  <2>4. /\ Lookup(o) = s.terminal
        /\ s.wildcard # NULL => Lookup(pos[Append(k, Wildcard)]) = s.wildcard
        /\ s.trailing # NULL => Lookup(pos[Append(k, Trailing)]) = s.trailing
    BY <1>1, <1>2, SegmentLookups
  <2>5. /\ s.spec = "SPEC_PARAM" => ParamSymbol(o) = Resolve(ParNames(tree), s.param)
        /\ s.spec = "SPEC_WILDCARD" => WildcardEdge(o) = pos[Append(k, Wildcard)]
        /\ s.trailing # NULL => TrailingEdge(o) = pos[Append(k, Trailing)]
    BY <2>1 DEF Parts
  <2>6. \A i, j \in 1..LiteralCount(Word(o)) : i < j => EdgeSymbol(o, i) < EdgeSymbol(o, j)
    BY <2>1, <2>2 DEF Edges, WordSays
  <2>7. ParamNames = ParNames(tree)
    BY DEF ParamNames, ParNames
  <2> HIDE DEF o, s
  <2> QED
    BY <2>2, <2>3, <2>4, <2>5, <2>6, <2>7, Zenon DEF WordSays, o, s
<1>5. \A j, k \in DOMAIN tree : j # k => Reach(j) # Reach(k)
  <2>1. \A x, y \in Real(tree) : pos[x] = pos[y] => x = y
    BY <1>1, <1>2, SpotsApart
  <2> QED
    BY <1>3, <2>1 DEF Real
<1>6. \A k \in DOMAIN tree :
          LET o == Reach(k)
              w == Word(o)
              s == tree[k]
          IN  /\ LiteralCount(w) = Len(s.children)
              /\ \A i, j \in 1..LiteralCount(w) : i < j => EdgeSymbol(o, i) < EdgeSymbol(o, j)
              /\ Lookup(o) = s.terminal
              /\ HasFlag(w, FLAG_TERMINAL) <=> s.terminal # NULL
              /\ HasFlag(w, FLAG_PARAM) <=> s.spec = "SPEC_PARAM"
              /\ HasFlag(w, FLAG_WILDCARD) <=> s.wildcard # NULL
              /\ HasFlag(w, FLAG_TRAILING) <=> s.trailing # NULL
              /\ HasFlag(w, FLAG_PARAM) => ParamSymbol(o) = Resolve(ParamNames, s.param)
              /\ HasFlag(w, FLAG_WILDCARD) => Lookup(WildcardEdge(o)) = s.wildcard
              /\ HasFlag(w, FLAG_TRAILING) => Lookup(TrailingEdge(o)) = s.trailing
  BY ONLY <1>3, <1>4, Zenon
<1> QED
  BY ONLY <1>5, <1>6, Zenon DEF GraphIsTree

(* Read back from its words, the compiled graph is the builder's tree: the *)
(* same segments, reached over the same steps, with the same parameters,   *)
(* wildcards and routes, and the same literals, in the order of their      *)
(* symbols.                                                                *)
THEOREM GraphIsTreeCorrect == GraphSpec => []GraphIsTree
<1> QED
  BY DoneIsTree, CountedCorrect, CompiledCorrect, PTL

-----------------------------------------------------------------------------
(* Part 2. The parameters of a route.                                      *)

(* The steps of k that are parameters, ascending, and what they bind by a  *)
(* table of names.                                                         *)
ParamSteps(k, a) ==
    /\ a \in Seq(Nat) /\ Increasing(a)
    /\ \A n \in 1..Len(a) : a[n] \in 1..Len(k) /\ k[a[n]] \in Params
    /\ \A i \in 1..Len(k) : k[i] \in Params => \E n \in 1..Len(a) : a[n] = i
Bound(names, k, a) == [n \in 1..Len(a) |-> <<Resolve(names, k[a[n]].str), a[n]>>]

(* A strictly ascending list is its own elements in ascending order.       *)
LEMMA AscendingIs ==
    ASSUME NEW S, S \subseteq Nat, NEW a, a \in Seq(Nat), Increasing(a),
           \A n \in 1..Len(a) : a[n] \in S, \A i \in S : \E n \in 1..Len(a) : a[n] = i
    PROVE  Ascending(S) = a
<1> DEFINE m == Len(a)
           below(i) == {j \in S : j < i}
<1>1. /\ m \in Nat /\ (\A n \in 1..m : a[n] \in Nat)
      /\ \A h, n \in 1..m : (h < n <=> a[h] < a[n]) /\ (a[h] = a[n] => h = n)
  <2>1. m \in Nat /\ (\A n \in 1..m : a[n] \in Nat) /\ \A h, n \in 1..m : h < n => a[h] < a[n]
    BY DEF Increasing
  <2>2. \A h, n \in 1..m : h < n \/ n < h \/ h = n
    BY <2>1
  <2> QED
    BY <2>1, <2>2
<1>2. \A n \in 0..m : IsFiniteSet(1..n) /\ Cardinality(1..n) = n
  <2> TAKE n \in 0..m
  <2>1. n \in Nat
    BY <1>1
  <2>2. IsFiniteSet(1..n) /\ Cardinality(1..n) = IF 1 > n THEN 0 ELSE n - 1 + 1
    BY <2>1, FS_Interval
  <2> QED
    BY <2>1, <2>2
<1>3. Cardinality(S) = m
  <2> DEFINE A == 1..m
  <2>1. a \in [A -> S] /\ m \in 0..m
    BY <1>1
  <2>2. /\ IsFiniteSet(A) /\ Cardinality(A) = m
        /\ (\A i \in S : \E n \in A : a[n] = i) /\ \A h, n \in A : a[h] = a[n] => h = n
    BY <1>1, <1>2, <2>1
  <2> HIDE DEF A, m
  <2>3. Cardinality(S) = Cardinality(A)
    BY ONLY <2>1, <2>2, ImageSize
  <2> QED
    BY <2>2, <2>3
<1>4. \A n \in 1..m : Cardinality(below(a[n])) = n - 1
  <2> TAKE n \in 1..m
  <2> DEFINE f == [h \in 1..(n - 1) |-> a[h]]
             R == below(a[n])
             A == 1..(n - 1)
  <2>1. n - 1 \in 0..m /\ A \subseteq 1..m
    BY <1>1
  <2>2. f \in [A -> R]
    BY <1>1
  <2>3. \A y \in R : \E h \in A : f[h] = y
    <3> TAKE y \in R
    <3>1. PICK h \in 1..m : a[h] = y
      OBVIOUS
    <3>2. a[h] < a[n]
      BY <3>1
    <3>3. h \in A
      BY <1>1, <3>2
    <3> QED
      BY <3>1, <3>3
  <2>4. \A g, h \in A : f[g] = f[h] => g = h
    BY <1>1, <2>1
  <2>5. IsFiniteSet(A) /\ Cardinality(A) = n - 1
    BY <1>2, <2>1
  <2> HIDE DEF f, R, A
  <2>6. Cardinality(R) = Cardinality(A)
    BY ONLY <2>2, <2>3, <2>4, <2>5, ImageSize
  <2> QED
    BY <2>5, <2>6 DEF R
<1> HIDE DEF below
<1>5. \A n \in 1..m : (CHOOSE i \in S : Cardinality(below(i)) = n - 1) = a[n]
  <2> TAKE n \in 1..m
  <2> DEFINE Is(i) == Cardinality(below(i)) = n - 1
  <2>1. a[n] \in S /\ Is(a[n])
    BY <1>4
  <2>2. \A i \in S : Is(i) => i = a[n]
    <3> TAKE i \in S
    <3> HAVE Is(i)
    <3>1. PICK h \in 1..m : a[h] = i
      OBVIOUS
    <3>2. h - 1 = n - 1
      BY <1>4, <3>1
    <3>3. h = n
      BY <1>1, <3>2
    <3> QED
      BY <3>1, <3>3
  <2> HIDE DEF Is
  <2>3. (CHOOSE i \in S : Is(i)) = a[n]
    BY ONLY <2>1, <2>2
  <2> QED
    BY <2>3 DEF Is
<1>6. Ascending(S) = [n \in 1..m |-> CHOOSE i \in S : Cardinality(below(i)) = n - 1]
  BY <1>3 DEF Ascending, below
<1>7. Ascending(S) = [n \in 1..m |-> a[n]]
  BY <1>5, <1>6
<1> QED
  BY <1>7, SeqIs

LEMMA RootSteps == ParamSteps(Root, <<>>) /\ \A names : Bound(names, Root, <<>>) = <<>>
BY DEF ParamSteps, Bound, Root, Increasing

LEMMA OtherStep ==
    ASSUME NEW k, k \in Seq(Token), NEW a, ParamSteps(k, a), NEW e, e \in Token, e \notin Params, NEW names
    PROVE  ParamSteps(Append(k, e), a) /\ Bound(names, Append(k, e), a) = Bound(names, k, a)
<1> DEFINE q == Append(k, e)
<1>1. Len(q) = Len(k) + 1 /\ Len(k) \in Nat /\ (\A i \in 1..Len(k) : q[i] = k[i]) /\ q[Len(k) + 1] = e
  BY AppendOf
<1> HIDE DEF q
<1>2. \A n \in 1..Len(a) : a[n] \in 1..Len(k) /\ k[a[n]] \in Params
  BY DEF ParamSteps
<1>3. \A n \in 1..Len(a) : a[n] \in 1..Len(q) /\ q[a[n]] = k[a[n]]
  BY <1>1, <1>2
<1>4. \A i \in 1..Len(q) : i \in 1..Len(k) \/ i = Len(k) + 1
  BY <1>1
<1>5. ParamSteps(q, a)
  <2>1. \A i \in 1..Len(q) : q[i] \in Params => \E n \in 1..Len(a) : a[n] = i
    BY <1>1, <1>4 DEF ParamSteps
  <2> QED
    BY <1>2, <1>3, <2>1 DEF ParamSteps
<1>6. Bound(names, q, a) = Bound(names, k, a)
  BY <1>3 DEF Bound
<1> QED
  BY <1>5, <1>6 DEF q

LEMMA ParamStep ==
    ASSUME NEW k, k \in Seq(Token), NEW a, ParamSteps(k, a), NEW e, e \in Token, e \in Params, NEW names
    PROVE  /\ ParamSteps(Append(k, e), Append(a, Len(k) + 1))
           /\ Bound(names, Append(k, e), Append(a, Len(k) + 1))
                 = Append(Bound(names, k, a), <<Resolve(names, e.str), Len(k) + 1>>)
           /\ Under(a, Append(a, Len(k) + 1))
<1> DEFINE q == Append(k, e)
           m == Len(a)
           z == Len(k) + 1
           b == Append(a, z)
<1>1. Len(q) = Len(k) + 1 /\ Len(k) \in Nat /\ (\A i \in 1..Len(k) : q[i] = k[i]) /\ q[Len(k) + 1] = e
  BY AppendOf
<1>2. a \in Seq(Nat) /\ m \in Nat /\ z \in Nat
  BY <1>1 DEF ParamSteps
<1>3. b \in Seq(Nat) /\ Len(b) = m + 1 /\ (\A n \in 1..m : b[n] = a[n]) /\ b[m + 1] = z
  BY <1>2
<1>4. \A n \in 1..m : a[n] \in 1..Len(k) /\ k[a[n]] \in Params
  BY DEF ParamSteps
<1> HIDE DEF q, b
<1>5. \A n \in 1..(m + 1) : n \in 1..m \/ n = m + 1
  BY <1>2
<1>6. \A n \in 1..m : b[n] \in 1..Len(k) /\ b[n] \in 1..Len(q) /\ q[b[n]] = k[a[n]] /\ b[n] < z
  <2> TAKE n \in 1..m
  <2>1. b[n] \in 1..Len(k)
    BY <1>3, <1>4
  <2> QED
    BY <1>1, <1>3, <2>1
<1>7. b[m + 1] \in 1..Len(q) /\ q[b[m + 1]] = e
  BY <1>1, <1>3
<1>8. Increasing(b)
  <2> SUFFICES ASSUME NEW i \in 1..(m + 1), NEW j \in 1..(m + 1), i < j PROVE b[i] < b[j]
    BY <1>3 DEF Increasing
  <2>1. i \in 1..m
    BY <1>2
  <2>2. CASE j \in 1..m
    BY <1>3, <2>1, <2>2 DEF ParamSteps, Increasing
  <2>3. CASE j = m + 1
    BY <1>3, <1>6, <2>1, <2>3
  <2> QED
    BY <1>5, <2>2, <2>3
<1>9. \A n \in 1..Len(b) : b[n] \in 1..Len(q) /\ q[b[n]] \in Params
  <2> TAKE n \in 1..Len(b)
  <2>1. n \in 1..m \/ n = m + 1
    BY <1>3, <1>5
  <2> QED
    BY <1>4, <1>6, <1>7, <2>1
<1>10. \A i \in 1..Len(q) : q[i] \in Params => \E n \in 1..Len(b) : b[n] = i
  <2> TAKE i \in 1..Len(q)
  <2> HAVE q[i] \in Params
  <2>1. CASE i \in 1..Len(k)
    <3>1. PICK n \in 1..m : a[n] = i
      BY <1>1, <2>1 DEF ParamSteps
    <3>2. n \in 1..Len(b)
      BY <1>2, <1>3
    <3> QED
      BY <1>3, <3>1, <3>2
  <2>2. CASE i = Len(k) + 1
    <3>1. m + 1 \in 1..Len(b)
      BY <1>2, <1>3
    <3> QED
      BY <1>3, <2>2, <3>1
  <2> QED
    BY <1>1, <2>1, <2>2
<1>11. ParamSteps(q, b)
  BY <1>3, <1>8, <1>9, <1>10 DEF ParamSteps
<1>12. Bound(names, q, b) = Append(Bound(names, k, a), <<Resolve(names, e.str), z>>)
  <2> DEFINE B == Bound(names, k, a)
             v == <<Resolve(names, e.str), z>>
  <2>1. B = [n \in 1..m |-> <<Resolve(names, k[a[n]].str), a[n]>>]
    BY DEF Bound
  <2>2. /\ Len(B) = m /\ DOMAIN B = 1..m /\ B \in Seq({B[n] : n \in 1..m} \cup {v})
        /\ \A n \in 1..m : B[n] = <<Resolve(names, k[a[n]].str), a[n]>>
    BY <1>2, <2>1
  <2> HIDE DEF B
  <2>3. Append(B, v) = [n \in 1..(m + 1) |-> IF n = m + 1 THEN v ELSE B[n]]
    BY <1>2, <2>2
  <2>4. Bound(names, q, b) = [n \in 1..(m + 1) |-> <<Resolve(names, q[b[n]].str), b[n]>>]
    BY <1>3 DEF Bound
  <2>5. \A n \in 1..m : <<Resolve(names, q[b[n]].str), b[n]>> = B[n] /\ n # m + 1
    <3> TAKE n \in 1..m
    <3>1. n # m + 1
      BY <1>2
    <3>2. b[n] = a[n] /\ q[b[n]] = k[a[n]]
      BY <1>3, <1>6
    <3>3. B[n] = <<Resolve(names, k[a[n]].str), a[n]>>
      BY <2>2
    <3> QED
      BY <3>1, <3>2, <3>3
  <2>6. <<Resolve(names, q[b[m + 1]].str), b[m + 1]>> = v
    BY <1>3, <1>7
  <2> HIDE DEF v
  <2>7. \A n \in 1..(m + 1) : <<Resolve(names, q[b[n]].str), b[n]>> = IF n = m + 1 THEN v ELSE B[n]
    BY <1>5, <2>5, <2>6
  <2> QED
    BY <2>3, <2>4, <2>7 DEF B, v
<1>13. Under(a, b)
  <2>1. Len(a) <= Len(b)
    BY <1>2, <1>3
  <2> QED
    BY <1>3, <2>1 DEF Under
<1> QED
  BY <1>11, <1>12, <1>13 DEF q, b

(* What the steps up to a segment on the way bind is the beginning of what *)
(* all steps bind.                                                         *)
LEMMA BoundBefore ==
    ASSUME NEW k, NEW a, ParamSteps(k, a), NEW q, Under(q, k), NEW b, ParamSteps(q, b), Under(b, a), NEW names
    PROVE  /\ Len(b) <= Len(a) /\ Len(a) \in Nat /\ Len(b) \in Nat
           /\ \A n \in 1..Len(b) : Bound(names, q, b)[n] = Bound(names, k, a)[n]
<1>1. Len(a) \in Nat /\ Len(b) \in Nat /\ Len(b) <= Len(a) /\ \A n \in 1..Len(b) : a[n] = b[n] /\ n \in 1..Len(a)
  BY DEF ParamSteps, Under
<1>2. \A n \in 1..Len(b) : q[b[n]] = k[a[n]]
  <2> TAKE n \in 1..Len(b)
  <2>1. b[n] \in 1..Len(q)
    BY DEF ParamSteps
  <2> QED
    BY <1>1, <2>1 DEF Under
<1>3. \A n \in 1..Len(b) : Bound(names, q, b)[n] = Bound(names, k, a)[n]
  BY <1>1, <1>2 DEF Bound
<1> QED
  BY <1>1, <1>3

(* The parameters of a route are those that its steps bind.                *)
LEMMA BindingsAre ==
    ASSUME NEW k, k \in Seq(Token), NEW a, ParamSteps(k, a)
    PROVE  Bindings(k) = Bound(ParamNames, k, a)
<1> DEFINE S == {i \in DOMAIN k : k[i] \in Params}
<1>1. DOMAIN k = 1..Len(k) /\ Len(k) \in Nat /\ Len(a) \in Nat
  BY DEF ParamSteps
<1>2. /\ S \subseteq Nat /\ a \in Seq(Nat) /\ Increasing(a)
      /\ \A n \in 1..Len(a) : a[n] \in S
      /\ \A i \in S : \E n \in 1..Len(a) : a[n] = i
  BY <1>1 DEF ParamSteps
<1>3. Ascending(S) = a
  <2> HIDE DEF S
  <2> QED
    BY <1>2, AscendingIs
<1>4. DOMAIN a = 1..Len(a)
  BY <1>2
<1> QED
  BY <1>3, <1>4 DEF Bindings, Bound

-----------------------------------------------------------------------------
(* A path and a tree: at most one way to go.                               *)

(* What the assumption on the paths says of a token of one.                *)
LEMMA PathFacts ==
    ASSUME NEW p, p \in Paths
    PROVE  /\ Len(p) \in Nat /\ Len(p) > 0
           /\ \A i \in 1..Len(p) : /\ p[i] \notin Params
                                   /\ p[i] \in Literals => i < Len(p)
                                   /\ p[i] \notin Literals => i = Len(p) /\ p[i] \in {End, Trailing, Illegal}
<1>1. /\ p \in Seq(Literals \cup {End, Trailing, Illegal}) /\ p # <<>>
      /\ \A i \in 1..Len(p) : (i = Len(p)) <=> (p[i] \notin Literals)
  BY MatchAssumption
<1>2. Len(p) \in Nat /\ Len(p) > 0 /\ \A i \in 1..Len(p) : p[i] \in Literals \cup {End, Trailing, Illegal}
  BY <1>1
<1>3. \A e \in Literals \cup {End, Trailing, Illegal} : e \notin Params
  BY TokenKinds
<1> QED
  BY <1>1, <1>2, <1>3

(* The step into a segment's child, and the token it fits.                 *)
LEMMA KidStep ==
    ASSUME NEW t, TreeFit(t), NEW k, k \in DOMAIN t, NEW c, c \in Kids(DOMAIN t, k)
    PROVE  /\ c \in DOMAIN t /\ c = Append(k, Last(c)) /\ Len(c) = Len(k) + 1 /\ Len(k) \in Nat
           /\ \/ /\ t[k].spec # "SPEC_PARAM" /\ Last(c) \in Literals
                 /\ \E i \in 1..Len(t[k].children) : Last(c) = Lit(t[k].children[i])
              \/ t[k].spec = "SPEC_PARAM" /\ Last(c) = Par(t[k].param) /\ Last(c) \in Params
<1>1. c \in DOMAIN t /\ c = Append(k, Last(c)) /\ Len(c) = Len(k) + 1 /\ Len(k) \in Nat /\ k \in Seq(Token)
  BY DomainClosed, KidFacts
<1>2. CASE \E i \in 1..Len(t[k].children) : c = LitKid(k, t[k].children[i])
  <2>1. PICK i \in 1..Len(t[k].children) : c = Append(k, Lit(t[k].children[i]))
    BY <1>2 DEF LitKid
  <2>2. Lit(t[k].children[i]) \in Literals /\ Lit(t[k].children[i]) \in Token
    BY SegmentFacts, TokenKinds
  <2>3. Last(c) = Lit(t[k].children[i])
    BY <1>1, <2>1, <2>2, AppendOf
  <2>4. t[k].spec # "SPEC_PARAM"
    <3>1. t[k].spec = "SPEC_PARAM" => Len(t[k].children) = 0
      BY SegmentFacts
    <3> QED
      BY <3>1
  <2> QED
    BY <1>1, <2>2, <2>3, <2>4
<1>3. CASE t[k].spec = "SPEC_PARAM" /\ c = Append(k, Par(t[k].param))
  <2>1. Par(t[k].param) \in Params /\ Par(t[k].param) \in Token
    BY <1>3, SegmentFacts, TokenKinds
  <2>2. Last(c) = Par(t[k].param)
    BY <1>1, <1>3, <2>1, AppendOf
  <2> QED
    BY <1>1, <1>3, <2>1, <2>2
<1> QED
  BY <1>2, <1>3, KidsOfSegment

(* A token of a path fits at most one child of a segment: a parameter      *)
(* excludes literals.                                                      *)
LEMMA OneFits ==
    ASSUME NEW t, TreeFit(t), NEW k, k \in DOMAIN t, NEW e, e \notin Params,
           NEW b, b \in Kids(DOMAIN t, k), Fits(Last(b), e), NEW c, c \in Kids(DOMAIN t, k), Fits(Last(c), e)
    PROVE  b = c
<1>1. \A q \in Kids(DOMAIN t, k) : Fits(Last(q), e) =>
         /\ q = Append(k, Last(q))
         /\ \/ t[k].spec # "SPEC_PARAM" /\ Last(q) = e
            \/ t[k].spec = "SPEC_PARAM" /\ Last(q) = Par(t[k].param)
  <2> TAKE q \in Kids(DOMAIN t, k)
  <2> HAVE Fits(Last(q), e)
  <2>1. q = Append(k, Last(q))
    BY KidStep
  <2>2. CASE t[k].spec # "SPEC_PARAM" /\ Last(q) \in Literals
    BY <2>1, <2>2, TokenKinds DEF Fits
  <2>3. CASE t[k].spec = "SPEC_PARAM" /\ Last(q) = Par(t[k].param)
    BY <2>1, <2>3
  <2> QED
    BY <2>2, <2>3, KidStep
<1> QED
  BY <1>1

(* No child of segment k fits token e.                                     *)
Stuck(t, k, e) == \A c \in Kids(DOMAIN t, k) : ~Fits(Last(c), e)

LEMMA AlongKid ==
    ASSUME NEW t, TreeFit(t), NEW p, p \in Paths, NEW k, k \in DOMAIN t, NEW q, q \in DOMAIN t,
           Along(q, p), Under(k, q), k # q
    PROVE  \E c \in Kids(DOMAIN t, k) : Under(c, q) /\ Fits(Last(c), p[Len(k) + 1])
<1>1. /\ q \in Seq(Token) /\ Len(q) \in Nat /\ Len(k) \in Nat /\ DOMAIN q = 1..Len(q) /\ k \in Seq(Token)
      /\ Closed(DOMAIN t)
  BY SegmentFacts, DomainClosed
<1>2. PICK c \in Kids(DOMAIN t, k) : Under(c, q)
  BY <1>1, UnderKid
<1>3. Len(c) = Len(k) + 1 /\ c # <<>> /\ c \in Seq(Token)
  <2>1. c \in DOMAIN t /\ Len(c) = Len(k) + 1
    BY KidStep
  <2> QED
    BY <1>1, <2>1, SegmentFacts DEF Kids
<1>4. Last(c) = c[Len(k) + 1]
  BY <1>1, <1>3, FrontOf
<1>5. Len(k) + 1 \in 1..Len(q) /\ q[Len(k) + 1] = c[Len(k) + 1]
  BY <1>1, <1>2, <1>3 DEF Under
<1> QED
  BY <1>1, <1>2, <1>4, <1>5 DEF Along

(* Of two segments along a path, one is on the way to the other.           *)
LEMMA SameWay ==
    ASSUME NEW t, TreeFit(t), NEW p, p \in Paths, NEW k, k \in DOMAIN t, NEW q, q \in DOMAIN t,
           Along(k, p), Along(q, p), Len(q) <= Len(k)
    PROVE  Under(q, k)
<1> DEFINE S == {i \in Nat : i <= Len(q) => Upto(q, i) = Upto(k, i)}
<1>1. /\ Len(q) \in Nat /\ Len(k) \in Nat /\ DOMAIN q = 1..Len(q) /\ DOMAIN k = 1..Len(k)
      /\ q \in Seq(Token) /\ k \in Seq(Token)
  BY SegmentFacts
<1>2. /\ Upto(q, 0) = Root /\ Upto(k, 0) = Root /\ Upto(q, Len(q)) = q
      /\ \A i \in 0..Len(q) : Upto(q, i) \in DOMAIN t /\ Len(Upto(q, i)) = i
      /\ \A i \in 0..Len(k) : Upto(k, i) \in DOMAIN t /\ Len(Upto(k, i)) = i
      /\ \A i \in 1..Len(q) : /\ Upto(q, i) # Root /\ Front(Upto(q, i)) = Upto(q, i - 1)
                              /\ Last(Upto(q, i)) = q[i]
      /\ \A i \in 1..Len(k) : /\ Upto(k, i) # Root /\ Front(Upto(k, i)) = Upto(k, i - 1)
                              /\ Last(Upto(k, i)) = k[i]
  BY UptoFacts
<1>3. 0 \in S
  BY <1>2
<1>4. ASSUME NEW i \in S PROVE i + 1 \in S
  <2> SUFFICES ASSUME i + 1 <= Len(q) PROVE Upto(q, i + 1) = Upto(k, i + 1)
    BY <1>4
  <2>1. /\ i \in Nat /\ i + 1 \in 1..Len(q) /\ i + 1 \in 1..Len(k) /\ (i + 1) - 1 = i
        /\ i + 1 \in 0..Len(q) /\ i + 1 \in 0..Len(k) /\ i \in 0..Len(q) /\ i <= Len(q)
    BY <1>1
  <2> DEFINE s == Upto(q, i)
             b == Upto(q, i + 1)
             c == Upto(k, i + 1)
             e == p[i + 1]
  <2>2. s = Upto(k, i)
    BY <1>4, <2>1
  <2>3. s \in DOMAIN t /\ b \in Kids(DOMAIN t, s) /\ c \in Kids(DOMAIN t, s)
    BY <1>2, <2>1, <2>2 DEF Kids, Root
  <2>4. Last(b) = q[i + 1] /\ Last(c) = k[i + 1]
    BY <1>2, <2>1
  <2>5. Fits(Last(b), e) /\ Fits(Last(c), e) /\ i + 1 \in 1..Len(p)
    <3>1. Len(q) < Len(p) /\ Len(p) \in Nat
      BY PathFacts DEF Along
    <3>2. i + 1 \in 1..Len(p)
      BY <1>1, <2>1, <3>1
    <3> QED
      BY <1>1, <2>1, <2>4, <3>2 DEF Along
  <2>6. e \notin Params
    BY <2>5, PathFacts
  <2> HIDE DEF s, b, c, e
  <2>7. b = c
    BY ONLY TreeFit(t), <2>3, <2>5, <2>6, OneFits
  <2> QED
    BY <2>7 DEF b, c
<1>5. S = Nat
  <2> HIDE DEF S
  <2>1. S \subseteq Nat
    BY DEF S
  <2> QED
    BY <1>3, <1>4, <2>1, Induction
<1>6. q = Upto(k, Len(q))
  <2> DEFINE n == Len(q)
  <2>1. n \in S /\ n <= n
    BY <1>1, <1>5
  <2>2. Upto(q, n) = Upto(k, n)
    BY <2>1
  <2> QED
    BY <1>2, <2>2
<1>7. \A i \in 1..Len(q) : Upto(k, Len(q))[i] = k[i]
  BY <1>1, Shortened DEF Upto
<1> QED
  BY <1>1, <1>6, <1>7 DEF Under

(* Where a walk along a path is stuck, every walk ends.                    *)
LEMMA StuckEnds ==
    ASSUME NEW t, TreeFit(t), NEW p, p \in Paths, NEW k, k \in DOMAIN t, NEW q, q \in DOMAIN t,
           Along(k, p), Along(q, p), Stuck(t, k, p[Len(k) + 1])
    PROVE  Under(q, k) /\ Len(q) <= Len(k)
<1>1. Len(k) \in Nat /\ Len(q) \in Nat /\ k \in Seq(Token) /\ q \in Seq(Token)
  BY SegmentFacts
<1>2. CASE Len(q) <= Len(k)
  BY <1>2, SameWay
<1>3. CASE ~(Len(q) <= Len(k))
  <2>1. Len(k) <= Len(q)
    BY <1>1, <1>3
  <2>2. Under(k, q) /\ k # q
    BY <1>1, <1>3, <2>1, SameWay
  <2>3. \E c \in Kids(DOMAIN t, k) : Under(c, q) /\ Fits(Last(c), p[Len(k) + 1])
    BY <2>2, AlongKid
  <2> QED
    BY <2>3 DEF Stuck
<1> QED
  BY <1>2, <1>3

-----------------------------------------------------------------------------
(* Where the way ends decides the answer.                                  *)

(* The segments on the way to segment k; the last of some that has a       *)
(* wildcard, with the parameters among its steps.                          *)
Ways(t, k) == {q \in DOMAIN t : Under(q, k)}
LastWildcard(t, Q, a, q, b) ==
    /\ q \in Q /\ t[q].wildcard # NULL /\ ParamSteps(q, b) /\ Under(b, a)
    /\ \A r \in Q : t[r].wildcard # NULL => Len(r) <= Len(q)
NoWildcard(t, Q) == \A r \in Q : t[r].wildcard = NULL

(* How a walk that ends at segment k, before token e, is answered.         *)
AnswersExactly(t, s, k, a, e) ==
    /\ e \notin Literals /\ Append(k, e) \in Held(t)
    /\ s.result = HeldContext(t, Append(k, e)) /\ s.params = Bound(ParNames(t), k, a)
AnswersWildcard(t, s, k, a, e) ==
    /\ e \in Literals /\ Stuck(t, k, e)
    /\ \E q, b : /\ LastWildcard(t, Ways(t, k), a, q, b) /\ s.result = t[q].wildcard
                 /\ s.params = Append(Bound(ParNames(t), k, a), <<WILDCARD_PARAM, Len(q) + 1>>)
AnswersFallback(t, s, k, e) ==
    /\ s.result = Fallback /\ s.params = <<>>
    /\ \/ e \in Literals /\ Stuck(t, k, e) /\ NoWildcard(t, Ways(t, k))
       \/ e \notin Literals /\ Append(k, e) \notin Held(t)
Answer(t, s) ==
    /\ s.path \in Paths
    /\ \E k \in DOMAIN t : \E a :
          /\ Along(k, s.path) /\ ParamSteps(k, a)
          /\ \/ AnswersExactly(t, s, k, a, s.path[Len(k) + 1])
             \/ AnswersWildcard(t, s, k, a, s.path[Len(k) + 1])
             \/ AnswersFallback(t, s, k, s.path[Len(k) + 1])

(* Against an exact route a walk is nowhere stuck, and where it ends       *)
(* before a token that is no literal, the route ends with that token.      *)
LEMMA ExactIs ==
    ASSUME NEW t, TreeFit(t), NEW p, p \in Paths, NEW k, k \in DOMAIN t, Along(k, p),
           NEW r, r \in Held(t), Exact(r, p)
    PROVE  /\ p[Len(k) + 1] \in Literals => ~Stuck(t, k, p[Len(k) + 1])
           /\ p[Len(k) + 1] \notin Literals => r = Append(k, p[Len(k) + 1])
<1> DEFINE q == Front(r)
           e == p[Len(k) + 1]
<1>1. /\ q \in DOMAIN t /\ r = Append(q, Last(r)) /\ Len(r) = Len(q) + 1 /\ Len(q) \in Nat /\ Len(k) \in Nat
      /\ q \in Seq(Token) /\ k \in Seq(Token)
  BY HeldFacts, SegmentFacts
<1>2. Along(q, p) /\ Len(p) = Len(q) + 1 /\ Last(r) = Last(p) /\ Len(k) < Len(p)
  BY <1>1 DEF Exact, Along
<1>3. Len(k) + 1 \in 1..Len(p) /\ Len(p) \in Nat /\ Last(p) = p[Len(p)]
  BY <1>1, <1>2, PathFacts DEF Last
<1>4. ASSUME e \in Literals, Stuck(t, k, e) PROVE FALSE
  <2>1. Len(q) <= Len(k)
    BY <1>1, <1>2, <1>4, StuckEnds
  <2>2. Len(k) + 1 < Len(p)
    BY <1>3, <1>4, PathFacts
  <2> QED
    BY <1>1, <1>2, <2>1, <2>2
<1>5. ASSUME e \notin Literals PROVE r = Append(k, e)
  <2>1. Len(k) + 1 = Len(p)
    BY <1>3, <1>5, PathFacts
  <2>2. Len(k) = Len(q)
    BY <1>1, <1>2, <2>1
  <2>3. Under(q, k)
    BY <1>1, <1>2, <2>2, SameWay
  <2>4. q = k
    BY <1>1, <2>2, <2>3, UnderFacts
  <2>5. Last(r) = e
    BY <1>2, <1>3, <2>1
  <2> HIDE DEF q, e
  <2> QED
    BY <1>1, <2>4, <2>5
<1> QED
  BY <1>4, <1>5

(* What the wildcards over a path cover, given where a walk is stuck.      *)
LEMMA CoversIs ==
    ASSUME NEW t, TreeFit(t), NEW p, p \in Paths, NEW k, k \in DOMAIN t, Along(k, p), Stuck(t, k, p[Len(k) + 1]),
           NEW r, r \in Held(t), Covers(r, p)
    PROVE  Front(r) \in Ways(t, k) /\ t[Front(r)].wildcard # NULL /\ Len(r) = Len(Front(r)) + 1
<1>1. Front(r) \in DOMAIN t /\ Along(Front(r), p) /\ t[Front(r)].wildcard # NULL /\ Len(r) = Len(Front(r)) + 1
  BY HeldFacts DEF Covers
<1> QED
  BY <1>1, StuckEnds DEF Ways

(* A wildcard on the way covers the path.                                  *)
LEMMA WildcardRoute ==
    ASSUME NEW t, TreeFit(t), NEW p, p \in Paths, NEW k, k \in DOMAIN t, Along(k, p), p[Len(k) + 1] \in Literals,
           NEW q, q \in Ways(t, k), t[q].wildcard # NULL
    PROVE  /\ Append(q, Wildcard) \in Held(t) /\ HeldContext(t, Append(q, Wildcard)) = t[q].wildcard
           /\ Covers(Append(q, Wildcard), p) /\ Len(Append(q, Wildcard)) = Len(q) + 1
<1> DEFINE r == Append(q, Wildcard)
<1>1. q \in DOMAIN t /\ Under(q, k) /\ q \in Seq(Token) /\ k \in Seq(Token) /\ Len(q) \in Nat /\ Len(k) \in Nat
  BY SegmentFacts DEF Ways
<1>2. Front(r) = q /\ Last(r) = Wildcard /\ Len(r) = Len(q) + 1
  BY <1>1, TokenKinds, AppendOf
<1>3. r \in Held(t)
  BY <1>1, HeldOf
<1> HIDE DEF r
<1>4. HeldContext(t, r) = t[q].wildcard
  BY <1>2, TokenKinds DEF HeldContext
<1>5. Len(q) <= Len(k) /\ Len(k) < Len(p) /\ Len(p) \in Nat /\ Len(q) + 1 \in 1..Len(p)
  BY <1>1, PathFacts DEF Under, Along
<1>6. Along(q, p)
  <2>1. \A i \in DOMAIN q : i \in DOMAIN k /\ q[i] = k[i]
    BY <1>1 DEF Under
  <2> QED
    BY <1>1, <1>5, <2>1 DEF Along
<1>7. p[Len(q) + 1] \in Literals
  <2>1. Len(q) + 1 # Len(p)
    <3>1. Len(k) + 1 < Len(p)
      BY <1>1, <1>5, PathFacts
    <3> QED
      BY <1>1, <1>5, <3>1
  <2> QED
    BY <1>5, <2>1, PathFacts
<1>8. Covers(r, p)
  BY <1>2, <1>6, <1>7 DEF Covers
<1> QED
  BY <1>2, <1>3, <1>4, <1>8 DEF r

(* The three things that are said of an answer.                            *)
SaysExact(t, s) ==
    \A r \in Held(t) : Exact(r, s.path) => s.result = HeldContext(t, r) /\ s.params = Bindings(r)
SaysWildcard(t, s) ==
    (s.result # Fallback /\ ~\E r \in Held(t) : Exact(r, s.path)) =>
        \E r \in Held(t) :
            /\ Covers(r, s.path) /\ s.result = HeldContext(t, r)
            /\ \A q \in Held(t) : Covers(q, s.path) => Len(q) <= Len(r)
            /\ Len(s.params) > Len(Bindings(r)) /\ Last(s.params) = <<WILDCARD_PARAM, Len(r)>>
            /\ Bindings(r) = SubSeq(s.params, 1, Len(Bindings(r)))
SaysFallback(t, s) ==
    s.result = Fallback =>
        /\ s.params = <<>>
        /\ \A r \in Held(t) : ~Exact(r, s.path)
        /\ (\E r \in Held(t) : Covers(r, s.path)) =>
               \E k \in DOMAIN t : Len(k) = Len(s.path) - 1 /\ Along(k, s.path)

(* The three properties of an answer.                                      *)
LEMMA AnswerIsExact ==
    ASSUME TreeFit(tree), NEW s, Answer(tree, s)
    PROVE  SaysExact(tree, s)
<1> DEFINE t == tree
           p == s.path
<1>1. PICK k, a :
         /\ k \in DOMAIN t /\ Along(k, p) /\ ParamSteps(k, a)
         /\ \/ AnswersExactly(t, s, k, a, p[Len(k) + 1])
            \/ AnswersWildcard(t, s, k, a, p[Len(k) + 1])
            \/ AnswersFallback(t, s, k, p[Len(k) + 1])
  BY DEF Answer
<1> k \in DOMAIN t
  BY <1>1
<1> DEFINE e == p[Len(k) + 1]
<1> SUFFICES ASSUME NEW r \in Held(t), Exact(r, p) PROVE s.result = HeldContext(t, r) /\ s.params = Bindings(r)
  BY DEF SaysExact
<1>2. p \in Paths
  BY DEF Answer
<1>3. (e \in Literals => ~Stuck(t, k, e)) /\ (e \notin Literals => r = Append(k, e))
  BY <1>1, <1>2, ExactIs
<1>4. AnswersExactly(t, s, k, a, e) /\ r = Append(k, e)
  BY <1>1, <1>3 DEF AnswersExactly, AnswersWildcard, AnswersFallback
<1>5. e \in Token /\ e \notin Params /\ k \in Seq(Token)
  <2>1. Len(k) + 1 \in 1..Len(p)
    BY <1>1, <1>2, PathFacts, SegmentFacts DEF Along
  <2>2. k \in Seq(Token)
    BY SegmentFacts
  <2> QED
    BY <1>2, <2>1, <2>2, PathFacts, TokenKinds
<1>6. ParNames(t) = ParamNames
  BY DEF ParNames, ParamNames
<1>7. Bindings(r) = Bound(ParNames(t), k, a)
  <2>1. r \in Seq(Token) /\ ParamSteps(r, a) /\ Bound(ParNames(t), r, a) = Bound(ParNames(t), k, a)
    BY <1>1, <1>4, <1>5, OtherStep, AppendOf
  <2> QED
    BY <1>6, <2>1, BindingsAre
<1> QED
  BY <1>4, <1>7 DEF AnswersExactly

LEMMA AnswerIsWildcard ==
    ASSUME TreeFit(tree), NEW s, Answer(tree, s)
    PROVE  SaysWildcard(tree, s)
<1> DEFINE t == tree
           p == s.path
<1>1. PICK k, a :
         /\ k \in DOMAIN t /\ Along(k, p) /\ ParamSteps(k, a)
         /\ \/ AnswersExactly(t, s, k, a, p[Len(k) + 1])
            \/ AnswersWildcard(t, s, k, a, p[Len(k) + 1])
            \/ AnswersFallback(t, s, k, p[Len(k) + 1])
  BY DEF Answer
<1> k \in DOMAIN t
  BY <1>1
<1> DEFINE e == p[Len(k) + 1]
<1>2. p \in Paths
  BY DEF Answer
<1> SUFFICES ASSUME s.result # Fallback, \A r \in Held(t) : ~Exact(r, p)
             PROVE  \E r \in Held(t) :
                       /\ Covers(r, p) /\ s.result = HeldContext(t, r)
                       /\ \A q \in Held(t) : Covers(q, p) => Len(q) <= Len(r)
                       /\ Len(s.params) > Len(Bindings(r)) /\ Last(s.params) = <<WILDCARD_PARAM, Len(r)>>
                       /\ Bindings(r) = SubSeq(s.params, 1, Len(Bindings(r)))
  BY DEF SaysWildcard
<1>3. k \in Seq(Token) /\ Len(k) \in Nat /\ Len(k) + 1 \in 1..Len(p) /\ Len(p) \in Nat /\ Len(p) > 0
  BY <1>1, <1>2, PathFacts, SegmentFacts DEF Along
<1>4. ~AnswersExactly(t, s, k, a, e)
  <2> SUFFICES ASSUME AnswersExactly(t, s, k, a, e) PROVE FALSE
    OBVIOUS
  <2>1. e \notin Literals /\ Append(k, e) \in Held(t)
    BY DEF AnswersExactly
  <2>2. Len(k) + 1 = Len(p) /\ e \in {End, Trailing, Illegal} /\ e \in Token
    BY <1>2, <1>3, <2>1, PathFacts, TokenKinds
  <2>3. Last(p) = e
    BY <2>2 DEF Last
  <2>4. Front(Append(k, e)) = k /\ Last(Append(k, e)) = e /\ Len(Append(k, e)) = Len(k) + 1
    BY <1>3, <2>2, AppendOf
  <2>5. e # Wildcard
    BY <2>2, TokenKinds
  <2>6. Exact(Append(k, e), p)
    BY <1>1, <2>2, <2>3, <2>4, <2>5 DEF Exact
  <2> QED
    BY <2>1, <2>6
<1>5. AnswersWildcard(t, s, k, a, e)
  BY <1>1, <1>4 DEF AnswersFallback
<1>6. PICK q, b : /\ LastWildcard(t, Ways(t, k), a, q, b) /\ s.result = t[q].wildcard
                  /\ s.params = Append(Bound(ParNames(t), k, a), <<WILDCARD_PARAM, Len(q) + 1>>)
  BY <1>5 DEF AnswersWildcard
<1>7. /\ q \in Ways(t, k) /\ t[q].wildcard # NULL /\ ParamSteps(q, b) /\ Under(b, a) /\ q \in DOMAIN t /\ Under(q, k)
      /\ \A r \in Ways(t, k) : t[r].wildcard # NULL => Len(r) <= Len(q)
  BY <1>6 DEF LastWildcard, Ways
<1>8. e \in Literals /\ Stuck(t, k, e)
  BY <1>5 DEF AnswersWildcard
<1> DEFINE r == Append(q, Wildcard)
           B == Bound(ParNames(t), k, a)
           C == Bound(ParNames(t), q, b)
           v == <<WILDCARD_PARAM, Len(q) + 1>>
<1>9. r \in Held(t) /\ HeldContext(t, r) = t[q].wildcard /\ Covers(r, p) /\ Len(r) = Len(q) + 1
  BY <1>1, <1>2, <1>7, <1>8, WildcardRoute
<1>10. Bindings(r) = C
  <2>1. q \in Seq(Token) /\ Wildcard \in Token /\ Wildcard \notin Params
    BY <1>7, SegmentFacts, TokenKinds
  <2>2. r \in Seq(Token) /\ ParamSteps(r, b) /\ Bound(ParNames(t), r, b) = C
    BY <1>7, <2>1, OtherStep, AppendOf
  <2>3. ParNames(t) = ParamNames
    BY DEF ParNames, ParamNames
  <2> QED
    BY <2>2, <2>3, BindingsAre
<1>11. \A x \in Held(t) : Covers(x, p) => Len(x) <= Len(r)
  <2> TAKE x \in Held(t)
  <2> HAVE Covers(x, p)
  <2>1. Front(x) \in Ways(t, k) /\ t[Front(x)].wildcard # NULL /\ Len(x) = Len(Front(x)) + 1
    BY <1>1, <1>2, <1>8, CoversIs
  <2>2. Len(Front(x)) <= Len(q)
    BY <1>7, <2>1
  <2>3. Len(Front(x)) \in Nat /\ Len(q) \in Nat
    BY <1>7, <2>1, SegmentFacts DEF Ways
  <2> QED
    BY <1>9, <2>1, <2>2, <2>3
<1>12. /\ Len(b) <= Len(a) /\ Len(a) \in Nat /\ Len(b) \in Nat
       /\ \A n \in 1..Len(b) : C[n] = B[n]
  BY <1>1, <1>7, BoundBefore
<1>13. /\ C = [n \in 1..Len(b) |-> C[n]] /\ Len(C) = Len(b)
       /\ B = [n \in 1..Len(a) |-> B[n]] /\ Len(B) = Len(a) /\ B \in Seq({B[n] : n \in 1..Len(a)} \cup {v})
  <2> DEFINE m == Len(a)
             n == Len(b)
  <2>1. C = [i \in 1..n |-> <<Resolve(ParNames(t), q[b[i]].str), b[i]>>]
    BY DEF Bound
  <2>2. B = [i \in 1..m |-> <<Resolve(ParNames(t), k[a[i]].str), a[i]>>]
    BY DEF Bound
  <2>3. m \in Nat /\ n \in Nat
    BY <1>12
  <2> HIDE DEF B, C, m, n
  <2>4. C = [i \in 1..n |-> C[i]] /\ Len(C) = n
    BY ONLY <2>1, <2>3
  <2>5. B = [i \in 1..m |-> B[i]] /\ Len(B) = m
    BY ONLY <2>2, <2>3
  <2>6. B \in Seq({B[i] : i \in 1..m} \cup {v})
    BY ONLY <2>3, <2>5
  <2> QED
    BY <2>4, <2>5, <2>6 DEF m, n
<1> HIDE DEF B, C, v
<1>14. /\ Len(s.params) = Len(a) + 1 /\ s.params[Len(a) + 1] = v
       /\ \A n \in 1..Len(a) : s.params[n] = B[n]
  <2>1. s.params = Append(B, v)
    BY <1>6 DEF B, v
  <2> QED
    BY <1>12, <1>13, <2>1
<1>15. Len(s.params) > Len(C) /\ Last(s.params) = v
  BY <1>12, <1>13, <1>14 DEF Last
<1>16. C = SubSeq(s.params, 1, Len(C))
  <2>1. \A n \in 1..Len(b) : C[n] = s.params[n]
    <3> TAKE n \in 1..Len(b)
    <3>1. n \in 1..Len(a)
      BY <1>12
    <3> QED
      BY <1>12, <1>14, <3>1
  <2>2. SubSeq(s.params, 1, Len(b)) = [n \in 1..Len(b) |-> s.params[n]]
    <3>1. s.params \in Seq({B[n] : n \in 1..Len(a)} \cup {v})
      <4>1. s.params = Append(B, v)
        BY <1>6 DEF B, v
      <4> QED
        BY <1>13, <4>1
    <3>2. Len(b) \in 0..Len(s.params)
      BY <1>12, <1>14
    <3> DEFINE u == SubSeq(s.params, 1, Len(b))
               U == {B[n] : n \in 1..Len(a)} \cup {v}
    <3>3. u \in Seq(U) /\ Len(u) = Len(b) /\ \A n \in 1..Len(b) : u[n] = s.params[n]
      <4> HIDE DEF U
      <4> QED
        BY <3>1, <3>2, Shortened DEF U
    <3> HIDE DEF u, U
    <3>4. u = [n \in 1..Len(b) |-> u[n]]
      BY <3>3, SeqIs
    <3> QED
      BY <3>3, <3>4 DEF u
  <2>3. C = [n \in 1..Len(b) |-> s.params[n]]
    BY <1>13, <2>1
  <2> QED
    BY <1>13, <2>2, <2>3
<1>17. v = <<WILDCARD_PARAM, Len(r)>>
  BY <1>9 DEF v
<1> HIDE DEF r
<1> QED
  BY <1>6, <1>9, <1>10, <1>11, <1>15, <1>16, <1>17

LEMMA AnswerIsFallback ==
    ASSUME tree \in Trees, NEW s, Answer(tree, s)
    PROVE  SaysFallback(tree, s)
<1> DEFINE t == tree
           p == s.path
<1>0. TreeFit(t)
  BY TreesFit
<1>1. PICK k, a :
         /\ k \in DOMAIN t /\ Along(k, p) /\ ParamSteps(k, a)
         /\ \/ AnswersExactly(t, s, k, a, p[Len(k) + 1])
            \/ AnswersWildcard(t, s, k, a, p[Len(k) + 1])
            \/ AnswersFallback(t, s, k, p[Len(k) + 1])
  BY DEF Answer
<1> k \in DOMAIN t
  BY <1>1
<1> DEFINE e == p[Len(k) + 1]
<1>2. p \in Paths
  BY DEF Answer
<1>3. \A r \in Held(t) : HeldContext(t, r) # Fallback
  BY MatchAssumption
<1> SUFFICES ASSUME s.result = Fallback
             PROVE  /\ s.params = <<>>
                    /\ \A r \in Held(t) : ~Exact(r, p)
                    /\ (\E r \in Held(t) : Covers(r, p)) => \E x \in DOMAIN t : Len(x) = Len(p) - 1 /\ Along(x, p)
  BY DEF SaysFallback
<1>4. ~AnswersExactly(t, s, k, a, e)
  BY <1>3 DEF AnswersExactly
<1>5. ~AnswersWildcard(t, s, k, a, e)
  <2> SUFFICES ASSUME AnswersWildcard(t, s, k, a, e) PROVE FALSE
    OBVIOUS
  <2>1. PICK q, b : LastWildcard(t, Ways(t, k), a, q, b) /\ s.result = t[q].wildcard
    BY DEF AnswersWildcard
  <2>2. q \in Ways(t, k) /\ t[q].wildcard # NULL /\ e \in Literals
    BY <2>1 DEF LastWildcard, AnswersWildcard
  <2>3. Append(q, Wildcard) \in Held(t) /\ HeldContext(t, Append(q, Wildcard)) = t[q].wildcard
    BY <1>0, <1>1, <1>2, <2>2, WildcardRoute
  <2> QED
    BY <1>3, <2>1, <2>3
<1>6. AnswersFallback(t, s, k, e)
  BY <1>1, <1>4, <1>5
<1>7. s.params = <<>>
  BY <1>6 DEF AnswersFallback
<1>8. ASSUME NEW r \in Held(t), Exact(r, p) PROVE FALSE
  <2>1. s.result = HeldContext(t, r)
    BY <1>0, <1>8, AnswerIsExact DEF SaysExact
  <2> QED
    BY <1>3, <2>1
<1>9. ASSUME NEW r \in Held(t), Covers(r, p) PROVE \E x \in DOMAIN t : Len(x) = Len(p) - 1 /\ Along(x, p)
  <2>1. CASE e \in Literals /\ Stuck(t, k, e) /\ NoWildcard(t, Ways(t, k))
    <3>1. Front(r) \in Ways(t, k) /\ t[Front(r)].wildcard # NULL
      BY <1>0, <1>1, <1>2, <1>9, <2>1, CoversIs
    <3> QED
      BY <2>1, <3>1 DEF NoWildcard
  <2>2. CASE e \notin Literals
    <3>1. Len(k) \in Nat /\ Len(p) \in Nat /\ Len(k) + 1 \in 1..Len(p)
      BY <1>0, <1>1, <1>2, PathFacts, SegmentFacts DEF Along
    <3>2. Len(k) + 1 = Len(p)
      BY <1>2, <2>2, <3>1, PathFacts
    <3>3. Len(k) = Len(p) - 1
      BY <3>1, <3>2
    <3> QED
      BY <1>1, <3>3
  <2> QED
    BY <1>6, <2>1, <2>2 DEF AnswersFallback
<1> QED
  BY <1>7, <1>8, <1>9

-----------------------------------------------------------------------------
(* Part 3. route_match at a node reads the tree.                           *)

(* What the search among the literal edges of a segment's node finds.      *)
EdgeFound(t, pos, k, e, h) ==
    /\ h # 0 => Append(k, e) \in DOMAIN t /\ EdgeTarget(pos[k], h) = pos[Append(k, e)]
    /\ h = 0 => Append(k, e) \notin DOMAIN t

LEMMA FindEdgeIs ==
    ASSUME NEW t, t = tree, TreeFit(t), NEW pos, Complete(t, pos), NEW k, k \in DOMAIN t, NEW e, e \in Literals
    PROVE  EdgeFound(t, pos, k, e, FindEdge(pos[k], Resolve(LiteralNames, e.str)))
<1> DEFINE o == pos[k]
           n == Len(t[k].children)
           ch == t[k].children
           N == LitNames(t)
           v == Resolve(N, e.str)
           keys == [i \in 1..LiteralCount(Word(o)) |-> EdgeSymbol(o, i)]
           h == FindEdge(o, v)
<1>1. Parts(t, pos, k, o) /\ Edges(t, pos, k, o)
  BY PartsRead, EdgesRead
<1>2. LiteralCount(Word(o)) = n /\ n \in Nat
  BY <1>1, SegmentFacts DEF Parts, WordSays
<1>3. LiteralNames = N
  BY DEF LiteralNames, LitNames
<1>4. /\ v \in Nat /\ (\A m : m \notin N => Resolve(N, m) = 0) /\ (\A m \in N : Resolve(N, m) > 0)
      /\ \A m, l \in N : Resolve(N, m) = Resolve(N, l) => m = l
  <2>1. N \in SUBSET Nat /\ IsFiniteSet(N)
    BY NamesFinite
  <2> HIDE DEF N
  <2> QED
    BY <2>1, ResolveFacts
<1>5. \A j \in 1..n : ch[j] \in N /\ ch[j] \in Names
  BY NamesFinite, SegmentFacts
<1>6. e.str \in Names /\ e = Lit(e.str) /\ e \in Token /\ k \in Seq(Token) /\ e \notin Params
  BY TokenKinds, SegmentFacts
<1>7. \A j \in 1..n : ch[j] = e.str => LitKid(k, ch[j]) = Append(k, e) /\ Append(k, e) \in DOMAIN t
  <2>1. \A j \in 1..n : LitKid(k, ch[j]) \in DOMAIN t
    BY SegmentFacts
  <2> QED
    BY <1>6, <2>1 DEF LitKid
<1>8. Append(k, e) \in DOMAIN t => \E j \in 1..n : ch[j] = e.str
  <2> HAVE Append(k, e) \in DOMAIN t
  <2>1. Append(k, e) \in Kids(DOMAIN t, k) /\ Last(Append(k, e)) = e
    BY <1>6, AppendOf DEF Kids
  <2>2. e \in Literals /\ e \notin Params
    BY <1>6
  <2>3. PICK j \in 1..n : e = Lit(ch[j])
    BY <2>1, <2>2, KidStep
  <2>4. ch[j] = e.str
    BY <1>5, <2>3, TokenKinds
  <2> QED
    BY <2>4
<1>9. (\A i \in 1..n : \E j \in 1..n : EdgePair(t, pos, k, o, i, j))
      /\ (\A j \in 1..n : \E i \in 1..n : EdgePair(t, pos, k, o, i, j))
      /\ (\A i \in 1..n : EdgeSymbol(o, i) \in Nat)
      /\ (\A i, j \in 1..n : i < j => EdgeSymbol(o, i) < EdgeSymbol(o, j))
  BY <1>1 DEF Edges
<1>10. Len(keys) = n /\ keys \in Seq(Nat) /\ Increasing(keys) /\ \A i \in 1..n : keys[i] = EdgeSymbol(o, i)
  <2>1. keys = [i \in 1..n |-> EdgeSymbol(o, i)]
    BY <1>2
  <2> HIDE DEF keys, n
  <2>2. keys \in Seq(Nat) /\ Len(keys) = n /\ \A i \in 1..n : keys[i] = EdgeSymbol(o, i)
    BY <1>2, <1>9, <2>1
  <2>3. Increasing(keys)
    BY <1>9, <2>2 DEF Increasing
  <2> QED
    BY <2>2, <2>3
<1>11. h = IF v = 0 THEN 0 ELSE Search(keys, v)
  BY DEF FindEdge
<1>12. Position(keys, v, 0, n, Search(keys, v))
  <2> HIDE DEF keys, n, v
  <2> QED
    BY <1>4, <1>10, SearchFinds
<1> HIDE DEF keys, h
<1>13. ASSUME h # 0 PROVE Append(k, e) \in DOMAIN t /\ EdgeTarget(o, h) = pos[Append(k, e)]
  <2>1. v # 0 /\ h = Search(keys, v)
    BY <1>11, <1>13
  <2>2. h \in 1..n /\ keys[h] = v
    BY <1>2, <1>12, <1>13, <2>1 DEF Position
  <2>3. PICK j \in 1..n : EdgePair(t, pos, k, o, h, j)
    BY <1>9, <2>2
  <2>4. EdgeSymbol(o, h) = Resolve(N, ch[j]) /\ EdgeTarget(o, h) = pos[LitKid(k, ch[j])]
    BY <2>3 DEF EdgePair
  <2>5. e.str \in N
    BY <1>4, <2>1
  <2>6. ch[j] = e.str
    BY <1>4, <1>5, <1>10, <2>2, <2>4, <2>5
  <2> QED
    BY <1>7, <2>4, <2>6
<1>14. ASSUME h = 0 PROVE Append(k, e) \notin DOMAIN t
  <2> SUFFICES ASSUME Append(k, e) \in DOMAIN t PROVE FALSE
    OBVIOUS
  <2>1. PICK j \in 1..n : ch[j] = e.str
    BY <1>8
  <2>2. e.str \in N /\ v # 0
    <3>1. e.str \in N
      BY <1>5, <2>1
    <3>2. v > 0
      BY <1>4, <3>1
    <3> QED
      BY <1>4, <3>1, <3>2
  <2>3. PICK i \in 1..n : EdgePair(t, pos, k, o, i, j)
    BY <1>9
  <2>4. keys[i] = v
    BY <1>10, <2>1, <2>3 DEF EdgePair
  <2>5. Search(keys, v) = 0
    BY <1>11, <1>14, <2>2
  <2>6. \A a \in (0 + 1)..n : keys[a] # v
    BY <1>12, <2>5 DEF Position
  <2> QED
    BY <2>4, <2>6
<1> QED
  BY <1>3, <1>13, <1>14 DEF EdgeFound, h

(* What else route_match reads of a segment's node.                        *)
NodeSays(t, pos, k, o) ==
    /\ o \in Nat
    /\ HasFlag(Word(o), FLAG_PARAM) <=> t[k].spec = "SPEC_PARAM"
    /\ HasFlag(Word(o), FLAG_WILDCARD) <=> t[k].wildcard # NULL
    /\ HasFlag(Word(o), FLAG_TRAILING) <=> t[k].trailing # NULL
    /\ HasFlag(Word(o), FLAG_TERMINAL) <=> t[k].terminal # NULL
    /\ t[k].spec = "SPEC_PARAM" => /\ ParamSymbol(o) = Resolve(ParNames(t), t[k].param)
                                   /\ ParamEdge(o) = pos[Append(k, Par(t[k].param))]
    /\ t[k].wildcard # NULL => WildcardEdge(o) = pos[Append(k, Wildcard)]
    /\ t[k].trailing # NULL => Lookup(TrailingEdge(o)) = t[k].trailing
    /\ Lookup(o) = t[k].terminal

LEMMA NodeIs ==
    ASSUME NEW t, TreeFit(t), NEW pos, Complete(t, pos), NEW k, k \in DOMAIN t
    PROVE  NodeSays(t, pos, k, pos[k])
<1> DEFINE o == pos[k]
<1>1. Parts(t, pos, k, o)
  BY PartsRead
<1>2. WordSays(Word(o), t[k])
  BY <1>1 DEF Parts
<1>3. t[k].wildcard # NULL <=> t[k].spec = "SPEC_WILDCARD"
  BY SegmentFacts
<1>4. /\ Lookup(o) = t[k].terminal
      /\ t[k].trailing # NULL => Lookup(pos[Append(k, Trailing)]) = t[k].trailing
  BY SegmentLookups
<1>5. o \in Nat
  BY SpotsApart DEF Real
<1>6. /\ t[k].spec = "SPEC_PARAM" => /\ ParamSymbol(o) = Resolve(ParNames(t), t[k].param)
                                     /\ ParamEdge(o) = pos[Append(k, Par(t[k].param))]
      /\ t[k].spec = "SPEC_WILDCARD" => WildcardEdge(o) = pos[Append(k, Wildcard)]
      /\ t[k].trailing # NULL => TrailingEdge(o) = pos[Append(k, Trailing)]
  BY <1>1 DEF Parts
<1> HIDE DEF o
<1> QED
  BY <1>2, <1>3, <1>4, <1>5, <1>6, Zenon DEF WordSays, NodeSays, o

(* No leaf is at offset 0, which stands for none.                          *)
LEMMA WildcardSpot ==
    ASSUME NEW t, TreeFit(t), NEW pos, Complete(t, pos), NEW k, k \in DOMAIN t, t[k].wildcard # NULL
    PROVE  /\ pos[Append(k, Wildcard)] \in Nat /\ pos[Append(k, Wildcard)] # 0
           /\ Lookup(pos[Append(k, Wildcard)]) = t[k].wildcard
<1> DEFINE x == Append(k, Wildcard)
<1>1. x \in Leaves(t) /\ x \in Real(t) /\ Root \in Real(t)
  BY DomainClosed DEF Leaves, WithWildcard, Real
<1>2. x # Root
  BY SegmentFacts, TokenKinds, AppendOf DEF Root
<1>3. pos[Root] = 0
  BY <1>1 DEF Complete, Allotted
<1> HIDE DEF x
<1>4. pos[x] \in Nat /\ pos[x] # 0
  BY <1>1, <1>2, <1>3, SpotsApart
<1> QED
  BY <1>4, SegmentLookups DEF x

-----------------------------------------------------------------------------
(* The state of a request under way.                                       *)

DispState == [pc : {"idle", "match", "done", "undefined"}, path : Paths \cup {<<>>}, at : Nat, cursor : Nat,
              w_edge : Nat, w_param : Nat, params : Seq(Nat \X Nat), result : Holders]

(* The wildcard that route_match remembers: the last over some segments.   *)
Remembered(t, pos, Q, a, we, wp) ==
    \/ we = 0 /\ wp = 0 /\ NoWildcard(t, Q)
    \/ \E q, b : LastWildcard(t, Q, a, q, b) /\ we = pos[Append(q, Wildcard)] /\ wp = Len(q) + 1

(* A request under way: the cursor is at a segment along the path, whose   *)
(* steps' parameters are bound.                                            *)
Walking(t, pos, s) ==
    /\ s.path \in Paths
    /\ \E k \in DOMAIN t : \E a :
          /\ s.at = Len(k) + 1 /\ Along(k, s.path) /\ ParamSteps(k, a)
          /\ s.cursor = pos[k] /\ s.params = Bound(ParNames(t), k, a)
          /\ Remembered(t, pos, Ways(t, k) \ {k}, a, s.w_edge, s.w_param)

StateOK(t, pos, s) ==
    /\ s \in DispState
    /\ s.pc = "match" => Walking(t, pos, s)
    /\ s.pc = "done" => Answer(t, s)

LEMMA RememberHere ==
    ASSUME NEW t, TreeFit(t), NEW pos, NEW k, k \in DOMAIN t, NEW a, ParamSteps(k, a), NEW we, NEW wp,
           Remembered(t, pos, Ways(t, k) \ {k}, a, we, wp), NEW we2, NEW wp2,
           t[k].wildcard # NULL => we2 = pos[Append(k, Wildcard)] /\ wp2 = Len(k) + 1,
           t[k].wildcard = NULL => we2 = we /\ wp2 = wp
    PROVE  Remembered(t, pos, Ways(t, k), a, we2, wp2)
<1>1. k \in Seq(Token) /\ k \in Ways(t, k) /\ \A r \in Ways(t, k) : Len(r) <= Len(k)
  BY SegmentFacts, UnderFacts DEF Ways, Under
<1>2. CASE t[k].wildcard # NULL
  <2>1. Under(a, a)
    BY UnderFacts DEF ParamSteps
  <2>2. LastWildcard(t, Ways(t, k), a, k, a)
    BY <1>1, <1>2, <2>1 DEF LastWildcard
  <2> QED
    BY <1>2, <2>2 DEF Remembered
<1>3. CASE t[k].wildcard = NULL
  <2>1. CASE we = 0 /\ wp = 0 /\ NoWildcard(t, Ways(t, k) \ {k})
    <3>1. NoWildcard(t, Ways(t, k))
      BY <1>3, <2>1 DEF NoWildcard
    <3> QED
      BY <1>3, <2>1, <3>1 DEF Remembered
  <2>2. CASE \E q, b : LastWildcard(t, Ways(t, k) \ {k}, a, q, b) /\ we = pos[Append(q, Wildcard)] /\ wp = Len(q) + 1
    <3>1. PICK q, b : LastWildcard(t, Ways(t, k) \ {k}, a, q, b) /\ we = pos[Append(q, Wildcard)] /\ wp = Len(q) + 1
      BY <2>2
    <3>2. LastWildcard(t, Ways(t, k), a, q, b)
      BY <1>3, <3>1 DEF LastWildcard
    <3> QED
      BY <1>3, <3>1, <3>2 DEF Remembered
  <2> QED
    BY <2>1, <2>2 DEF Remembered
<1> QED
  BY <1>2, <1>3

LEMMA RememberOn ==
    ASSUME NEW t, TreeFit(t), NEW pos, NEW k, k \in DOMAIN t, NEW e, e \in Token, Append(k, e) \in DOMAIN t,
           NEW a, a \in Seq(Nat), NEW a2, a2 \in Seq(Nat), Under(a, a2), NEW we, NEW wp,
           Remembered(t, pos, Ways(t, k), a, we, wp)
    PROVE  Remembered(t, pos, Ways(t, Append(k, e)) \ {Append(k, e)}, a2, we, wp)
<1> DEFINE c == Append(k, e)
<1>1. c \in Seq(Token) /\ c # <<>> /\ Front(c) = k /\ k \in Seq(Token) /\ Len(c) = Len(k) + 1 /\ Len(k) \in Nat
  BY SegmentFacts, AppendOf
<1>2. Ways(t, c) \ {c} = Ways(t, k)
  <2>1. \A q \in DOMAIN t : Under(q, c) <=> Under(q, k) \/ q = c
    <3> TAKE q \in DOMAIN t
    <3>1. q \in Seq(Token)
      BY SegmentFacts
    <3> HIDE DEF c
    <3>2. Under(q, c) <=> Under(q, Front(c)) \/ q = c
      BY <1>1, <3>1, UnderFront
    <3> QED
      BY <1>1, <3>2
  <2>2. ~Under(c, k)
    BY <1>1 DEF Under
  <2> HIDE DEF c
  <2> QED
    BY <2>1, <2>2 DEF Ways
<1> HIDE DEF c
<1>3. CASE we = 0 /\ wp = 0 /\ NoWildcard(t, Ways(t, k))
  BY <1>2, <1>3 DEF Remembered, c
<1>4. CASE \E q, b : LastWildcard(t, Ways(t, k), a, q, b) /\ we = pos[Append(q, Wildcard)] /\ wp = Len(q) + 1
  <2>1. PICK q, b : LastWildcard(t, Ways(t, k), a, q, b) /\ we = pos[Append(q, Wildcard)] /\ wp = Len(q) + 1
    BY <1>4
  <2>2. Under(b, a2) /\ b \in Seq(Nat)
    <3>1. Under(b, a) /\ b \in Seq(Nat)
      BY <2>1 DEF LastWildcard, ParamSteps
    <3> QED
      BY <3>1, UnderFacts
  <2>3. LastWildcard(t, Ways(t, k), a2, q, b)
    BY <2>1, <2>2 DEF LastWildcard
  <2> QED
    BY <1>2, <2>1, <2>3 DEF Remembered, c
<1> QED
  BY <1>3, <1>4 DEF Remembered

LEMMA WalkOn ==
    ASSUME NEW t, TreeFit(t), NEW pos, NEW p, p \in Paths, NEW k, k \in DOMAIN t, Along(k, p),
           NEW e, e \in Token, Append(k, e) \in DOMAIN t, p[Len(k) + 1] \in Literals, Fits(e, p[Len(k) + 1]),
           NEW a, a \in Seq(Nat), NEW a2, ParamSteps(Append(k, e), a2), Under(a, a2), NEW we, NEW wp,
           Remembered(t, pos, Ways(t, k), a, we, wp), NEW s,
           s.path = p, s.at = Len(k) + 2, s.cursor = pos[Append(k, e)],
           s.params = Bound(ParNames(t), Append(k, e), a2), s.w_edge = we, s.w_param = wp
    PROVE  Walking(t, pos, s)
<1> DEFINE c == Append(k, e)
<1>1. /\ Len(c) = Len(k) + 1 /\ Len(k) \in Nat /\ (\A i \in 1..Len(k) : c[i] = k[i]) /\ c[Len(k) + 1] = e
      /\ DOMAIN c = 1..Len(c) /\ DOMAIN k = 1..Len(k)
  BY SegmentFacts, AppendOf
<1>2. a2 \in Seq(Nat)
  BY DEF ParamSteps
<1>3. Remembered(t, pos, Ways(t, c) \ {c}, a2, we, wp)
  BY <1>2, RememberOn
<1>4. Along(c, p)
  <2>1. Len(k) + 1 \in 1..Len(p) /\ Len(p) \in Nat
    BY <1>1, PathFacts DEF Along
  <2>2. Len(k) + 1 < Len(p)
    BY <2>1, PathFacts
  <2>3. \A i \in 1..Len(c) : i \in 1..Len(k) \/ i = Len(k) + 1
    BY <1>1
  <2> HIDE DEF c
  <2>4. \A i \in 1..Len(c) : Fits(c[i], p[i])
    BY <1>1, <2>3 DEF Along
  <2> QED
    BY <1>1, <2>2, <2>4 DEF Along
<1>5. s.at = Len(c) + 1
  <2> HIDE DEF c
  <2> QED
    BY <1>1
<1> HIDE DEF c
<1> QED
  BY <1>3, <1>4, <1>5 DEF Walking, c

-----------------------------------------------------------------------------
(* The steps of route_match.                                               *)

(* A request at segment k, with what is remembered and read there.         *)
AtNode(t, pos, d, k, a) ==
    /\ k \in DOMAIN t /\ disp[d].path \in Paths /\ disp[d].at = Len(k) + 1 /\ Len(k) + 1 \in 1..Len(disp[d].path)
    /\ Along(k, disp[d].path) /\ ParamSteps(k, a) /\ disp[d].params = Bound(ParNames(t), k, a)
    /\ NodeOf(d) = pos[k] /\ NodeSays(t, pos, k, pos[k]) /\ Tok(d) = disp[d].path[Len(k) + 1]
    /\ WEdge(d) \in Nat /\ WParam(d) \in Nat
    /\ Tok(d) \in Literals => Remembered(t, pos, Ways(t, k), a, WEdge(d), WParam(d))

(* A dispatcher's state by its parts.                                      *)
AsState(pc, p, at, o, we, wp, ps, c) ==
    [pc |-> pc, path |-> p, at |-> at, cursor |-> o, w_edge |-> we, w_param |-> wp, params |-> ps, result |-> c]

LEMMA StateType ==
    ASSUME NEW pc \in {"idle", "match", "done", "undefined"}, NEW p \in Paths \cup {<<>>}, NEW at \in Nat, NEW o \in Nat,
           NEW we \in Nat, NEW wp \in Nat, NEW ps \in Seq(Nat \X Nat), NEW c \in Holders
    PROVE  AsState(pc, p, at, o, we, wp, ps, c) \in DispState
BY DEF AsState, DispState

LEMMA StateParts ==
    ASSUME NEW s \in DispState
    PROVE  /\ s = AsState(s.pc, s.path, s.at, s.cursor, s.w_edge, s.w_param, s.params, s.result)
           /\ s.pc \in {"idle", "match", "done", "undefined"} /\ s.path \in Paths \cup {<<>>} /\ s.at \in Nat
           /\ s.cursor \in Nat /\ s.w_edge \in Nat /\ s.w_param \in Nat /\ s.params \in Seq(Nat \X Nat)
           /\ s.result \in Holders
BY DEF AsState, DispState

LEMMA LoadedIs ==
    ASSUME NEW p
    PROVE  [Idle EXCEPT !.pc = "match", !.path = p, !.at = 1] = AsState("match", p, 1, 0, 0, 0, <<>>, NULL)
<1> DEFINE r1 == [Idle EXCEPT !.pc = "match"]
           r2 == [r1 EXCEPT !.path = p]
           r3 == [r2 EXCEPT !.at = 1]
<1>1. r1 = AsState("match", <<>>, 0, 0, 0, 0, <<>>, NULL)
  BY DEF AsState, Idle
<1>2. r3 = [Idle EXCEPT !.pc = "match", !.path = p, !.at = 1]
  OBVIOUS
<1> HIDE DEF r1
<1>3. r2 = AsState("match", p, 0, 0, 0, 0, <<>>, NULL)
  BY <1>1 DEF AsState
<1> HIDE DEF r2
<1>4. r3 = AsState("match", p, 1, 0, 0, 0, <<>>, NULL)
  BY <1>3 DEF AsState
<1> QED
  BY <1>2, <1>4 DEF r1, r2

LEMMA NextIs ==
    ASSUME NEW d, disp[d] \in DispState, NEW o
    PROVE  NextNode(d, o) = AsState(disp[d].pc, disp[d].path, disp[d].at + 1, o, WEdge(d), WParam(d),
                                    disp[d].params, disp[d].result)
<1> DEFINE s == disp[d]
           we == WEdge(d)
           wp == WParam(d)
           r1 == [s EXCEPT !.cursor = o]
           r2 == [r1 EXCEPT !.at = r1.at + 1]
           r3 == [r2 EXCEPT !.w_edge = we]
           r4 == [r3 EXCEPT !.w_param = wp]
<1>1. s = AsState(s.pc, s.path, s.at, s.cursor, s.w_edge, s.w_param, s.params, s.result)
  BY StateParts
<1>2. r1 = AsState(s.pc, s.path, s.at, o, s.w_edge, s.w_param, s.params, s.result)
  BY <1>1 DEF AsState
<1>3. r4 = NextNode(d, o)
  BY Zenon DEF NextNode
<1> HIDE DEF we, wp, r1
<1>4. r2 = AsState(s.pc, s.path, s.at + 1, o, s.w_edge, s.w_param, s.params, s.result)
  BY <1>2 DEF AsState
<1> HIDE DEF r2
<1>5. r3 = AsState(s.pc, s.path, s.at + 1, o, we, s.w_param, s.params, s.result)
  BY <1>4 DEF AsState
<1> HIDE DEF r3
<1>6. r4 = AsState(s.pc, s.path, s.at + 1, o, we, wp, s.params, s.result)
  BY <1>5 DEF AsState
<1> QED
  BY <1>3, <1>6 DEF we, wp, r1, r2, r3

LEMMA FinishedIs ==
    ASSUME NEW d, disp[d] \in DispState, NEW c
    PROVE  Finished(d, c) = AsState("done", disp[d].path, disp[d].at, 0, 0, 0, disp[d].params, c)
<1> DEFINE s == disp[d]
           r1 == [s EXCEPT !.pc = "done"]
           r2 == [r1 EXCEPT !.result = c]
           r3 == [r2 EXCEPT !.w_edge = 0]
           r4 == [r3 EXCEPT !.w_param = 0]
           r5 == [r4 EXCEPT !.cursor = 0]
<1>1. s = AsState(s.pc, s.path, s.at, s.cursor, s.w_edge, s.w_param, s.params, s.result)
  BY StateParts
<1>2. r1 = AsState("done", s.path, s.at, s.cursor, s.w_edge, s.w_param, s.params, s.result)
  BY <1>1 DEF AsState
<1>3. r5 = Finished(d, c)
  BY Zenon DEF Finished
<1> HIDE DEF r1
<1>4. r2 = AsState("done", s.path, s.at, s.cursor, s.w_edge, s.w_param, s.params, c)
  BY <1>2 DEF AsState
<1> HIDE DEF r2
<1>5. r3 = AsState("done", s.path, s.at, s.cursor, 0, s.w_param, s.params, c)
  BY <1>4 DEF AsState
<1> HIDE DEF r3
<1>6. r4 = AsState("done", s.path, s.at, s.cursor, 0, 0, s.params, c)
  BY <1>5 DEF AsState
<1> HIDE DEF r4
<1>7. r5 = AsState("done", s.path, s.at, 0, 0, 0, s.params, c)
  BY <1>6 DEF AsState
<1> QED
  BY <1>3, <1>7 DEF r1, r2, r3, r4

(* param_next answers the next entry, or the array is overrun.             *)
Nowhere == AsState("undefined", <<>>, 0, 0, 0, 0, <<>>, NULL)

LEMMA BindIs ==
    ASSUME NEW d, NEW name, NEW v, NEW s, NEW pc, NEW p, NEW at, NEW o, NEW we, NEW wp, NEW ps, NEW c,
           s = AsState(pc, p, at, o, we, wp, ps, c)
    PROVE  Bind(d, name, v, s) \in {Nowhere, AsState(pc, p, at, o, we, wp, Append(disp[d].params, <<name, v>>), c)}
<1>1. [Idle EXCEPT !.pc = "undefined"] = Nowhere
  BY DEF AsState, Idle, Nowhere
<1> DEFINE qs == Append(disp[d].params, <<name, v>>)
<1>2. [s EXCEPT !.params = qs] = AsState(pc, p, at, o, we, wp, qs, c)
  <2> HIDE DEF qs
  <2> QED
    BY DEF AsState
<1> QED
  BY <1>1, <1>2 DEF Bind

LEMMA NowhereOK == \A t, pos : StateOK(t, pos, Nowhere)
<1>1. Nowhere \in DispState
  <2>1. NULL \in Holders /\ <<>> \in Seq(Nat \X Nat) /\ <<>> \in Paths \cup {<<>>} /\ 0 \in Nat
    BY DEF Holders
  <2> QED
    BY ONLY <2>1, StateType DEF Nowhere
<1>2. Nowhere.pc = "undefined"
  BY DEF Nowhere, AsState
<1> QED
  BY <1>1, <1>2 DEF StateOK

LEMMA NodeReached ==
    ASSUME TreeFit(tree), NEW pos, Complete(tree, pos), NEW d, StateOK(tree, pos, disp[d]), Matching(d)
    PROVE  \E k, a : AtNode(tree, pos, d, k, a)
<1> DEFINE t == tree
           s == disp[d]
<1>1. s \in DispState /\ Walking(t, pos, s)
  BY DEF StateOK, Matching
<1>2. PICK k, a :
         /\ k \in DOMAIN t /\ s.at = Len(k) + 1 /\ Along(k, s.path) /\ ParamSteps(k, a)
         /\ s.cursor = pos[k] /\ s.params = Bound(ParNames(t), k, a)
         /\ Remembered(t, pos, Ways(t, k) \ {k}, a, s.w_edge, s.w_param)
  BY <1>1 DEF Walking
<1> k \in DOMAIN t
  BY <1>2
<1>3. s.path \in Paths /\ s.at \in Nat /\ s.w_edge \in Nat /\ s.w_param \in Nat
  BY <1>1 DEF Walking, DispState
<1>4. Len(k) + 1 \in 1..Len(s.path)
  BY <1>2, <1>3, PathFacts, SegmentFacts DEF Along
<1>5. NodeOf(d) = pos[k] /\ Tok(d) = s.path[Len(k) + 1]
  BY <1>2 DEF NodeOf, Tok
<1>6. NodeSays(t, pos, k, pos[k])
  BY NodeIs
<1>7. HasWildcard(d) <=> t[k].wildcard # NULL
  BY <1>5, <1>6 DEF HasWildcard, NodeSays
<1>8. CASE t[k].wildcard # NULL
  <2>1. WEdge(d) = pos[Append(k, Wildcard)]
    BY <1>5, <1>6, <1>7, <1>8 DEF WEdge, NodeSays
  <2>2. WEdge(d) \in Nat
    BY <1>8, <2>1, WildcardSpot
  <2>3. WParam(d) = IF Tok(d) \in Literals THEN Len(k) + 1 ELSE 0
    BY <1>2, <1>7, <1>8 DEF WParam
  <2>4. Tok(d) \in Literals => Remembered(t, pos, Ways(t, k), a, WEdge(d), WParam(d))
    <3> HAVE Tok(d) \in Literals
    <3>1. WParam(d) = Len(k) + 1
      BY <2>3
    <3> QED
      BY <1>2, <1>8, <2>1, <3>1, RememberHere
  <2>5. WParam(d) \in Nat
    BY <1>4, <2>3
  <2> QED
    BY <1>2, <1>3, <1>4, <1>5, <1>6, <2>2, <2>4, <2>5 DEF AtNode
<1>9. CASE t[k].wildcard = NULL
  <2>1. WEdge(d) = s.w_edge /\ WParam(d) = s.w_param
    BY <1>7, <1>9 DEF WEdge, WParam
  <2>2. Remembered(t, pos, Ways(t, k), a, WEdge(d), WParam(d))
    BY <1>2, <1>9, <2>1, RememberHere
  <2> QED
    BY <1>2, <1>3, <1>4, <1>5, <1>6, <2>1, <2>2 DEF AtNode
<1> QED
  BY <1>8, <1>9

LEMMA FollowEdgeOK ==
    ASSUME TreeFit(tree), NEW pos, Complete(tree, pos), NEW d, StateOK(tree, pos, disp[d]),
           AtLiteral(d), Edge(d) # 0
    PROVE  StateOK(tree, pos, NextNode(d, EdgeTarget(NodeOf(d), Edge(d))))
<1> DEFINE t == tree
           s == disp[d]
           s2 == NextNode(d, EdgeTarget(NodeOf(d), Edge(d)))
<1>1. Matching(d) /\ Tok(d) \in Literals /\ s \in DispState
  BY DEF AtLiteral, StateOK
<1>2. PICK k, a : AtNode(t, pos, d, k, a)
  BY <1>1, NodeReached
<1> DEFINE e == Tok(d)
           c == Append(k, e)
<1>3. k \in DOMAIN t /\ NodeOf(d) = pos[k] /\ ParamSteps(k, a) /\ k \in Seq(Token) /\ Len(k) \in Nat
  BY <1>2, SegmentFacts DEF AtNode
<1>4. c \in DOMAIN t /\ EdgeTarget(NodeOf(d), Edge(d)) = pos[c]
  <2>1. EdgeFound(t, pos, k, e, Edge(d))
    BY <1>1, <1>3, FindEdgeIs DEF Edge
  <2> QED
    BY <1>3, <2>1 DEF EdgeFound
<1>5. e \in Token /\ e \notin Params /\ Fits(e, e)
  BY <1>1, TokenKinds DEF Fits
<1>6. ParamSteps(c, a) /\ Bound(ParNames(t), c, a) = Bound(ParNames(t), k, a)
  BY <1>3, <1>5, OtherStep
<1>7. Under(a, a) /\ a \in Seq(Nat)
  BY <1>3, UnderFacts DEF ParamSteps
<1>8. pos[c] \in Nat
  BY <1>4, SpotsApart DEF Real
<1>9. s2 = AsState(s.pc, s.path, s.at + 1, pos[c], WEdge(d), WParam(d), s.params, s.result)
  BY <1>1, <1>4, NextIs
<1>10. /\ s2 \in DispState /\ s2.pc = s.pc /\ s2.path = s.path /\ s2.params = s.params
       /\ s2.cursor = pos[c] /\ s2.at = s.at + 1 /\ s2.w_edge = WEdge(d) /\ s2.w_param = WParam(d)
  <2>1. WEdge(d) \in Nat /\ WParam(d) \in Nat
    BY <1>2 DEF AtNode
  <2>2. /\ s.pc \in {"idle", "match", "done", "undefined"} /\ s.path \in Paths \cup {<<>>} /\ s.at + 1 \in Nat
        /\ s.params \in Seq(Nat \X Nat) /\ s.result \in Holders
    BY <1>1, StateParts
  <2> HIDE DEF s2, c, s
  <2>3. s2 \in DispState
    BY ONLY <1>8, <1>9, <2>1, <2>2, StateType
  <2> QED
    BY ONLY <1>9, <2>3 DEF AsState
<1> HIDE DEF s2
<1>11. Walking(t, pos, s2)
  <2>1. /\ s.path \in Paths /\ Along(k, s.path) /\ s.path[Len(k) + 1] = e /\ s.at = Len(k) + 1
        /\ s.params = Bound(ParNames(t), k, a) /\ Remembered(t, pos, Ways(t, k), a, WEdge(d), WParam(d))
    BY <1>1, <1>2 DEF AtNode
  <2>2. s2.at = Len(k) + 2
    BY <1>3, <1>10, <2>1
  <2> DEFINE p == s.path
  <2>3. /\ p[Len(k) + 1] \in Literals /\ Fits(e, p[Len(k) + 1]) /\ s2.path = p
        /\ s2.params = Bound(ParNames(t), c, a)
    BY <1>1, <1>5, <1>6, <1>10, <2>1
  <2> HIDE DEF p, e
  <2>4. p \in Paths /\ Along(k, p)
    BY <2>1 DEF p
  <2> QED
    BY <1>3, <1>4, <1>5, <1>6, <1>7, <1>10, <2>1, <2>2, <2>3, <2>4, WalkOn
<1>12. s2.pc = "match"
  BY <1>1, <1>10 DEF Matching
<1> QED
  BY <1>10, <1>11, <1>12 DEF StateOK, s2

LEMMA DispatchOK ==
    ASSUME TreeFit(tree), NEW pos, Complete(tree, pos), NEW p, p \in Paths
    PROVE  StateOK(tree, pos, [Idle EXCEPT !.pc = "match", !.path = p, !.at = 1])
<1> DEFINE s == [Idle EXCEPT !.pc = "match", !.path = p, !.at = 1]
<1>1. /\ s \in DispState /\ s.pc = "match" /\ s.path = p /\ s.at = 1 /\ s.cursor = 0 /\ s.params = <<>>
      /\ s.w_edge = 0 /\ s.w_param = 0
  <2>1. s = AsState("match", p, 1, 0, 0, 0, <<>>, NULL)
    BY LoadedIs
  <2>2. NULL \in Holders /\ <<>> \in Seq(Nat \X Nat) /\ p \in Paths \cup {<<>>} /\ 0 \in Nat /\ 1 \in Nat
    BY DEF Holders
  <2> HIDE DEF s
  <2>3. s \in DispState
    BY ONLY <2>1, <2>2, StateType
  <2> QED
    BY ONLY <2>1, <2>3 DEF AsState
<1> HIDE DEF s
<1>2. Root \in DOMAIN tree /\ pos[Root] = 0 /\ Len(Root) = 0
  BY DomainClosed DEF Complete, Allotted, Real, Root
<1>3. ParamSteps(Root, <<>>) /\ Bound(ParNames(tree), Root, <<>>) = <<>>
  BY RootSteps
<1>4. Along(Root, p)
  BY PathFacts DEF Along, Root
<1>5. NoWildcard(tree, Ways(tree, Root) \ {Root})
  <2>1. \A q \in Ways(tree, Root) : q = Root
    <3> TAKE q \in Ways(tree, Root)
    <3>1. q \in Seq(Token) /\ Len(q) <= 0
      BY <1>2, SegmentFacts DEF Ways, Under
    <3> QED
      BY <3>1 DEF Root
  <2> QED
    BY <2>1 DEF NoWildcard
<1>6. Remembered(tree, pos, Ways(tree, Root) \ {Root}, <<>>, s.w_edge, s.w_param)
  BY <1>1, <1>5 DEF Remembered
<1>7. Walking(tree, pos, s)
  <2>1. s.at = Len(Root) + 1
    BY <1>1, <1>2
  <2> QED
    BY <1>1, <1>2, <1>3, <1>4, <1>6, <2>1 DEF Walking
<1> QED
  BY <1>1, <1>7 DEF StateOK, s

LEMMA FollowParamOK ==
    ASSUME TreeFit(tree), NEW pos, Complete(tree, pos), NEW d, StateOK(tree, pos, disp[d]),
           AtLiteral(d), HasFlag(Word(NodeOf(d)), FLAG_PARAM)
    PROVE  StateOK(tree, pos, Bind(d, ParamSymbol(NodeOf(d)), disp[d].at, NextNode(d, ParamEdge(NodeOf(d)))))
<1> DEFINE t == tree
           s == disp[d]
           n2 == NextNode(d, ParamEdge(NodeOf(d)))
           b2 == Bind(d, ParamSymbol(NodeOf(d)), s.at, n2)
<1>1. Matching(d) /\ Tok(d) \in Literals /\ s \in DispState
  BY DEF AtLiteral, StateOK
<1>2. PICK k, a : AtNode(t, pos, d, k, a)
  BY <1>1, NodeReached
<1> DEFINE e == Par(t[k].param)
           c == Append(k, e)
           a2 == Append(a, Len(k) + 1)
           v == ParamSymbol(NodeOf(d))
<1>3. k \in DOMAIN t /\ NodeOf(d) = pos[k] /\ ParamSteps(k, a) /\ k \in Seq(Token) /\ Len(k) \in Nat /\ a \in Seq(Nat)
  BY <1>2, SegmentFacts DEF AtNode, ParamSteps
<1>4. t[k].spec = "SPEC_PARAM" /\ v = Resolve(ParNames(t), t[k].param) /\ ParamEdge(NodeOf(d)) = pos[c]
  BY <1>2 DEF AtNode, NodeSays
<1>5. c \in DOMAIN t /\ t[k].param \in Names /\ e \in Params /\ e \in Token /\ e.str = t[k].param
  <2>1. c \in DOMAIN t /\ t[k].param \in Names
    BY <1>3, <1>4, SegmentFacts
  <2> QED
    BY <2>1, TokenKinds
<1>6. Fits(e, Tok(d))
  BY <1>1, <1>5 DEF Fits
<1>7. /\ ParamSteps(c, a2) /\ Under(a, a2)
      /\ Bound(ParNames(t), c, a2) = Append(Bound(ParNames(t), k, a), <<v, Len(k) + 1>>)
  BY <1>3, <1>4, <1>5, ParamStep
<1>8. pos[c] \in Nat
  BY <1>5, SpotsApart DEF Real
<1>9. n2 = AsState(s.pc, s.path, s.at + 1, pos[c], WEdge(d), WParam(d), s.params, s.result)
  BY <1>1, <1>4, NextIs
<1> DEFINE ps == Append(s.params, <<v, s.at>>)
           s2 == AsState(s.pc, s.path, s.at + 1, pos[c], WEdge(d), WParam(d), ps, s.result)
<1>10. b2 \in {Nowhere, s2}
  <2> HIDE DEF n2, c
  <2> QED
    BY <1>9, BindIs
<1>11. /\ s.path \in Paths /\ Along(k, s.path) /\ s.path[Len(k) + 1] = Tok(d) /\ s.at = Len(k) + 1
       /\ s.params = Bound(ParNames(t), k, a) /\ Remembered(t, pos, Ways(t, k), a, WEdge(d), WParam(d))
       /\ WEdge(d) \in Nat /\ WParam(d) \in Nat
  BY <1>1, <1>2 DEF AtNode
<1>12. /\ s2 \in DispState /\ s2.pc = s.pc /\ s2.path = s.path /\ s2.params = ps
       /\ s2.cursor = pos[c] /\ s2.at = s.at + 1 /\ s2.w_edge = WEdge(d) /\ s2.w_param = WParam(d)
  <2>2. /\ s.pc \in {"idle", "match", "done", "undefined"} /\ s.path \in Paths \cup {<<>>} /\ s.at + 1 \in Nat
        /\ s.params \in Seq(Nat \X Nat) /\ s.result \in Holders /\ s.at \in Nat
    BY <1>1, StateParts
  <2>3. v \in Nat
    <3> DEFINE N == ParNames(t)
    <3>1. N \in SUBSET Nat /\ IsFiniteSet(N)
      BY NamesFinite
    <3> HIDE DEF N
    <3>2. Resolve(N, t[k].param) \in Nat
      BY <3>1, ResolveFacts
    <3> QED
      BY <1>4, <3>2 DEF N
  <2>4. ps \in Seq(Nat \X Nat)
    <3> HIDE DEF v
    <3> QED
      BY <2>2, <2>3
  <2> DEFINE at2 == s.at + 1
  <2> HIDE DEF c, s, ps
  <2>5. s2 = AsState(s.pc, s.path, at2, pos[c], WEdge(d), WParam(d), ps, s.result) /\ at2 \in Nat
    BY <2>2
  <2> HIDE DEF s2, at2
  <2>6. s2 \in DispState
    BY ONLY <1>8, <1>11, <2>2, <2>4, <2>5, StateType
  <2> QED
    BY ONLY <2>5, <2>6 DEF AsState, at2
<1> HIDE DEF s2
<1>13. Walking(t, pos, s2)
  <2> DEFINE p == s.path
  <2>1. s2.at = Len(k) + 2
    BY <1>3, <1>11, <1>12
  <2>2. s2.params = Bound(ParNames(t), c, a2)
    BY <1>7, <1>11, <1>12
  <2>3. p[Len(k) + 1] \in Literals /\ Fits(e, p[Len(k) + 1]) /\ s2.path = p /\ p \in Paths /\ Along(k, p)
    BY <1>1, <1>6, <1>11, <1>12
  <2> HIDE DEF p, e, a2, ps, v
  <2> QED
    BY <1>3, <1>5, <1>7, <1>11, <1>12, <2>1, <2>2, <2>3, WalkOn
<1>14. s2.pc = "match"
  BY <1>1, <1>12 DEF Matching
<1>15. StateOK(t, pos, s2)
  <2> HIDE DEF t
  <2> QED
    BY ONLY <1>12, <1>13, <1>14 DEF StateOK
<1>16. StateOK(t, pos, Nowhere)
  BY NowhereOK
<1> HIDE DEF t, n2
<1>17. b2 = Nowhere \/ b2 = s2
  BY <1>10
<1> HIDE DEF b2
<1>18. StateOK(t, pos, b2)
  BY ONLY <1>15, <1>16, <1>17
<1> QED
  BY <1>18 DEF t, b2, n2

(* At a literal that no edge of the segment's node takes.                  *)
LEMMA LostIsStuck ==
    ASSUME TreeFit(tree), NEW pos, Complete(tree, pos), NEW d, AtLost(d),
           NEW k, NEW a, AtNode(tree, pos, d, k, a)
    PROVE  Tok(d) \in Literals /\ Stuck(tree, k, Tok(d))
<1> DEFINE t == tree
           e == Tok(d)
<1>1. e \in Literals /\ Edge(d) = 0 /\ ~HasFlag(Word(NodeOf(d)), FLAG_PARAM)
  BY DEF AtLost, AtLiteral
<1>2. k \in DOMAIN t /\ NodeOf(d) = pos[k] /\ t[k].spec # "SPEC_PARAM"
  BY <1>1 DEF AtNode, NodeSays
<1>3. Append(k, e) \notin DOMAIN t
  <2>1. EdgeFound(t, pos, k, e, Edge(d))
    BY <1>1, <1>2, FindEdgeIs DEF Edge
  <2> QED
    BY <1>1, <2>1 DEF EdgeFound
<1>4. Stuck(t, k, e)
  <2> SUFFICES ASSUME NEW c \in Kids(DOMAIN t, k), Fits(Last(c), e) PROVE FALSE
    BY DEF Stuck
  <2>1. c \in DOMAIN t /\ c = Append(k, Last(c)) /\ Last(c) \in Literals
    BY <1>2, KidStep
  <2>2. Last(c) = e
    BY <2>1, TokenKinds DEF Fits
  <2> QED
    BY <1>3, <2>1, <2>2
<1> QED
  BY <1>1, <1>4

(* A finished request answers as its last segment has it.                  *)
LEMMA FinishedOK ==
    ASSUME TreeFit(tree), NEW pos, NEW d, disp[d] \in DispState, NEW k, NEW a, AtNode(tree, pos, d, k, a),
           NEW s2, NEW ps, NEW c, s2 = AsState("done", disp[d].path, disp[d].at, 0, 0, 0, ps, c),
           ps \in Seq(Nat \X Nat), c \in Holders,
           \/ AnswersExactly(tree, s2, k, a, Tok(d))
           \/ AnswersWildcard(tree, s2, k, a, Tok(d))
           \/ AnswersFallback(tree, s2, k, Tok(d))
    PROVE  StateOK(tree, pos, s2)
<1> DEFINE s == disp[d]
<1>1. /\ k \in DOMAIN tree /\ s.path \in Paths /\ Along(k, s.path) /\ ParamSteps(k, a)
      /\ Tok(d) = s.path[Len(k) + 1]
  BY DEF AtNode
<1>2. s2 \in DispState /\ s2.pc = "done" /\ s2.path = s.path
  <2>1. s.path \in Paths \cup {<<>>} /\ s.at \in Nat /\ 0 \in Nat
    BY StateParts
  <2>2. s2 = AsState("done", s.path, s.at, 0, 0, 0, ps, c)
    OBVIOUS
  <2> HIDE DEF s
  <2>3. s2 \in DispState
    BY ONLY <2>1, <2>2, StateType, ps \in Seq(Nat \X Nat), c \in Holders
  <2> QED
    BY ONLY <2>2, <2>3 DEF AsState
<1>3. Answer(tree, s2)
  BY <1>1, <1>2 DEF Answer
<1> QED
  BY <1>2, <1>3 DEF StateOK

LEMMA SegmentHolds ==
    ASSUME TreeFit(tree), NEW k, k \in DOMAIN tree
    PROVE  tree[k].terminal \in Holders /\ tree[k].trailing \in Holders /\ tree[k].wildcard \in Holders
<1>1. tree[k] \in Segment
  BY SegmentFacts
<1> QED
  BY <1>1 DEF Segment, Holders

LEMMA TakeWildcardOK ==
    ASSUME TreeFit(tree), NEW pos, Complete(tree, pos), NEW d, StateOK(tree, pos, disp[d]),
           AtLost(d), WEdge(d) # 0
    PROVE  StateOK(tree, pos, Bind(d, WILDCARD_PARAM, WParam(d), Finished(d, Lookup(WEdge(d)))))
<1> DEFINE t == tree
           s == disp[d]
           r == Lookup(WEdge(d))
           n2 == Finished(d, r)
           b2 == Bind(d, WILDCARD_PARAM, WParam(d), n2)
<1>1. Matching(d) /\ s \in DispState
  BY DEF AtLost, AtLiteral, StateOK
<1>2. PICK k, a : AtNode(t, pos, d, k, a)
  BY <1>1, NodeReached
<1>3. Tok(d) \in Literals /\ Stuck(t, k, Tok(d))
  BY <1>2, LostIsStuck
<1>4. k \in DOMAIN t /\ s.params = Bound(ParNames(t), k, a) /\ WParam(d) \in Nat
      /\ Remembered(t, pos, Ways(t, k), a, WEdge(d), WParam(d))
  BY <1>2, <1>3 DEF AtNode
<1>5. PICK q, b : /\ LastWildcard(t, Ways(t, k), a, q, b)
                  /\ WEdge(d) = pos[Append(q, Wildcard)] /\ WParam(d) = Len(q) + 1
  BY <1>4 DEF Remembered
<1>6. q \in DOMAIN t /\ t[q].wildcard # NULL
  BY <1>5 DEF LastWildcard, Ways
<1>7. r = t[q].wildcard /\ r \in Holders
  BY <1>5, <1>6, WildcardSpot, SegmentHolds
<1> DEFINE ps == Append(s.params, <<WILDCARD_PARAM, WParam(d)>>)
           s2 == AsState("done", s.path, s.at, 0, 0, 0, ps, r)
<1>8. n2 = AsState("done", s.path, s.at, 0, 0, 0, s.params, r)
  BY <1>1, FinishedIs
<1>9. b2 = Nowhere \/ b2 = s2
  <2> HIDE DEF n2, r
  <2>1. b2 \in {Nowhere, s2}
    BY <1>8, BindIs
  <2> QED
    BY <2>1
<1>10. ps \in Seq(Nat \X Nat)
  <2>1. s.params \in Seq(Nat \X Nat) /\ WILDCARD_PARAM \in Nat
    BY <1>1, StateParts DEF WILDCARD_PARAM, NoName
  <2> HIDE DEF s
  <2> QED
    BY <1>4, <2>1
<1>11. s2.params = ps /\ s2.result = r
  BY DEF AsState
<1> HIDE DEF s2, ps, n2, r
<1>12. AnswersWildcard(t, s2, k, a, Tok(d))
  BY <1>3, <1>4, <1>5, <1>7, <1>11 DEF AnswersWildcard, ps
<1>13. StateOK(t, pos, s2)
  <2>1. s2 = AsState("done", s.path, s.at, 0, 0, 0, ps, r)
    BY DEF s2
  <2> QED
    BY <1>1, <1>2, <1>7, <1>10, <1>12, <2>1, FinishedOK
<1>14. StateOK(t, pos, Nowhere)
  BY NowhereOK
<1> HIDE DEF t, b2
<1>15. StateOK(t, pos, b2)
  BY ONLY <1>9, <1>13, <1>14
<1> QED
  BY <1>15 DEF t, b2, n2, r

(* A token that ends the path, and the route there.                        *)
LEMMA ExactOK ==
    ASSUME TreeFit(tree), NEW pos, Complete(tree, pos), NEW d, StateOK(tree, pos, disp[d]),
           NEW k, NEW a, AtNode(tree, pos, d, k, a), NEW c,
           Tok(d) \notin Literals, Append(k, Tok(d)) \in Held(tree), c = HeldContext(tree, Append(k, Tok(d))),
           c \in Holders
    PROVE  StateOK(tree, pos, Finished(d, c))
<1> DEFINE s2 == Finished(d, c)
           s == disp[d]
<1>1. s \in DispState
  BY DEF StateOK
<1>2. s2 = AsState("done", s.path, s.at, 0, 0, 0, s.params, c)
  BY <1>1, FinishedIs
<1>3. s.params \in Seq(Nat \X Nat) /\ s.params = Bound(ParNames(tree), k, a)
  BY <1>1, StateParts DEF AtNode
<1> HIDE DEF s2
<1>4. AnswersExactly(tree, s2, k, a, Tok(d))
  <2>1. s2.params = s.params /\ s2.result = c
    BY ONLY <1>2 DEF AsState
  <2> QED
    BY <1>3, <2>1 DEF AnswersExactly
<1>5. StateOK(tree, pos, s2)
  BY <1>1, <1>2, <1>3, <1>4, FinishedOK
<1> QED
  BY <1>5 DEF s2

LEMMA TakeTrailingOK ==
    ASSUME TreeFit(tree), NEW pos, Complete(tree, pos), NEW d, StateOK(tree, pos, disp[d]),
           Matching(d), Tok(d) = Trailing, HasFlag(Word(NodeOf(d)), FLAG_TRAILING)
    PROVE  StateOK(tree, pos, Finished(d, Lookup(TrailingEdge(NodeOf(d)))))
<1>1. PICK k, a : AtNode(tree, pos, d, k, a)
  BY NodeReached
<1> DEFINE t == tree
           r == Append(k, Trailing)
           c == Lookup(TrailingEdge(NodeOf(d)))
<1>2. k \in DOMAIN t /\ t[k].trailing # NULL /\ c = t[k].trailing
  BY <1>1 DEF AtNode, NodeSays
<1>3. r \in Held(t) /\ Front(r) = k /\ Last(r) = Trailing
  BY <1>2, HeldOf, SegmentFacts, TokenKinds, AppendOf
<1>4. HeldContext(t, r) = c
  <2> HIDE DEF r, c
  <2> QED
    BY <1>2, <1>3, TokenKinds DEF HeldContext
<1>5. Tok(d) \notin Literals
  BY TokenKinds
<1>6. c \in Holders
  BY <1>2, SegmentHolds
<1> HIDE DEF c
<1>7. StateOK(t, pos, Finished(d, c))
  BY <1>1, <1>3, <1>4, <1>5, <1>6, ExactOK
<1> QED
  BY <1>7 DEF c

LEMMA TakeTerminalOK ==
    ASSUME TreeFit(tree), NEW pos, Complete(tree, pos), NEW d, StateOK(tree, pos, disp[d]),
           Matching(d), Tok(d) = End, HasFlag(Word(NodeOf(d)), FLAG_TERMINAL)
    PROVE  StateOK(tree, pos, Finished(d, Lookup(NodeOf(d))))
<1>1. PICK k, a : AtNode(tree, pos, d, k, a)
  BY NodeReached
<1> DEFINE t == tree
           r == Append(k, End)
           c == Lookup(NodeOf(d))
<1>2. k \in DOMAIN t /\ t[k].terminal # NULL /\ c = t[k].terminal
  BY <1>1 DEF AtNode, NodeSays
<1>3. r \in Held(t) /\ Front(r) = k /\ Last(r) = End
  BY <1>2, HeldOf, SegmentFacts, TokenKinds, AppendOf
<1>4. HeldContext(t, r) = c
  <2> HIDE DEF r, c
  <2> QED
    BY <1>2, <1>3, TokenKinds DEF HeldContext
<1>5. Tok(d) \notin Literals
  BY TokenKinds
<1>6. c \in Holders
  BY <1>2, SegmentHolds
<1> HIDE DEF c
<1>7. StateOK(t, pos, Finished(d, c))
  BY <1>1, <1>3, <1>4, <1>5, <1>6, ExactOK
<1> QED
  BY <1>7 DEF c

LEMMA NotFoundOK ==
    ASSUME TreeFit(tree), NEW pos, Complete(tree, pos), NEW d, StateOK(tree, pos, disp[d]),
           \/ AtLost(d) /\ WEdge(d) = 0
           \/ Matching(d) /\ Tok(d) = Trailing /\ ~HasFlag(Word(NodeOf(d)), FLAG_TRAILING)
           \/ Matching(d) /\ Tok(d) = End /\ ~HasFlag(Word(NodeOf(d)), FLAG_TERMINAL)
           \/ Matching(d) /\ Tok(d) = Illegal
    PROVE  StateOK(tree, pos, [Finished(d, Fallback) EXCEPT !.params = <<>>])
<1> DEFINE t == tree
           s == disp[d]
           f == Finished(d, Fallback)
           s2 == [f EXCEPT !.params = <<>>]
           ps == <<>>
<1>1. Matching(d) /\ s \in DispState
  BY DEF AtLost, AtLiteral, StateOK
<1>2. PICK k, a : AtNode(t, pos, d, k, a)
  BY <1>1, NodeReached
<1>3. k \in DOMAIN t /\ k \in Seq(Token)
  BY <1>2, SegmentFacts DEF AtNode
<1>4. f = AsState("done", s.path, s.at, 0, 0, 0, s.params, Fallback)
  BY <1>1, FinishedIs
<1> HIDE DEF f
<1>5. s2 = AsState("done", s.path, s.at, 0, 0, 0, ps, Fallback)
  BY <1>4 DEF AsState
<1> HIDE DEF s2
<1>6. s2.params = ps /\ s2.result = Fallback
  BY ONLY <1>5 DEF AsState
<1>7. ASSUME AtLost(d), WEdge(d) = 0 PROVE AnswersFallback(t, s2, k, Tok(d))
  <2>1. Tok(d) \in Literals /\ Stuck(t, k, Tok(d))
    BY <1>2, <1>7, LostIsStuck
  <2>2. Remembered(t, pos, Ways(t, k), a, WEdge(d), WParam(d))
    BY <1>2, <2>1 DEF AtNode
  <2>3. \A q, b : LastWildcard(t, Ways(t, k), a, q, b) => pos[Append(q, Wildcard)] # 0
    <3> TAKE q, b
    <3> HAVE LastWildcard(t, Ways(t, k), a, q, b)
    <3>1. q \in DOMAIN t /\ t[q].wildcard # NULL
      BY DEF LastWildcard, Ways
    <3> QED
      BY <3>1, WildcardSpot
  <2>4. NoWildcard(t, Ways(t, k))
    BY <1>7, <2>2, <2>3 DEF Remembered
  <2>5. s2.params = <<>> /\ s2.result = Fallback
    BY <1>6
  <2> QED
    BY <2>1, <2>4, <2>5 DEF AnswersFallback
<1>8. ASSUME Matching(d), \/ Tok(d) = Trailing /\ ~HasFlag(Word(NodeOf(d)), FLAG_TRAILING)
                          \/ Tok(d) = End /\ ~HasFlag(Word(NodeOf(d)), FLAG_TERMINAL)
                          \/ Tok(d) = Illegal
      PROVE AnswersFallback(t, s2, k, Tok(d))
  <2> DEFINE e == Tok(d)
             r == Append(k, e)
  <2>1. e \notin Literals /\ e \in Token
    BY <1>8, TokenKinds
  <2>2. /\ e = Trailing => t[k].trailing = NULL
        /\ e = End => t[k].terminal = NULL
        /\ e \in {End, Trailing, Illegal}
    BY <1>2, <1>8, TokenKinds DEF AtNode, NodeSays
  <2>3. Front(r) = k /\ Last(r) = e
    BY <1>3, <2>1, AppendOf
  <2>4. r \notin Held(t)
    <3> SUFFICES ASSUME r \in Held(t) PROVE FALSE
      OBVIOUS
    <3> HIDE DEF e
    <3>1. /\ e \in {End, Trailing, Wildcard} /\ (e = End => t[k].terminal # NULL)
          /\ (e = Trailing => t[k].trailing # NULL)
      BY <2>3, HeldFacts
    <3> QED
      BY <2>2, <3>1, TokenKinds
  <2> QED
    BY <1>6, <2>1, <2>4 DEF AnswersFallback
<1>9. AnswersFallback(t, s2, k, Tok(d))
  BY <1>1, <1>7, <1>8
<1>10. Fallback \in Holders /\ ps \in Seq(Nat \X Nat)
  BY MatchAssumption DEF Holders
<1> HIDE DEF ps
<1>11. StateOK(t, pos, s2)
  BY <1>1, <1>2, <1>5, <1>9, <1>10, FinishedOK
<1> QED
  BY <1>11 DEF s2, f

-----------------------------------------------------------------------------
(* The invariant of the dispatchers.                                       *)

(* The dispatchers' part of the invariant: all wait until the graph is     *)
(* done; then each is idle, on a walk that the tree knows, or answered.    *)
MatchInv ==
    /\ disp \in [Dispatchers -> DispState]
    /\ phase # "done" => \A d \in Dispatchers : disp[d].pc = "idle"
    /\ phase = "done" => \A pos : Complete(tree, pos) => \A d \in Dispatchers : StateOK(tree, pos, disp[d])

LEMMA MatchInitOK == MatchInit => CountInv /\ CompileInv /\ MatchInv
<1> SUFFICES ASSUME MatchInit PROVE CountInv /\ CompileInv /\ MatchInv
  OBVIOUS
<1>1. CountInv /\ CompileInv
  BY CountInit, CompileInit DEF MatchInit
<1>2. Idle \in DispState /\ Idle.pc = "idle"
  <2>1. Idle = AsState("idle", <<>>, 0, 0, 0, 0, <<>>, NULL)
    BY DEF Idle, AsState
  <2>2. NULL \in Holders /\ <<>> \in Seq(Nat \X Nat) /\ <<>> \in Paths \cup {<<>>} /\ 0 \in Nat
    BY DEF Holders
  <2>3. Idle \in DispState
    BY ONLY <2>1, <2>2, StateType
  <2> QED
    BY ONLY <2>1, <2>3 DEF AsState
<1>3. phase = "stats" /\ disp = [d \in Dispatchers |-> Idle]
  BY DEF MatchInit, GraphInit
<1> QED
  BY <1>1, <1>2, <1>3 DEF MatchInv

(* Before the graph is done nobody dispatches.                             *)
LEMMA GraphStepOK == MatchInv /\ GraphNext /\ UNCHANGED disp => MatchInv'
<1> SUFFICES ASSUME MatchInv, GraphNext, UNCHANGED disp PROVE MatchInv'
  OBVIOUS
<1>1. phase # "done"
  BY DEF GraphNext, CountSegment, CheckRange, CompileNode, CompileLeaf, SortEdges, CompileDone
<1>2. \A d \in Dispatchers : disp'[d] \in DispState /\ disp'[d].pc = "idle"
  BY <1>1 DEF MatchInv
<1>3. \A pos : \A d \in Dispatchers : StateOK(tree', pos, disp'[d])
  BY <1>2 DEF StateOK
<1>4. disp' \in [Dispatchers -> DispState]
  BY DEF MatchInv
<1> QED
  BY <1>2, <1>3, <1>4 DEF MatchInv

(* A dispatcher whose new state is sound.                                  *)
LEMMA BecomeOK ==
    ASSUME MatchInv, phase = "done", NEW d \in Dispatchers, NEW s, Become(d, s), s \in DispState,
           \A pos : Complete(tree, pos) => StateOK(tree, pos, s)
    PROVE  MatchInv'
<1>1. /\ disp' = [disp EXCEPT ![d] = s] /\ tree' = tree /\ phase' = phase /\ graph' = graph
      /\ refs' = refs /\ base' = base
  BY DEF Become, graphVars
<1>2. disp' \in [Dispatchers -> DispState]
  BY <1>1 DEF MatchInv
<1>3. ASSUME NEW pos, Complete(tree, pos)', NEW e \in Dispatchers PROVE StateOK(tree, pos, disp'[e])
  <2>1. Complete(tree, pos)
    BY <1>1, <1>3 DEF Complete
  <2>2. CASE e = d
    BY <1>1, <2>1, <2>2 DEF MatchInv
  <2>3. CASE e # d
    <3>1. disp'[e] = disp[e]
      BY <1>1, <2>3 DEF MatchInv
    <3> QED
      BY <2>1, <3>1 DEF MatchInv
  <2> QED
    BY <2>2, <2>3
<1> QED
  BY <1>1, <1>2, <1>3 DEF MatchInv

LEMMA DispatcherStepOK ==
    ASSUME CountInv, CompileInv, MatchInv, NEW d \in Dispatchers,
           MatchStep(d) \/ \E p \in Paths : Dispatch(d, p)
    PROVE  MatchInv'
<1>1. phase = "done"
  <2>1. CASE MatchStep(d)
    <3>1. Matching(d)
      BY <2>1 DEF MatchStep, FollowEdge, FollowParam, TakeWildcard, TakeTrailing, TakeTerminal, NotFound,
                  AtLost, AtLiteral
    <3> QED
      BY <3>1 DEF Matching, MatchInv
  <2>2. CASE \E p \in Paths : Dispatch(d, p)
    BY <2>2 DEF Dispatch
  <2> QED
    BY <2>1, <2>2
<1>2. TreeFit(tree)
  BY <1>1, DoneComplete
<1>3. PICK pos0 : Complete(tree, pos0)
  BY <1>1, DoneComplete
<1>4. \A pos : Complete(tree, pos) => StateOK(tree, pos, disp[d])
  BY <1>1 DEF MatchInv
<1>5. ASSUME NEW s, Become(d, s), \A pos : Complete(tree, pos) => StateOK(tree, pos, s)
      PROVE MatchInv'
  <2>1. s \in DispState
    BY <1>3, <1>5 DEF StateOK
  <2> QED
    BY <1>1, <1>5, <2>1, BecomeOK
<1>6. CASE \E p \in Paths : Dispatch(d, p)
  <2>1. PICK p \in Paths : Dispatch(d, p)
    BY <1>6
  <2> DEFINE s == [Idle EXCEPT !.pc = "match", !.path = p, !.at = 1]
  <2>2. Become(d, s)
    BY <2>1 DEF Dispatch
  <2>3. \A pos : Complete(tree, pos) => StateOK(tree, pos, s)
    BY <1>2, DispatchOK
  <2> HIDE DEF s
  <2> QED
    BY <1>5, <2>2, <2>3
<1>7. CASE FollowEdge(d)
  <2> DEFINE s == NextNode(d, EdgeTarget(NodeOf(d), Edge(d)))
  <2>1. AtLiteral(d) /\ Edge(d) # 0 /\ Become(d, s)
    BY <1>7 DEF FollowEdge
  <2>2. \A pos : Complete(tree, pos) => StateOK(tree, pos, s)
    BY <1>2, <1>4, <2>1, FollowEdgeOK
  <2> HIDE DEF s
  <2> QED
    BY <1>5, <2>1, <2>2
<1>8. CASE FollowParam(d)
  <2> DEFINE s == Bind(d, ParamSymbol(NodeOf(d)), disp[d].at, NextNode(d, ParamEdge(NodeOf(d))))
  <2>1. AtLiteral(d) /\ HasFlag(Word(NodeOf(d)), FLAG_PARAM) /\ Become(d, s)
    BY <1>8 DEF FollowParam
  <2>2. \A pos : Complete(tree, pos) => StateOK(tree, pos, s)
    BY <1>2, <1>4, <2>1, FollowParamOK
  <2> HIDE DEF s
  <2> QED
    BY <1>5, <2>1, <2>2
<1>9. CASE TakeWildcard(d)
  <2> DEFINE s == Bind(d, WILDCARD_PARAM, WParam(d), Finished(d, Lookup(WEdge(d))))
  <2>1. AtLost(d) /\ WEdge(d) # 0 /\ Become(d, s)
    BY <1>9 DEF TakeWildcard
  <2>2. \A pos : Complete(tree, pos) => StateOK(tree, pos, s)
    BY <1>2, <1>4, <2>1, TakeWildcardOK
  <2> HIDE DEF s
  <2> QED
    BY <1>5, <2>1, <2>2
<1>10. CASE TakeTrailing(d)
  <2> DEFINE s == Finished(d, Lookup(TrailingEdge(NodeOf(d))))
  <2>1. Matching(d) /\ Tok(d) = Trailing /\ HasFlag(Word(NodeOf(d)), FLAG_TRAILING) /\ Become(d, s)
    BY <1>10 DEF TakeTrailing
  <2>2. \A pos : Complete(tree, pos) => StateOK(tree, pos, s)
    BY <1>2, <1>4, <2>1, TakeTrailingOK
  <2> HIDE DEF s
  <2> QED
    BY <1>5, <2>1, <2>2
<1>11. CASE TakeTerminal(d)
  <2> DEFINE s == Finished(d, Lookup(NodeOf(d)))
  <2>1. Matching(d) /\ Tok(d) = End /\ HasFlag(Word(NodeOf(d)), FLAG_TERMINAL) /\ Become(d, s)
    BY <1>11 DEF TakeTerminal
  <2>2. \A pos : Complete(tree, pos) => StateOK(tree, pos, s)
    BY <1>2, <1>4, <2>1, TakeTerminalOK
  <2> HIDE DEF s
  <2> QED
    BY <1>5, <2>1, <2>2
<1>12. CASE NotFound(d)
  <2> DEFINE s == [Finished(d, Fallback) EXCEPT !.params = <<>>]
  <2>1. /\ \/ AtLost(d) /\ WEdge(d) = 0
           \/ Matching(d) /\ Tok(d) = Trailing /\ ~HasFlag(Word(NodeOf(d)), FLAG_TRAILING)
           \/ Matching(d) /\ Tok(d) = End /\ ~HasFlag(Word(NodeOf(d)), FLAG_TERMINAL)
           \/ Matching(d) /\ Tok(d) = Illegal
        /\ Become(d, s)
    BY <1>12 DEF NotFound
  <2>2. \A pos : Complete(tree, pos) => StateOK(tree, pos, s)
    BY <1>2, <1>4, <2>1, NotFoundOK
  <2> HIDE DEF s
  <2> QED
    BY <1>5, <2>1, <2>2
<1> QED
  BY <1>6, <1>7, <1>8, <1>9, <1>10, <1>11, <1>12 DEF MatchStep

(* The inductive invariant of the router and its dispatchers.              *)
AllInv == CountInv /\ CompileInv /\ MatchInv

(* A dispatcher changes nothing of the router.                             *)
LEMMA RouterStep == [MatchNext]_matchVars => [GraphNext]_graphVars
<1>1. \A d, s : Become(d, s) => UNCHANGED graphVars
  BY DEF Become
<1>2. \A d : MatchStep(d) \/ (\E p \in Paths : Dispatch(d, p)) => UNCHANGED graphVars
  BY <1>1 DEF MatchStep, Dispatch, FollowEdge, FollowParam, TakeWildcard, TakeTrailing, TakeTerminal,
              NotFound
<1> QED
  BY <1>2 DEF MatchNext, matchVars

LEMMA MatchNextOK == AllInv /\ [MatchNext]_matchVars => AllInv'
<1> SUFFICES ASSUME AllInv, [MatchNext]_matchVars PROVE AllInv'
  OBVIOUS
<1>1. CountInv /\ CompileInv /\ MatchInv
  BY DEF AllInv
<1>2. [GraphNext]_graphVars
  BY RouterStep
<1>3. CountInv' /\ CompileInv'
  BY <1>1, <1>2, CountNext, CompileNext
<1>4. MatchInv'
  <2>1. CASE GraphNext /\ UNCHANGED disp
    BY <1>1, <2>1, GraphStepOK
  <2>2. CASE \E d \in Dispatchers : MatchStep(d) \/ \E p \in Paths : Dispatch(d, p)
    BY <1>1, <2>2, DispatcherStepOK
  <2>3. CASE UNCHANGED matchVars
    BY <1>1, <2>3 DEF MatchInv, matchVars, graphVars, Complete
  <2> QED
    BY <2>1, <2>2, <2>3 DEF MatchNext
<1> QED
  BY <1>3, <1>4 DEF AllInv

LEMMA AnsweredSoundly ==
    ASSUME AllInv, NEW d \in Dispatchers, Answered(d)
    PROVE  tree \in Trees /\ TreeFit(tree) /\ Answer(tree, disp[d])
<1>1. CountInv /\ CompileInv /\ MatchInv
  BY DEF AllInv
<1>2. phase = "done"
  BY <1>1 DEF MatchInv, Answered
<1>3. PICK pos : Complete(tree, pos)
  BY <1>1, <1>2, DoneComplete
<1>4. StateOK(tree, pos, disp[d])
  BY <1>1, <1>2, <1>3 DEF MatchInv
<1> QED
  BY <1>1, <1>2, <1>4, DoneComplete DEF StateOK, Answered, CountInv

LEMMA AllInvCorrect == MatchSpec => []AllInv
<1>1. MatchInit => AllInv
  BY MatchInitOK DEF AllInv
<1> QED
  BY <1>1, MatchNextOK, PTL DEF MatchSpec

(* The route that fits a path exactly is found, and exactly its parameters *)
(* are bound, whatever wildcards and other branches the tree has, whatever *)
(* a dispatcher resolved before and whatever the others do meanwhile.      *)
THEOREM ExactRouteFoundCorrect == MatchSpec => []ExactRouteFound
<1>1. AllInv => ExactRouteFound
  <2> SUFFICES ASSUME AllInv, NEW d \in Dispatchers, Answered(d), NEW r \in Held(tree), Exact(r, disp[d].path)
               PROVE  disp[d].result = HeldContext(tree, r) /\ disp[d].params = Bindings(r)
    BY DEF ExactRouteFound
  <2> QED
    BY AnsweredSoundly, AnswerIsExact DEF SaysExact
<1> QED
  BY <1>1, AllInvCorrect, PTL

(* If no route fits exactly, any answer but the fallback is the most       *)
(* specific wildcard over the path; its value is the rest of the path.     *)
THEOREM WildcardIsMostSpecificCorrect == MatchSpec => []WildcardIsMostSpecific
<1>1. AllInv => WildcardIsMostSpecific
  <2> SUFFICES ASSUME AllInv PROVE WildcardIsMostSpecific
    OBVIOUS
  <2>1. \A d \in Dispatchers : Answered(d) => SaysWildcard(tree, disp[d])
    BY AnsweredSoundly, AnswerIsWildcard
  <2> QED
    BY ONLY <2>1, Zenon DEF SaysWildcard, WildcardIsMostSpecific
<1> QED
  BY <1>1, AllInvCorrect, PTL

(* The fallback answers, without parameters, only if no route fits exactly *)
(* and, where a wildcard covers the path, every literal of the path has a  *)
(* segment to go to.                                                       *)
THEOREM FallbackIsLastCorrect == MatchSpec => []FallbackIsLast
<1>1. AllInv => FallbackIsLast
  <2> SUFFICES ASSUME AllInv PROVE FallbackIsLast
    OBVIOUS
  <2>1. \A d \in Dispatchers : Answered(d) => SaysFallback(tree, disp[d])
    BY AnsweredSoundly, AnswerIsFallback
  <2> QED
    BY ONLY <2>1, Zenon DEF SaysFallback, FallbackIsLast
<1> QED
  BY <1>1, AllInvCorrect, PTL
=============================================================================
