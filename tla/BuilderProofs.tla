---------------------------- MODULE BuilderProofs ----------------------------
(***************************************************************************)
(* Theorems about Builder, Lifetime and History, for all names, patterns,  *)
(* contexts, limits and numbers of routers.                                *)
(*                                                                         *)
(* Part 1: the tree is a tree, no node of it holds what conflicts.         *)
(* Part 2: a builder that no call has spoilt holds a tree without dead     *)
(*   ends and null pointers, and the symbols of its segments.  In the      *)
(*   middle of a call only the way of the walk may still lead nowhere.     *)
(* Part 3: the walk over the tree implements the table of routes: its      *)
(*   variables are read off the tree, and each step of the walk is a step  *)
(*   of the table or leaves it alone.                                      *)
(* Part 4: retain and release calls balance.  The count of a context is    *)
(*   the share of the builder, which a step of Builder changes by the      *)
(*   route that it enters, and the sum of the shares of the routers, of    *)
(*   which a step changes one.                                             *)
(* Part 5: the tree is the one computed from the list of the routes        *)
(*   accepted.  A new child is needed by no older route, and where a new   *)
(*   route needs a child, the children before it lie on older routes, for  *)
(*   there are no dead ends.                                               *)
(***************************************************************************)
EXTENDS Lifetime, History, DataProofs, SequenceTheorems

-----------------------------------------------------------------------------
(* Tokens and sequences of tokens.                                         *)

LEMMA TokenTypes ==
    /\ \A n \in Names : Lit(n) \in Literals /\ Par(n) \in Params
    /\ \A t \in Token : t.type = "LITERAL" => t \in Literals /\ t.str \in Names /\ t = Lit(t.str)
    /\ \A t \in Token : t.type = "PARAM" => t \in Params /\ t.str \in Names /\ t = Par(t.str)
    /\ Literals \subseteq Step /\ Params \subseteq Step /\ Step \subseteq Token
    /\ \A t \in Step : t \notin {Wildcard, Trailing, End, Illegal}
BY DEF Token, Step, Literals, Params, Terminator, Lit, Par, Wildcard, Trailing, End, Illegal

(* A walk always has a next token while the current one is a step.         *)
LEMMA TailTokenised ==
    ASSUME NEW p \in Seq(Token), Tokenised(p), Head(p) \in Step
    PROVE  /\ Tail(p) # <<>> /\ Tokenised(Tail(p))
           /\ Head(p) \in Token
<1>1. p # <<>>
  BY DEF Tokenised
<1>2. Head(p) = p[1] /\ Len(p) \in Nat \ {0} /\ 1 \in 1..Len(p)
  BY <1>1, EmptySeq, LenProperties
<1>3. ASSUME NEW i \in 1..Len(p)
      PROVE  (i = Len(p)) <=> (p[i] \in {Trailing, End, Illegal})
  BY DEF Tokenised
<1>4. Len(p) # 1
  <2>1. Head(p) \notin {Trailing, End, Illegal}
    BY TokenTypes
  <2>2. p[1] \notin {Trailing, End, Illegal}
    BY <2>1, <1>2
  <2>3. (1 = Len(p)) <=> (p[1] \in {Trailing, End, Illegal})
    BY <1>2, <1>3
  <2> QED BY <2>2, <2>3
<1>5. Len(p) \in Nat /\ Len(p) > 1
  BY <1>2, <1>4
<1>6. /\ Tail(p) \in Seq(Token) /\ Len(Tail(p)) = Len(p) - 1
      /\ \A i \in 1..Len(Tail(p)) : Tail(p)[i] = p[i + 1]
  BY <1>1, <1>2, HeadTailProperties
<1>7. Tail(p) # <<>>
  <2>1. Len(Tail(p)) # 0
    BY <1>5, <1>6
  <2> QED BY <2>1, EmptySeq
<1>8. ASSUME NEW i \in 1..Len(Tail(p))
      PROVE  (i = Len(Tail(p))) <=> (Tail(p)[i] \in {Trailing, End, Illegal})
  <2>1. i + 1 \in 1..Len(p) /\ Tail(p)[i] = p[i + 1]
    BY <1>5, <1>6
  <2>2. i = Len(Tail(p)) <=> i + 1 = Len(p)
    BY <1>5, <1>6
  <2>3. (i + 1 = Len(p)) <=> (p[i + 1] \in {Trailing, End, Illegal})
    BY <2>1, <1>3
  <2> QED BY <2>1, <2>2, <2>3
<1>9. Tokenised(Tail(p))
  BY <1>6, <1>7, <1>8 DEF Tokenised
<1> QED BY <1>7, <1>9, TokenTypes

-----------------------------------------------------------------------------
(* Prefixes of sequences.                                                  *)

LEMMA PrefixProperties ==
    ASSUME NEW S, NEW q \in Seq(S), NEW n \in 0..Len(q)
    PROVE  /\ Prefix(q, n) \in Seq(S) /\ Len(Prefix(q, n)) = n
           /\ \A i \in 1..n : Prefix(q, n)[i] = q[i]
<1>1. Len(q) \in Nat /\ n \in Nat
  BY LenProperties
<1>2. \A i \in 1..n : q[i] \in S
  BY <1>1, ElementOfSeq
<1> QED BY <1>1, <1>2, SubSeqProperties DEF Prefix

LEMMA PrefixFull ==
    ASSUME NEW S, NEW q \in Seq(S)
    PROVE  Prefix(q, Len(q)) = q
BY SubSeqFull DEF Prefix

LEMMA PrefixAppend ==
    ASSUME NEW S, NEW q \in Seq(S), NEW e \in S, NEW n \in 0..Len(q)
    PROVE  Prefix(Append(q, e), n) = Prefix(q, n)
<1>1. Append(q, e) \in Seq(S) /\ Len(Append(q, e)) = Len(q) + 1 /\ Len(q) \in Nat
  BY AppendProperties, LenProperties
<1>2. n \in 0..Len(Append(q, e))
  BY <1>1
<1>3. /\ Prefix(q, n) \in Seq(S) /\ Len(Prefix(q, n)) = n
      /\ \A i \in 1..n : Prefix(q, n)[i] = q[i]
  BY PrefixProperties
<1>4. /\ Prefix(Append(q, e), n) \in Seq(S) /\ Len(Prefix(Append(q, e), n)) = n
      /\ \A i \in 1..n : Prefix(Append(q, e), n)[i] = Append(q, e)[i]
  BY <1>1, <1>2, PrefixProperties
<1>5. \A i \in 1..n : Append(q, e)[i] = q[i]
  BY <1>1, AppendProperties
<1> HIDE DEF Prefix
<1> QED BY <1>3, <1>4, <1>5, SeqEqual

-----------------------------------------------------------------------------
(* The shape of the tree.  It holds at every moment, half way through a    *)
(* call and in a corrupted builder too.                                    *)

TreeType(t) == /\ t \in [DOMAIN t -> Segment]
               /\ DOMAIN t \subseteq Seq(Step)
               /\ Root \in DOMAIN t

(* A child or parameter that a segment names exists.                       *)
Pointers(t) ==
    \A k \in DOMAIN t :
        /\ \A n \in Names : FindChild(t, k, n) => Append(k, Lit(n)) \in DOMAIN t
        /\ t[k].param # NoName => Append(k, Par(t[k].param)) \in DOMAIN t

(* Segment k has step s.                                                   *)
Leads(t, k, s) == /\ k \in DOMAIN t
                  /\ \/ s \in Literals /\ FindChild(t, k, s.str)
                     \/ s = Par(t[k].param)

(* Every step on the way to a segment was taken from a segment that has it *)
Paths(t) == \A k \in DOMAIN t : \A n \in 1..Len(k) : Leads(t, Prefix(k, n - 1), k[n])

(* A parameter excludes children and a wildcard.                           *)
Exclusive(t) ==
    \A k \in DOMAIN t : /\ t[k].param # NoName => t[k].spec = "SPEC_PARAM"
                        /\ t[k].spec = "SPEC_PARAM" => t[k].children = <<>>
                        /\ t[k].wildcard # NULL => t[k].spec = "SPEC_WILDCARD"

Shape(t) == TreeType(t) /\ Pointers(t) /\ Paths(t) /\ Exclusive(t)

LEMMA NewSegmentType == NewSegment \in Segment
BY DEF NewSegment, Segment

(* Changing one segment, but not its children and parameter, keeps Shape.  *)
LEMMA UpdateShape ==
    ASSUME NEW t, Shape(t), NEW k \in DOMAIN t, NEW s \in Segment,
           s.children = t[k].children, s.param = t[k].param,
           s.spec = "SPEC_PARAM" => s.children = <<>>,
           s.param # NoName => s.spec = "SPEC_PARAM",
           s.wildcard # NULL => s.spec = "SPEC_WILDCARD"
    PROVE  Shape([t EXCEPT ![k] = s]) /\ DOMAIN [t EXCEPT ![k] = s] = DOMAIN t
<1> DEFINE u == [t EXCEPT ![k] = s]
<1>1. /\ DOMAIN u = DOMAIN t
      /\ \A q \in DOMAIN t : u[q] = IF q = k THEN s ELSE t[q]
  OBVIOUS
<1>2. TreeType(u)
  BY DEF Shape, TreeType
<1> HIDE DEF u
<1>3. \A q \in DOMAIN t : u[q].children = t[q].children /\ u[q].param = t[q].param
  BY <1>1
<1>4. Pointers(u)
  BY <1>1, <1>3 DEF Shape, Pointers, FindChild
<1>5. ASSUME NEW q, NEW x, Leads(t, q, x) PROVE Leads(u, q, x)
  BY <1>1, <1>3, <1>5 DEF Leads, FindChild
<1>6. Paths(u)
  BY <1>1, <1>5 DEF Shape, Paths
<1>7. Exclusive(u)
  BY <1>1 DEF Shape, Exclusive
<1> QED BY <1>1, <1>2, <1>4, <1>6, <1>7 DEF Shape, u

(* A segment is missing as long as nothing leads to it.                    *)
LEMMA Missing ==
    ASSUME NEW t, Shape(t), NEW k \in DOMAIN t, NEW x \in Step, ~Leads(t, k, x)
    PROVE  Append(k, x) \notin DOMAIN t
<1> SUFFICES ASSUME Append(k, x) \in DOMAIN t PROVE FALSE
  OBVIOUS
<1>1. k \in Seq(Step) /\ Len(k) \in Nat
  BY LenProperties DEF Shape, TreeType
<1>2. /\ Append(k, x) \in Seq(Step) /\ Len(Append(k, x)) = Len(k) + 1
      /\ Append(k, x)[Len(k) + 1] = x
  BY <1>1, AppendProperties
<1>3. Len(k) + 1 \in 1..Len(Append(k, x)) /\ (Len(k) + 1) - 1 = Len(k)
  BY <1>1, <1>2
<1>4. Leads(t, Prefix(Append(k, x), Len(k)), x)
  <2>1. Leads(t, Prefix(Append(k, x), (Len(k) + 1) - 1), Append(k, x)[Len(k) + 1])
    BY <1>3 DEF Shape, Paths
  <2> QED BY <2>1, <1>2, <1>3
<1>5. Prefix(Append(k, x), Len(k)) = k
  <2>1. Len(k) \in 0..Len(k)
    BY <1>1
  <2>2. Prefix(Append(k, x), Len(k)) = Prefix(k, Len(k))
    BY <1>1, <2>1, PrefixAppend
  <2> QED BY <2>2, <1>1, PrefixFull
<1> QED BY <1>4, <1>5

(* A new segment extends the ways that led to its parent.                  *)
LEMMA GrowPaths ==
    ASSUME NEW t, Shape(t), NEW k \in DOMAIN t, NEW x \in Step, NEW u,
           DOMAIN u = DOMAIN t \cup {Append(k, x)},
           \A q, y : y \in Step /\ Leads(t, q, y) => Leads(u, q, y),
           Leads(u, k, x)
    PROVE  Paths(u)
<1> SUFFICES ASSUME NEW q \in DOMAIN u, NEW n \in 1..Len(q)
             PROVE  Leads(u, Prefix(q, n - 1), q[n])
  BY DEF Paths
<1>1. k \in Seq(Step) /\ Len(k) \in Nat
  BY LenProperties DEF Shape, TreeType
<1>2. CASE q \in DOMAIN t
  <2>1. q[n] \in Step
    BY <1>2, ElementOfSeq DEF Shape, TreeType
  <2>2. Leads(t, Prefix(q, n - 1), q[n])
    BY <1>2 DEF Shape, Paths
  <2> QED BY <2>1, <2>2
<1>3. CASE q = Append(k, x)
  <2>1. /\ Len(q) = Len(k) + 1 /\ q[Len(k) + 1] = x
        /\ \A i \in 1..Len(k) : q[i] = k[i]
    BY <1>1, <1>3, AppendProperties
  <2>2. n - 1 \in 0..Len(k) /\ n \in 1..(Len(k) + 1)
    BY <1>1, <2>1
  <2>3. Prefix(q, n - 1) = Prefix(k, n - 1)
    BY <1>1, <1>3, <2>2, PrefixAppend
  <2>4. CASE n = Len(k) + 1
    <3>1. Prefix(k, n - 1) = k
      BY <1>1, <2>4, PrefixFull
    <3> QED BY <2>1, <2>3, <2>4, <3>1
  <2>5. CASE n # Len(k) + 1
    <3>1. n \in 1..Len(k)
      BY <1>1, <2>2, <2>5
    <3>2. q[n] = k[n] /\ k[n] \in Step
      BY <1>1, <2>1, <3>1, ElementOfSeq
    <3>3. Leads(t, Prefix(k, n - 1), k[n])
      BY <3>1 DEF Shape, Paths
    <3> QED BY <2>3, <3>2, <3>3
  <2> QED BY <2>4, <2>5
<1> QED BY <1>2, <1>3

(* AppendChild and SetParam keep Shape.                                    *)
LEMMA AppendChildShape ==
    ASSUME NEW t, Shape(t), NEW k \in DOMAIN t, NEW n \in Names,
           ~FindChild(t, k, n), t[k].spec # "SPEC_PARAM"
    PROVE  /\ Shape(AppendChild(t, k, n))
           /\ DOMAIN AppendChild(t, k, n) = DOMAIN t \cup {Append(k, Lit(n))}
<1> DEFINE u == AppendChild(t, k, n)
           new == Append(k, Lit(n))
<1>1. Lit(n) \in Literals /\ Lit(n) \in Step /\ Lit(n).str = n /\ new \in Seq(Step)
  <2>1. Lit(n) \in Literals /\ Lit(n) \in Step /\ Lit(n).str = n
    BY TokenTypes DEF Lit
  <2> QED BY <2>1, AppendProperties DEF Shape, TreeType
<1>2. Lit(n) # Par(t[k].param)
  BY DEF Lit, Par
<1>3. new \notin DOMAIN t
  BY <1>1, <1>2, Missing DEF Leads
<1>4. /\ DOMAIN u = DOMAIN t \cup {new}
      /\ u[new] = NewSegment
      /\ u[k] = [t[k] EXCEPT !.children = Append(@, n)]
      /\ \A q \in DOMAIN t \ {k} : u[q] = t[q]
  BY <1>3 DEF AppendChild, Grow, Shape, TreeType
<1>5. u = [q \in DOMAIN u |-> u[q]]
  BY DEF AppendChild, Grow
<1>6. t[k] \in Segment /\ t[k].children \in Seq(Names) /\ u[k] \in Segment
  <2>1. t[k] \in Segment /\ t[k].children \in Seq(Names)
    BY DEF Shape, TreeType, Segment
  <2>2. Append(t[k].children, n) \in Seq(Names)
    BY <2>1, AppendProperties
  <2> QED BY <2>1, <2>2, <1>4 DEF Segment
<1>7. /\ u[k].param = t[k].param /\ u[k].spec = t[k].spec /\ u[k].wildcard = t[k].wildcard
      /\ u[k].children = Append(t[k].children, n)
  BY <1>4, <1>6 DEF Segment
<1> HIDE DEF u, new
<1>8. \A m \in Names : FindChild(u, k, m) <=> (FindChild(t, k, m) \/ m = n)
  <2>1. /\ Len(u[k].children) = Len(t[k].children) + 1 /\ Len(t[k].children) \in Nat
        /\ \A i \in 1..Len(t[k].children) : u[k].children[i] = t[k].children[i]
        /\ u[k].children[Len(t[k].children) + 1] = n
    BY <1>6, <1>7, AppendProperties, LenProperties
  <2> QED BY <2>1 DEF FindChild, Contains
<1>9. TreeType(u)
  BY <1>1, <1>4, <1>5, <1>6, NewSegmentType DEF Shape, TreeType
<1>10. ASSUME NEW q \in DOMAIN u, NEW m \in Names
       PROVE  /\ FindChild(u, q, m) => Append(q, Lit(m)) \in DOMAIN u
              /\ u[q].param # NoName => Append(q, Par(u[q].param)) \in DOMAIN u
  <2>1. CASE q = k
    BY <2>1, <1>4, <1>7, <1>8 DEF Shape, Pointers, new
  <2>2. CASE q = new
    <3>1. u[q].children = <<>> /\ u[q].param = NoName
      BY <2>2, <1>4 DEF NewSegment
    <3> QED BY <3>1, EmptySeq DEF FindChild, Contains
  <2>3. CASE q \in DOMAIN t \ {k}
    BY <2>3, <1>4 DEF Shape, Pointers, FindChild
  <2> QED BY <2>1, <2>2, <2>3, <1>4
<1>11. Paths(u)
  <2>1. Leads(u, k, Lit(n))
    BY <1>1, <1>4, <1>8 DEF Leads
  <2>2. ASSUME NEW q, NEW y, y \in Step, Leads(t, q, y) PROVE Leads(u, q, y)
    BY <2>2, <1>4, <1>7, <1>8, TokenTypes DEF Leads, FindChild, Literals, Lit
  <2> QED BY <1>1, <1>4, <2>1, <2>2, GrowPaths DEF new
<1>12. ASSUME NEW q \in DOMAIN u
       PROVE  /\ u[q].param # NoName => u[q].spec = "SPEC_PARAM"
              /\ u[q].spec = "SPEC_PARAM" => u[q].children = <<>>
              /\ u[q].wildcard # NULL => u[q].spec = "SPEC_WILDCARD"
  <2>1. CASE q = k
    BY <2>1, <1>7 DEF Shape, Exclusive
  <2>2. CASE q = new
    BY <2>2, <1>4 DEF NewSegment
  <2>3. CASE q \in DOMAIN t \ {k}
    BY <2>3, <1>4 DEF Shape, Exclusive
  <2> QED BY <2>1, <2>2, <2>3, <1>4
<1>13. Pointers(u) /\ Exclusive(u)
  BY <1>10, <1>12 DEF Pointers, Exclusive
<1> QED BY <1>4, <1>9, <1>11, <1>13 DEF Shape, u, new

LEMMA SetParamShape ==
    ASSUME NEW t, Shape(t), NEW k \in DOMAIN t, NEW n \in Names,
           t[k].spec = "SPEC_NONE", t[k].children = <<>>,
           NEW u, u = SetParam([t EXCEPT ![k].spec = "SPEC_PARAM"], k, n)
    PROVE  Shape(u) /\ Append(k, Par(n)) \in DOMAIN u
<1> DEFINE new == Append(k, Par(n))
<1>1. Par(n) \in Params /\ Par(n) \in Step /\ Par(n) \notin Literals /\ new \in Seq(Step)
  <2>1. Par(n) \in Params /\ Par(n) \in Step /\ Par(n) \notin Literals
    BY TokenTypes DEF Literals, Lit, Par
  <2> QED BY <2>1, AppendProperties DEF Shape, TreeType
<1>2. t[k] \in Segment /\ t[k].param = NoName /\ n # NoName
  BY NamesAssumption DEF Shape, TreeType, Exclusive, NoName
<1>3. new \notin DOMAIN t
  <2>1. Par(n) # Par(t[k].param)
    BY <1>2 DEF Par
  <2> QED BY <1>1, <2>1, Missing DEF Leads
<1>4. /\ DOMAIN u = DOMAIN t \cup {new}
      /\ u[new] = NewSegment
      /\ u[k] = [t[k] EXCEPT !.spec = "SPEC_PARAM", !.param = n]
      /\ \A q \in DOMAIN t \ {k} : u[q] = t[q]
  BY <1>2, <1>3 DEF SetParam, Grow, Shape, TreeType, Segment
<1>5. u = [q \in DOMAIN u |-> u[q]]
  BY DEF SetParam, Grow
<1>6. u[k] \in Segment
  BY <1>2, <1>4 DEF Segment
<1>7. /\ u[k].param = n /\ u[k].spec = "SPEC_PARAM" /\ u[k].wildcard = t[k].wildcard
      /\ u[k].children = <<>>
  BY <1>2, <1>4 DEF Segment
<1> HIDE DEF new
<1>8. TreeType(u)
  BY <1>1, <1>4, <1>5, <1>6, NewSegmentType DEF Shape, TreeType
<1>9. ASSUME NEW q \in DOMAIN u, NEW m \in Names
      PROVE  /\ FindChild(u, q, m) => Append(q, Lit(m)) \in DOMAIN u
             /\ u[q].param # NoName => Append(q, Par(u[q].param)) \in DOMAIN u
  <2>1. CASE q = k
    <3>1. ~FindChild(u, q, m)
      BY <2>1, <1>7, EmptySeq DEF FindChild, Contains
    <3>2. Append(q, Par(u[q].param)) \in DOMAIN u
      BY <2>1, <1>4, <1>7 DEF new
    <3> QED BY <3>1, <3>2
  <2>2. CASE q = new
    <3>1. u[q].children = <<>> /\ u[q].param = NoName
      BY <2>2, <1>4 DEF NewSegment
    <3> QED BY <3>1, EmptySeq DEF FindChild, Contains
  <2>3. CASE q \in DOMAIN t \ {k}
    BY <2>3, <1>4 DEF Shape, Pointers, FindChild
  <2> QED BY <2>1, <2>2, <2>3, <1>4
<1>10. Paths(u)
  <2>1. Leads(u, k, Par(n))
    BY <1>4, <1>7 DEF Leads
  <2>2. ASSUME NEW q, NEW y, y \in Step, Leads(t, q, y) PROVE Leads(u, q, y)
    <3>1. CASE q = k
      <4>1. ~FindChild(t, k, y.str)
        BY EmptySeq DEF FindChild, Contains
      <4>2. y # Par(NoName)
        BY <2>2, NamesAssumption DEF Step, Literals, Params, Lit, Par, NoName
      <4> QED BY <3>1, <2>2, <4>1, <4>2, <1>2 DEF Leads
    <3>2. CASE q # k
      BY <3>2, <2>2, <1>4 DEF Leads, FindChild
    <3> QED BY <3>1, <3>2
  <2> QED BY <1>1, <1>4, <2>1, <2>2, GrowPaths DEF new
<1>11. ASSUME NEW q \in DOMAIN u
       PROVE  /\ u[q].param # NoName => u[q].spec = "SPEC_PARAM"
              /\ u[q].spec = "SPEC_PARAM" => u[q].children = <<>>
              /\ u[q].wildcard # NULL => u[q].spec = "SPEC_WILDCARD"
  <2>1. CASE q = k
    BY <2>1, <1>7 DEF Shape, Exclusive
  <2>2. CASE q = new
    BY <2>2, <1>4 DEF NewSegment
  <2>3. CASE q \in DOMAIN t \ {k}
    BY <2>3, <1>4 DEF Shape, Exclusive
  <2> QED BY <2>1, <2>2, <2>3, <1>4
<1>12. Pointers(u) /\ Exclusive(u)
  BY <1>9, <1>11 DEF Pointers, Exclusive
<1> QED BY <1>4, <1>8, <1>10, <1>12 DEF Shape, new

-----------------------------------------------------------------------------
(* From the shape of the tree to its routes.                               *)

(* A route of the tree passes segment q and goes on with x.                *)
Follower(t, q, x) ==
    /\ q \in DOMAIN t
    /\ \/ x \in Step /\ Leads(t, q, x)
       \/ x \in {End, Trailing}
       \/ x = Wildcard /\ t[q].wildcard # NULL

LEMMA HeldFollows ==
    ASSUME NEW t, Shape(t), NEW r \in Held(t), NEW n \in 1..Len(r)
    PROVE  Follower(t, Prefix(r, n - 1), r[n])
<1>1. PICK k \in DOMAIN t, x \in Terminator :
         r = Append(k, x) /\ (x = Wildcard => t[k].wildcard # NULL)
  BY DEF Held, WithTerminal, WithTrailing, WithWildcard, Terminator, End, Trailing, Wildcard
<1>2. k \in Seq(Token) /\ x \in Token /\ Len(k) \in Nat /\ k \in Seq(Step)
  <2>1. k \in Seq(Step) /\ Step \subseteq Token
    BY TokenTypes DEF Shape, TreeType
  <2> QED BY <2>1, SeqMonotonic, LenProperties DEF Token
<1>3. /\ Len(r) = Len(k) + 1 /\ r[Len(k) + 1] = x
      /\ \A i \in 1..Len(k) : r[i] = k[i]
  BY <1>1, <1>2, AppendProperties
<1>4. n - 1 \in 0..Len(k) /\ n \in 1..(Len(k) + 1)
  BY <1>2, <1>3
<1>5. Prefix(r, n - 1) = Prefix(k, n - 1)
  BY <1>1, <1>2, <1>4, PrefixAppend
<1>6. CASE n = Len(k) + 1
  <2>1. Prefix(r, n - 1) = k /\ r[n] = x
    BY <1>2, <1>3, <1>5, <1>6, PrefixFull
  <2> QED BY <2>1, <1>1 DEF Follower, Terminator
<1>7. CASE n # Len(k) + 1
  <2>1. n \in 1..Len(k)
    BY <1>2, <1>4, <1>7
  <2>2. r[n] = k[n] /\ k[n] \in Step
    BY <1>2, <1>3, <2>1, ElementOfSeq
  <2>3. Leads(t, Prefix(k, n - 1), k[n])
    BY <2>1 DEF Shape, Paths
  <2> QED BY <1>5, <2>2, <2>3 DEF Follower, Leads
<1> QED BY <1>6, <1>7

(* No two ways on from a segment clash.                                    *)
LEMMA FollowersAgree ==
    ASSUME NEW t, Shape(t), NEW q, NEW a, NEW b, Follower(t, q, a), Follower(t, q, b)
    PROVE  ~Clash(a, b)
<1>1. ASSUME NEW x \in Params, NEW y \in Params \cup Literals \cup {Wildcard},
             Follower(t, q, x), Follower(t, q, y)
      PROVE  y = x
  <2>1. /\ x \in Step /\ x \notin Literals /\ x \notin {End, Trailing, Wildcard}
        /\ Par(NoName) \notin Params
    <3>1. x \in Step /\ x \notin {End, Trailing, Wildcard}
      BY TokenTypes
    <3>2. x \notin Literals
      BY DEF Literals, Params, Lit, Par
    <3>3. Par(NoName) \notin Params
      BY NamesAssumption DEF Params, Par, NoName
    <3> QED BY <3>1, <3>2, <3>3
  <2>2. q \in DOMAIN t /\ x = Par(t[q].param) /\ t[q].param # NoName
    BY <1>1, <2>1 DEF Follower, Leads
  <2>3. t[q].spec = "SPEC_PARAM" /\ t[q].children = <<>> /\ t[q].wildcard = NULL
    BY <2>2 DEF Shape, Exclusive
  <2>4. ~FindChild(t, q, y.str)
    BY <2>3, EmptySeq DEF FindChild, Contains
  <2>5. y \notin {End, Trailing}
    BY TokenTypes DEF Wildcard, End, Trailing
  <2> QED BY <1>1, <2>2, <2>3, <2>4, <2>5 DEF Follower, Leads
<1> QED BY <1>1 DEF Clash

LEMMA ShapeCompatible ==
    ASSUME NEW t, Shape(t), NEW r \in Held(t), NEW s \in Held(t), r # s
    PROVE  Compatible(r, s)
<1>1. Len(r) \in Nat /\ Len(s) \in Nat
  <2>1. ASSUME NEW h \in Held(t) PROVE Len(h) \in Nat
    <3>1. PICK k \in DOMAIN t, x \in Terminator : h = Append(k, x)
      BY DEF Held, WithTerminal, WithTrailing, WithWildcard, Terminator
    <3>2. k \in Seq(Token) /\ x \in Token
      <4>1. k \in Seq(Step) /\ Step \subseteq Token
        BY TokenTypes DEF Shape, TreeType
      <4> QED BY <4>1, SeqMonotonic DEF Token
    <3>3. h \in Seq(Token)
      BY <3>1, <3>2, AppendProperties
    <3> QED BY <3>3, LenProperties
  <2> QED BY <2>1
<1>2. ASSUME NEW n \in 1..Len(r), n <= Len(s), Prefix(r, n - 1) = Prefix(s, n - 1)
      PROVE  ~Clash(r[n], s[n])
  <2>1. n \in 1..Len(s)
    BY <1>1, <1>2
  <2>2. Follower(t, Prefix(r, n - 1), r[n]) /\ Follower(t, Prefix(s, n - 1), s[n])
    BY <2>1, HeldFollows
  <2> QED BY <1>2, <2>2, FollowersAgree
<1> QED BY <1>2 DEF Compatible

-----------------------------------------------------------------------------
(* The invariant: TypeOK needs Shape, for a walk to find the segment that a *)
(* child or a parameter name promises.                                     *)
IInv == TypeOK /\ Shape(tree)

LEMMA InitIInv == Init => IInv
<1> SUFFICES ASSUME Init PROVE IInv
  OBVIOUS
<1>1. /\ DOMAIN tree = {Root} /\ tree[Root] = NewSegment
      /\ tree \in [DOMAIN tree -> Segment]
  BY NewSegmentType DEF Init
<1>2. Root \in Seq(Step) /\ Len(Root) = 0
  BY EmptySeq DEF Root
<1>3. TreeType(tree)
  BY <1>1, <1>2 DEF TreeType
<1>4. Pointers(tree)
  BY <1>1, EmptySeq DEF Pointers, FindChild, Contains, NewSegment
<1>5. Paths(tree)
  BY <1>1, <1>2 DEF Paths
<1>6. Exclusive(tree)
  BY <1>1 DEF Exclusive, NewSegment
<1>7. TypeOK
  BY <1>1, <1>2, EmptySeq DEF Init, TypeOK, Walking
<1> QED BY <1>3, <1>4, <1>5, <1>6, <1>7 DEF IInv, Shape

(* The two ways a step of the walk ends.                                   *)
LEMMA ReturnIInv ==
    ASSUME IInv, NEW e, Return(e), Shape(tree'),
           literals' \in Seq(Names), params' \in Seq(Names), refs' \in [Contexts -> Nat]
    PROVE  IInv'
BY EmptySeq DEF IInv, TypeOK, Shape, TreeType, Return, Walking

LEMMA DescendIInv ==
    ASSUME IInv, Walking, tok \in Step, Descend, Shape(tree'),
           Append(cur, tok) \in DOMAIN tree',
           literals' \in Seq(Names), params' \in Seq(Names), UNCHANGED refs
    PROVE  IInv'
<1>1. rest \in Seq(Token) /\ Tokenised(rest) /\ Head(rest) \in Step
  BY DEF IInv, TypeOK, tok
<1>2. rest' = Tail(rest) /\ Tail(rest) \in Seq(Token) /\ Tokenised(Tail(rest))
  <2>1. Tokenised(Tail(rest))
    BY <1>1, TailTokenised
  <2> QED BY <2>1 DEF Descend, Tokenised
<1>3. route \in Contexts
  BY DEF IInv, TypeOK
<1> QED BY <1>2, <1>3 DEF IInv, TypeOK, Shape, TreeType, Descend, Walking

(* What the tests of a token let through.                                  *)
LEMMA AdmitsFacts ==
    ASSUME IInv, NEW type, Admits(type)
    PROVE  /\ Walking /\ tok \in Token /\ route \in Contexts
           /\ cur \in DOMAIN tree /\ seg \in Segment
           /\ type = "LITERAL" => /\ tok \in Literals /\ tok \in Step
                                  /\ tok.str \in Names /\ tok = Lit(tok.str)
                                  /\ seg.spec # "SPEC_PARAM"
           /\ type = "PARAM" => /\ tok \in Step /\ tok.str \in Names /\ tok = Par(tok.str)
                                /\ seg.children = <<>>
                                /\ seg.spec = "SPEC_PARAM" => seg.param = tok.str
           /\ type = "WILDCARD" => seg.spec = "SPEC_NONE"
<1>1. Walking /\ Conflict = "OK" /\ tok.type = type
  BY DEF Admits
<1>2. tok \in Token /\ route \in Contexts /\ cur \in DOMAIN tree /\ seg \in Segment
  <2>1. rest \in Seq(Token) /\ rest # <<>>
    BY <1>1 DEF IInv, TypeOK, Walking
  <2> QED BY <1>1, <2>1, HeadTailProperties DEF IInv, TypeOK, tok, seg
<1>3. seg.spec \in {"SPEC_NONE", "SPEC_PARAM", "SPEC_WILDCARD"}
  BY <1>2 DEF Segment
<1>4. ASSUME type = "LITERAL" PROVE seg.spec # "SPEC_PARAM"
  BY <1>1, <1>4 DEF Conflict, LiteralConflict
<1>5. ASSUME type = "PARAM"
      PROVE  seg.children = <<>> /\ (seg.spec = "SPEC_PARAM" => seg.param = tok.str)
  BY <1>1, <1>3, <1>5 DEF Conflict, ParamConflict
<1>6. ASSUME type = "WILDCARD" PROVE seg.spec = "SPEC_NONE"
  BY <1>1, <1>3, <1>6 DEF Conflict, WildcardConflict
<1> QED BY <1>1, <1>2, <1>4, <1>5, <1>6, TokenTypes

LEMMA InternType ==
    ASSUME NEW table \in Seq(Names), NEW n \in Names
    PROVE  Intern(table, n) \in Seq(Names)
BY AppendProperties DEF Intern

LEMMA NextIInv == IInv /\ [Next]_vars => IInv'
<1> SUFFICES ASSUME IInv, [Next]_vars PROVE IInv'
  OBVIOUS
<1> USE DEF tables
<1>1. /\ TypeOK /\ Shape(tree) /\ cur \in DOMAIN tree
      /\ literals \in Seq(Names) /\ params \in Seq(Names) /\ refs \in [Contexts -> Nat]
  BY DEF IInv, TypeOK
<1>2. ASSUME NEW p \in Patterns, NEW c \in Contexts, AddRoute(p, c) PROVE IInv'
  <2>1. CASE corrupted
    BY <1>1, <1>2, <2>1, ReturnIInv DEF AddRoute
  <2>2. CASE ~corrupted
    <3>1. Tokenised(p) /\ p \in Seq(Token)
      BY BuilderAssumption DEF Tokenised
    <3> QED BY <1>1, <1>2, <2>2, <3>1 DEF AddRoute, IInv, TypeOK, Shape, TreeType, Walking
  <2> QED BY <2>1, <2>2
<1>3. CASE Reject
  BY <1>1, <1>3, ReturnIInv DEF Reject
<1>4. ASSUME NEW newTree, Terminate(newTree), Shape(newTree), route \in Contexts
      PROVE  IInv'
  <2>1. Retained(route) \in [Contexts -> Nat]
    BY <1>1, <1>4 DEF Retained
  <2> QED BY <1>1, <1>4, <2>1, ReturnIInv DEF Terminate
<1>5. CASE AddTerminal
  <2> DEFINE s == [seg EXCEPT !.terminal = route]
  <2>1. cur \in DOMAIN tree /\ seg \in Segment /\ route \in Contexts
    BY <1>5, AdmitsFacts DEF AddTerminal
  <2>2. /\ s \in Segment /\ s.children = seg.children /\ s.param = seg.param
        /\ s.spec = seg.spec /\ s.wildcard = seg.wildcard
    BY <2>1 DEF Segment
  <2>3. [tree EXCEPT ![cur].terminal = route] = [tree EXCEPT ![cur] = s]
    BY DEF seg
  <2> HIDE DEF s
  <2>4. Shape([tree EXCEPT ![cur] = s])
    BY <1>1, <2>2, UpdateShape DEF seg, Shape, Exclusive
  <2> QED BY <1>4, <1>5, <2>1, <2>3, <2>4 DEF AddTerminal
<1>6. CASE AddTrailing
  <2> DEFINE s == [seg EXCEPT !.trailing = route]
  <2>1. cur \in DOMAIN tree /\ seg \in Segment /\ route \in Contexts
    BY <1>6, AdmitsFacts DEF AddTrailing
  <2>2. /\ s \in Segment /\ s.children = seg.children /\ s.param = seg.param
        /\ s.spec = seg.spec /\ s.wildcard = seg.wildcard
    BY <2>1 DEF Segment
  <2>3. [tree EXCEPT ![cur].trailing = route] = [tree EXCEPT ![cur] = s]
    BY DEF seg
  <2> HIDE DEF s
  <2>4. Shape([tree EXCEPT ![cur] = s])
    BY <1>1, <2>2, UpdateShape DEF seg, Shape, Exclusive
  <2> QED BY <1>4, <1>6, <2>1, <2>3, <2>4 DEF AddTrailing
<1>7. CASE AddWildcard
  <2> DEFINE s == [seg EXCEPT !.spec = "SPEC_WILDCARD", !.wildcard = route]
  <2>1. /\ cur \in DOMAIN tree /\ seg \in Segment /\ route \in Contexts
        /\ seg.spec = "SPEC_NONE"
    BY <1>7, AdmitsFacts DEF AddWildcard
  <2>2. /\ s \in Segment /\ s.children = seg.children /\ s.param = seg.param
        /\ s.spec = "SPEC_WILDCARD"
    BY <2>1 DEF Segment
  <2>3. [tree EXCEPT ![cur].spec = "SPEC_WILDCARD", ![cur].wildcard = route]
           = [tree EXCEPT ![cur] = s]
    BY <1>1 DEF seg, Shape, TreeType
  <2> HIDE DEF s
  <2>4. seg.param = NoName
    BY <1>1, <2>1 DEF seg, Shape, Exclusive
  <2>5. Shape([tree EXCEPT ![cur] = s])
    BY <1>1, <2>2, <2>4, UpdateShape DEF seg
  <2> QED BY <1>4, <1>7, <2>1, <2>3, <2>5 DEF AddWildcard
<1>8. CASE FollowLiteral
  <2>1. /\ Walking /\ tok \in Step /\ tok.str \in Names /\ tok = Lit(tok.str)
        /\ FindChild(tree, cur, tok.str) /\ Descend /\ UNCHANGED <<tree, tables, refs>>
    BY <1>8, AdmitsFacts DEF FollowLiteral, Admits
  <2>2. Append(cur, tok) \in DOMAIN tree
    BY <1>1, <2>1 DEF Shape, Pointers
  <2> QED BY <1>1, <2>1, <2>2, DescendIInv
<1>9. CASE AddLiteral
  <2>1. /\ Walking /\ tok \in Step /\ tok.str \in Names /\ tok = Lit(tok.str)
        /\ seg.spec # "SPEC_PARAM"
        /\ ~FindChild(tree, cur, tok.str) /\ Descend /\ UNCHANGED <<params, refs>>
        /\ literals' = Intern(literals, tok.str) /\ tree' = AppendChild(tree, cur, tok.str)
    BY <1>9, AdmitsFacts DEF AddLiteral, Admits
  <2>2. /\ Shape(tree) /\ cur \in DOMAIN tree /\ tok.str \in Names
        /\ ~FindChild(tree, cur, tok.str) /\ tree[cur].spec # "SPEC_PARAM"
    BY <1>1, <2>1 DEF seg
  <2>3. Shape(tree')
    BY <2>1, <2>2, AppendChildShape
  <2>4. DOMAIN tree' = DOMAIN tree \cup {Append(cur, tok)}
    <3>1. DOMAIN AppendChild(tree, cur, tok.str) = DOMAIN tree \cup {Append(cur, Lit(tok.str))}
      BY <2>2, AppendChildShape
    <3> QED BY <2>1, <3>1
  <2> QED BY <1>1, <2>1, <2>3, <2>4, InternType, DescendIInv
<1>10. CASE FollowParam
  <2>1. /\ Walking /\ tok \in Step /\ tok.str \in Names /\ tok = Par(tok.str)
        /\ seg.param = tok.str /\ Descend /\ UNCHANGED <<tree, tables, refs>>
    BY <1>10, AdmitsFacts DEF FollowParam, Admits
  <2>2. Append(cur, tok) \in DOMAIN tree
    BY <1>1, <2>1, NamesAssumption DEF Shape, Pointers, seg, NoName
  <2> QED BY <1>1, <2>1, <2>2, DescendIInv
<1>11. CASE AddParam
  <2>1. /\ Walking /\ tok \in Step /\ tok.str \in Names /\ tok = Par(tok.str)
        /\ seg.spec = "SPEC_NONE" /\ seg.children = <<>> /\ Descend
        /\ params' = Intern(params, tok.str) /\ UNCHANGED <<literals, refs>>
        /\ tree' = SetParam([tree EXCEPT ![cur].spec = "SPEC_PARAM"], cur, tok.str)
    BY <1>11, AdmitsFacts DEF AddParam, Admits
  <2>2. /\ Shape(tree) /\ cur \in DOMAIN tree /\ tok.str \in Names
        /\ tree[cur].spec = "SPEC_NONE" /\ tree[cur].children = <<>>
        /\ tree' = SetParam([tree EXCEPT ![cur].spec = "SPEC_PARAM"], cur, tok.str)
    BY <1>1, <2>1 DEF seg
  <2>3. Shape(tree')
    BY <2>2, SetParamShape
  <2>4. Append(cur, tok) \in DOMAIN tree'
    <3>1. Append(cur, Par(tok.str)) \in DOMAIN tree'
      BY <2>2, SetParamShape
    <3> QED BY <2>1, <3>1
  <2> QED BY <1>1, <2>1, <2>3, <2>4, InternType, DescendIInv
<1>12. CASE LiteralOutOfRange
  <2>1. /\ tok.str \in Names /\ Return("OUT_OF_RANGE") /\ UNCHANGED <<tree, params, refs>>
        /\ literals' \in {literals, Intern(literals, tok.str)}
    BY <1>12, AdmitsFacts DEF LiteralOutOfRange
  <2> QED BY <1>1, <2>1, InternType, ReturnIInv
(* A special type set before its pointer: the pointer is still null.       *)
<1>13. ASSUME NEW spec \in {"SPEC_PARAM", "SPEC_WILDCARD"}, seg.spec = "SPEC_NONE",
              spec = "SPEC_PARAM" => seg.children = <<>>
       PROVE  Shape([tree EXCEPT ![cur].spec = spec])
  <2> DEFINE s == [seg EXCEPT !.spec = spec]
  <2>1. seg \in Segment
    BY <1>1 DEF Shape, TreeType, seg
  <2>2. /\ s \in Segment /\ s.children = seg.children /\ s.param = seg.param
        /\ s.spec = spec /\ s.wildcard = seg.wildcard
    BY <2>1 DEF Segment
  <2>3. [tree EXCEPT ![cur].spec = spec] = [tree EXCEPT ![cur] = s]
    BY DEF seg
  <2> HIDE DEF s
  <2>4. seg.param = NoName /\ seg.wildcard = NULL
    BY <1>1, <1>13 DEF seg, Shape, Exclusive
  <2> QED BY <1>1, <1>13, <2>2, <2>3, <2>4, UpdateShape DEF seg
<1>14. CASE ParamOutOfRange
  <2>1. /\ Return("OUT_OF_RANGE") /\ seg.spec = "SPEC_NONE" /\ seg.children = <<>>
        /\ UNCHANGED <<tables, refs>> /\ tree' = [tree EXCEPT ![cur].spec = "SPEC_PARAM"]
    BY <1>14, AdmitsFacts DEF ParamOutOfRange
  <2> QED BY <1>1, <1>13, <2>1, ReturnIInv
<1>15. CASE OutOfMemory
  <2>1. /\ Return("NO_MEMORY") /\ UNCHANGED <<tables, refs>>
        /\ \/ UNCHANGED tree
           \/ /\ Admits("PARAM") /\ seg.spec = "SPEC_NONE"
              /\ tree' = [tree EXCEPT ![cur].spec = "SPEC_PARAM"]
           \/ Admits("WILDCARD") /\ tree' = [tree EXCEPT ![cur].spec = "SPEC_WILDCARD"]
    BY <1>15 DEF OutOfMemory
  <2>2. Shape(tree')
    BY <1>1, <1>13, <2>1, AdmitsFacts
  <2> QED BY <1>1, <2>1, <2>2, ReturnIInv
<1>16. CASE UNCHANGED vars
  BY <1>1, <1>16 DEF vars, IInv, TypeOK, Shape, TreeType, Pointers, Paths, Exclusive,
                     Leads, FindChild, Walking
<1> QED BY <1>2, <1>3, <1>5, <1>6, <1>7, <1>8, <1>9, <1>10, <1>11, <1>12, <1>14, <1>15,
           <1>16 DEF Next, Walk

-----------------------------------------------------------------------------
(* The tree keeps its shape through every step of every call, half way     *)
(* through an addition and in a corrupted builder too.                     *)
THEOREM Invariance == Spec => []IInv
BY InitIInv, NextIInv, PTL DEF Spec

(* The builder's tree, symbol tables and walk keep their types, for every  *)
(* set of patterns and every limit: in particular a walk never leaves the  *)
(* tree and never runs out of tokens (builder_add_route).                  *)
THEOREM TypeCorrect == Spec => []TypeOK
<1>1. IInv => TypeOK
  BY DEF IInv
<1> QED BY <1>1, Invariance, PTL

(* No two routes of the tree conflict, whatever calls were made, whichever *)
(* failed half way, and at every moment of a call (builder_add_route).     *)
THEOREM AlwaysCompatible == Spec => []RoutesCompatible
<1>1. IInv => RoutesCompatible
  BY ShapeCompatible DEF IInv, RoutesCompatible
<1> QED BY <1>1, Invariance, PTL

-----------------------------------------------------------------------------
(* Part 2.                                                                 *)
-----------------------------------------------------------------------------
(* Prefixes, and the elements of a sequence with one more.                 *)

LEMMA PrefixOfAppend ==
    ASSUME NEW S, NEW k \in Seq(S), NEW q \in Seq(S), NEW e \in S
    PROVE  /\ IsPrefix(k, k)
           /\ IsPrefix(k, q) => IsStrictPrefix(k, Append(q, e))
           /\ IsPrefix(k, <<>>) => k = <<>>
<1>1. /\ Append(q, e) \in Seq(S) /\ Len(Append(q, e)) = Len(q) + 1
      /\ Len(q) \in Nat /\ Len(k) \in Nat
  BY AppendProperties, LenProperties
<1>2. ASSUME IsPrefix(k, q)
      PROVE  IsStrictPrefix(k, Append(q, e))
  <2>1. Len(k) <= Len(q) /\ Prefix(k, Len(k)) = Prefix(q, Len(k))
    BY <1>2 DEF IsPrefix, Prefix
  <2>2. Prefix(Append(q, e), Len(k)) = Prefix(q, Len(k))
    BY <1>1, <2>1, PrefixAppend
  <2>3. Len(k) <= Len(Append(q, e)) /\ k # Append(q, e)
    BY <1>1, <2>1
  <2> QED BY <2>1, <2>2, <2>3 DEF IsPrefix, IsStrictPrefix, Prefix
<1>3. ASSUME IsPrefix(k, <<>>) PROVE k = <<>>
  BY <1>1, <1>3, EmptySeq DEF IsPrefix
<1>4. IsPrefix(k, k)
  BY <1>1 DEF IsPrefix
<1> QED BY <1>2, <1>3, <1>4

LEMMA LongerIsNoPrefix ==
    ASSUME NEW S, NEW q \in Seq(S), NEW e \in S
    PROVE  ~IsPrefix(Append(q, e), q)
<1>1. Len(Append(q, e)) = Len(q) + 1 /\ Len(q) \in Nat
  BY AppendProperties, LenProperties
<1> QED BY <1>1 DEF IsPrefix

(* A sequence that goes on from k with e.                                  *)
LEMMA StrictPrefixStep ==
    ASSUME NEW S, NEW k \in Seq(S), NEW e \in S, NEW r \in Seq(S),
           IsStrictPrefix(Append(k, e), r)
    PROVE  Len(r) > Len(k) + 1 /\ Prefix(r, Len(k)) = k /\ r[Len(k) + 1] = e
<1> DEFINE a == Append(k, e)
<1>1. /\ a \in Seq(S) /\ Len(a) = Len(k) + 1 /\ a[Len(k) + 1] = e
      /\ Len(k) \in Nat /\ Len(r) \in Nat
  BY AppendProperties, LenProperties
<1>2. Len(a) <= Len(r) /\ Prefix(a, Len(a)) = Prefix(r, Len(a)) /\ a # r
  BY DEF IsStrictPrefix, IsPrefix, Prefix
<1>3. Prefix(a, Len(k)) = k
  <2>1. Prefix(a, Len(k)) = Prefix(k, Len(k))
    BY <1>1, PrefixAppend
  <2> QED BY <2>1, PrefixFull
<1> HIDE DEF a
<1>4. Prefix(a, Len(a)) = a
  BY <1>1, PrefixFull
<1>5. Len(r) # Len(a)
  BY <1>1, <1>2, <1>4, PrefixFull
<1>6. \A i \in 1..Len(a) : a[i] = r[i]
  <2>1. Len(a) \in 0..Len(r)
    BY <1>1, <1>2
  <2>2. \A i \in 1..Len(a) : Prefix(r, Len(a))[i] = r[i]
    BY <2>1, PrefixProperties
  <2> QED BY <1>2, <1>4, <2>2
<1>7. Prefix(r, Len(k)) = Prefix(a, Len(k))
  <2>1. /\ Len(k) \in 0..Len(r) /\ Len(k) \in 0..Len(a)
        /\ \A i \in 1..Len(k) : a[i] = r[i]
    BY <1>1, <1>2, <1>6
  <2>2. /\ Prefix(r, Len(k)) \in Seq(S) /\ Len(Prefix(r, Len(k))) = Len(k)
        /\ \A i \in 1..Len(k) : Prefix(r, Len(k))[i] = r[i]
    BY <2>1, PrefixProperties
  <2>3. /\ Prefix(a, Len(k)) \in Seq(S) /\ Len(Prefix(a, Len(k))) = Len(k)
        /\ \A i \in 1..Len(k) : Prefix(a, Len(k))[i] = a[i]
    BY <1>1, <2>1, PrefixProperties
  <2> HIDE DEF Prefix
  <2> QED BY <2>1, <2>2, <2>3, SeqEqual
<1> QED BY <1>1, <1>2, <1>3, <1>5, <1>6, <1>7

LEMMA AppendSet ==
    ASSUME NEW S, NEW s \in Seq(S), NEW e \in S
    PROVE  /\ ToSet(Append(s, e)) = ToSet(s) \cup {e}
           /\ Contains(s, e) <=> e \in ToSet(s)
           /\ ~Contains(s, e) /\ IsInjective(s) => IsInjective(Append(s, e))
<1>1. /\ Append(s, e) \in Seq(S) /\ Len(Append(s, e)) = Len(s) + 1 /\ Len(s) \in Nat
      /\ \A i \in 1..Len(s) : Append(s, e)[i] = s[i]
      /\ Append(s, e)[Len(s) + 1] = e
  BY AppendProperties, LenProperties
<1>2. DOMAIN s = 1..Len(s) /\ DOMAIN Append(s, e) = 1..(Len(s) + 1)
  BY <1>1, LenProperties
<1>3. ToSet(Append(s, e)) = ToSet(s) \cup {e}
  BY <1>1, <1>2 DEF ToSet
<1> QED BY <1>1, <1>2, <1>3 DEF ToSet, Contains, IsInjective

LEMMA InternSet ==
    ASSUME NEW table \in Seq(Names), NEW n \in Names, IsInjective(table)
    PROVE  ToSet(Intern(table, n)) = ToSet(table) \cup {n} /\ IsInjective(Intern(table, n))
BY AppendSet DEF Intern

-----------------------------------------------------------------------------
(* The segments of a tree after AppendChild and SetParam.                  *)

(* u is t with one segment more, entered by step x from k, and k otherwise *)
(* changed in its children and its parameter only.                         *)
Grown(t, u, k, x) ==
    /\ Append(k, x) \notin DOMAIN t
    /\ DOMAIN u = DOMAIN t \cup {Append(k, x)}
    /\ u[Append(k, x)] = NewSegment
    /\ \A q \in DOMAIN t \ {k} : u[q] = t[q]
    /\ u[k].wildcard = t[k].wildcard /\ u[k].trailing = t[k].trailing
    /\ u[k].terminal = t[k].terminal

LEMMA AppendChildGrown ==
    ASSUME NEW t, Shape(t), NEW k \in DOMAIN t, NEW n \in Names, ~FindChild(t, k, n)
    PROVE  /\ Grown(t, AppendChild(t, k, n), k, Lit(n))
           /\ AppendChild(t, k, n)[k].children = Append(t[k].children, n)
           /\ AppendChild(t, k, n)[k].param = t[k].param
           /\ AppendChild(t, k, n)[k].spec = t[k].spec
<1> DEFINE u == AppendChild(t, k, n)
           new == Append(k, Lit(n))
<1>1. Lit(n) \in Literals /\ Lit(n) \in Step /\ Lit(n).str = n /\ Lit(n) # Par(t[k].param)
  BY TokenTypes DEF Lit, Par
<1>2. new \notin DOMAIN t
  BY <1>1, Missing DEF Leads
<1>3. t[k] \in Segment
  BY DEF Shape, TreeType
<1>4. /\ DOMAIN u = DOMAIN t \cup {new}
      /\ u[new] = NewSegment
      /\ u[k] = [t[k] EXCEPT !.children = Append(@, n)]
      /\ \A q \in DOMAIN t \ {k} : u[q] = t[q]
  BY <1>2 DEF AppendChild, Grow, Shape, TreeType
<1> HIDE DEF u
<1> QED BY <1>2, <1>3, <1>4 DEF Grown, Segment, u

LEMMA SetParamGrown ==
    ASSUME NEW t, Shape(t), NEW k \in DOMAIN t, NEW n \in Names,
           t[k].spec = "SPEC_NONE", t[k].children = <<>>,
           NEW u, u = SetParam([t EXCEPT ![k].spec = "SPEC_PARAM"], k, n)
    PROVE  /\ Grown(t, u, k, Par(n))
           /\ u[k].children = <<>> /\ u[k].param = n /\ u[k].spec = "SPEC_PARAM"
<1> DEFINE new == Append(k, Par(n))
<1>1. Par(n) \in Step /\ Par(n) \notin Literals
  BY TokenTypes DEF Literals, Lit, Par
<1>2. t[k] \in Segment /\ t[k].param = NoName /\ n # NoName
  BY NamesAssumption DEF Shape, TreeType, Exclusive, NoName
<1>3. new \notin DOMAIN t
  <2>1. Par(n) # Par(t[k].param)
    BY <1>2 DEF Par
  <2> QED BY <1>1, <2>1, Missing DEF Leads
<1>4. /\ DOMAIN u = DOMAIN t \cup {new}
      /\ u[new] = NewSegment
      /\ u[k] = [t[k] EXCEPT !.spec = "SPEC_PARAM", !.param = n]
      /\ \A q \in DOMAIN t \ {k} : u[q] = t[q]
  BY <1>2, <1>3 DEF SetParam, Grow, Shape, TreeType, Segment
<1> QED BY <1>2, <1>3, <1>4 DEF Grown, Segment

-----------------------------------------------------------------------------
(* The routes of a tree, by the segment and the terminal that hold them.   *)

Slot(s, z) == IF z = End THEN s.terminal ELSE IF z = Trailing THEN s.trailing ELSE s.wildcard

LEMMA TerminatorsDiffer ==
    /\ End # Trailing /\ End # Wildcard /\ Trailing # Wildcard
    /\ {End, Trailing, Wildcard} \subseteq Token
BY DEF End, Trailing, Wildcard, Token, Terminator

LEMMA SegmentNames ==
    ASSUME NEW t, TreeType(t), NEW k \in DOMAIN t
    PROVE  k \in Seq(Step) /\ k \in Seq(Token) /\ Len(k) \in Nat
<1>1. k \in Seq(Step) /\ Step \subseteq Token
  BY TokenTypes DEF TreeType
<1> QED BY <1>1, SeqMonotonic, LenProperties

LEMMA HeldSlots ==
    ASSUME NEW t, NEW r
    PROVE  r \in Held(t) <=> \E k \in DOMAIN t, z \in Terminator : r = Append(k, z) /\ Slot(t[k], z) # NULL
BY TerminatorsDiffer DEF Held, WithTerminal, WithTrailing, WithWildcard, Terminator, Slot

LEMMA ContextOfSlot ==
    ASSUME NEW t, TreeType(t), NEW k \in DOMAIN t, NEW z \in Terminator
    PROVE  /\ Append(k, z) \in Held(t) <=> Slot(t[k], z) # NULL
           /\ HeldContext(t, Append(k, z)) = Slot(t[k], z)
<1>1. k \in Seq(Token) /\ Len(k) \in Nat /\ z \in Token
  BY SegmentNames DEF Token
<1>2. /\ Len(Append(k, z)) = Len(k) + 1 /\ Append(k, z)[Len(k) + 1] = z
      /\ Prefix(Append(k, z), Len(k)) = k
  <2>1. Prefix(Append(k, z), Len(k)) = Prefix(k, Len(k))
    BY <1>1, PrefixAppend
  <2> QED BY <1>1, <2>1, AppendProperties, PrefixFull
<1>3. Front(Append(k, z)) = k /\ Last(Append(k, z)) = z
  <2>1. Len(Append(k, z)) - 1 = Len(k)
    BY <1>1, <1>2
  <2> QED BY <1>2, <2>1 DEF Front, Last, Prefix
<1>4. HeldContext(t, Append(k, z)) = Slot(t[k], z)
  <2>1. HeldContext(t, Append(k, z)) = CASE z = End      -> t[k].terminal
                                         [] z = Trailing -> t[k].trailing
                                         [] OTHER        -> t[k].wildcard
    BY <1>3 DEF HeldContext
  <2> QED BY <2>1, TerminatorsDiffer DEF Slot, Terminator
<1>5. ASSUME Append(k, z) \in Held(t) PROVE Slot(t[k], z) # NULL
  <2>1. PICK q \in DOMAIN t, y \in Terminator : Append(k, z) = Append(q, y) /\ Slot(t[q], y) # NULL
    BY <1>5, HeldSlots
  <2>2. q \in Seq(Token) /\ y \in Token
    BY SegmentNames DEF Token
  <2>3. k = q /\ z = y
    BY <1>1, <2>1, <2>2, AppendInjective
  <2> QED BY <2>1, <2>3
<1>6. ASSUME Slot(t[k], z) # NULL PROVE Append(k, z) \in Held(t)
  BY <1>6, HeldSlots
<1> QED BY <1>4, <1>5, <1>6

(* A tree that grows or is marked keeps its routes and their contexts.     *)
LEMMA HeldKept ==
    ASSUME NEW t, NEW u, TreeType(t), TreeType(u), DOMAIN t \subseteq DOMAIN u,
           \A k \in DOMAIN t, z \in Terminator : Slot(u[k], z) = Slot(t[k], z),
           \A k \in DOMAIN u \ DOMAIN t : u[k] = NewSegment
    PROVE  /\ Held(u) = Held(t)
           /\ \A r \in Held(t) : HeldContext(u, r) = HeldContext(t, r)
<1>1. \A z \in Terminator : Slot(NewSegment, z) = NULL
  BY DEF Slot, NewSegment
<1>2. Held(u) = Held(t)
  <2>1. ASSUME NEW r \in Held(u) PROVE r \in Held(t)
    <3>1. PICK k \in DOMAIN u, z \in Terminator : r = Append(k, z) /\ Slot(u[k], z) # NULL
      BY HeldSlots
    <3>2. k \in DOMAIN t /\ Slot(t[k], z) # NULL
      BY <1>1, <3>1
    <3> QED BY <3>1, <3>2, HeldSlots
  <2>2. ASSUME NEW r \in Held(t) PROVE r \in Held(u)
    <3>1. PICK k \in DOMAIN t, z \in Terminator : r = Append(k, z) /\ Slot(t[k], z) # NULL
      BY HeldSlots
    <3>2. k \in DOMAIN u /\ Slot(u[k], z) # NULL
      BY <3>1
    <3> QED BY <3>1, <3>2, HeldSlots
  <2> QED BY <2>1, <2>2
<1>3. ASSUME NEW r \in Held(t) PROVE HeldContext(u, r) = HeldContext(t, r)
  <2>1. PICK k \in DOMAIN t, z \in Terminator : r = Append(k, z)
    BY HeldSlots
  <2>2. k \in DOMAIN u /\ Slot(u[k], z) = Slot(t[k], z)
    BY <2>1
  <2>3. HeldContext(t, Append(k, z)) = Slot(t[k], z)
    BY <2>1, ContextOfSlot
  <2>4. HeldContext(u, Append(k, z)) = Slot(u[k], z)
    BY <2>1, <2>2, ContextOfSlot
  <2> QED BY <2>1, <2>2, <2>3, <2>4
<1> QED BY <1>2, <1>3

(* A route is added to a tree by filling the slot of its terminator.       *)
LEMMA HeldAdded ==
    ASSUME NEW t, NEW u, TreeType(t), TreeType(u), DOMAIN u = DOMAIN t,
           NEW k \in DOMAIN t, NEW z \in Terminator, Slot(t[k], z) = NULL, Slot(u[k], z) # NULL,
           \A q \in DOMAIN t, y \in Terminator : (q # k \/ y # z) => Slot(u[q], y) = Slot(t[q], y)
    PROVE  /\ Held(u) = Held(t) \cup {Append(k, z)} /\ Append(k, z) \notin Held(t)
           /\ HeldContext(u, Append(k, z)) = Slot(u[k], z)
           /\ \A r \in Held(t) : HeldContext(u, r) = HeldContext(t, r)
<1>1. Append(k, z) \notin Held(t) /\ Append(k, z) \in Held(u)
  BY ContextOfSlot
<1>2. ASSUME NEW r \in Held(t)
      PROVE  r \in Held(u) /\ HeldContext(u, r) = HeldContext(t, r)
  <2>1. PICK q \in DOMAIN t, y \in Terminator : r = Append(q, y) /\ Slot(t[q], y) # NULL
    BY HeldSlots
  <2>2. Slot(u[q], y) = Slot(t[q], y)
    BY <2>1
  <2>3. HeldContext(t, Append(q, y)) = Slot(t[q], y)
    BY <2>1, ContextOfSlot
  <2>4. HeldContext(u, Append(q, y)) = Slot(u[q], y) /\ (Append(q, y) \in Held(u) <=> Slot(u[q], y) # NULL)
    BY <2>1, ContextOfSlot
  <2> QED BY <2>1, <2>2, <2>3, <2>4
<1>3. ASSUME NEW r \in Held(u), r # Append(k, z) PROVE r \in Held(t)
  <2>1. PICK q \in DOMAIN t, y \in Terminator : r = Append(q, y) /\ Slot(u[q], y) # NULL
    BY HeldSlots
  <2>2. Slot(t[q], y) # NULL
    BY <1>3, <2>1
  <2> QED BY <2>1, <2>2, HeldSlots
<1> QED BY <1>1, <1>2, <1>3, ContextOfSlot

-----------------------------------------------------------------------------
(* The parts of the invariant, of a tree t that is walked as far as q.     *)

(* Every segment lies on the way of the walk or on the way to a route.     *)
NoDeadEnds(t, q) ==
    \A k \in DOMAIN t : IsPrefix(k, q) \/ \E r \in Held(t) : IsStrictPrefix(k, r)

(* No special type is set without its pointer.                             *)
NoNulls(t) ==
    \A k \in DOMAIN t : /\ t[k].spec = "SPEC_PARAM" => t[k].param # NoName
                        /\ t[k].spec = "SPEC_WILDCARD" => t[k].wildcard # NULL

DistinctChildren(t) == \A k \in DOMAIN t : IsInjective(t[k].children)

LiteralNames(t) == {n \in Names : \E k \in DOMAIN t : FindChild(t, k, n)}
ParamNames(t) == {t[k].param : k \in DOMAIN t} \ {NoName}

Interned(t, lits, pars) ==
    /\ ToSet(lits) = LiteralNames(t) /\ ToSet(pars) = ParamNames(t)
    /\ IsInjective(lits) /\ IsInjective(pars)

Sound(t, q, lits, pars) ==
    NoDeadEnds(t, q) /\ NoNulls(t) /\ DistinctChildren(t) /\ Interned(t, lits, pars)

LEMMA GrownKeeps ==
    ASSUME NEW t, NEW u, TreeType(t), TreeType(u), NEW k \in DOMAIN t, NEW x \in Step,
           Grown(t, u, k, x)
    PROVE  /\ Held(u) = Held(t)
           /\ \A r \in Held(t) : HeldContext(u, r) = HeldContext(t, r)
BY HeldKept DEF Grown, Slot

(* The walk goes on, into a segment that is there or into a new one.       *)
LEMMA WalkedOn ==
    ASSUME NEW t, NEW u, TreeType(t), NEW k \in DOMAIN t, NEW x \in Step,
           NoDeadEnds(t, k), Held(u) = Held(t), DOMAIN u \subseteq DOMAIN t \cup {Append(k, x)}
    PROVE  NoDeadEnds(u, Append(k, x))
<1> SUFFICES ASSUME NEW q \in DOMAIN u
             PROVE  IsPrefix(q, Append(k, x)) \/ \E r \in Held(u) : IsStrictPrefix(q, r)
  BY DEF NoDeadEnds
<1>1. k \in Seq(Step) /\ Append(k, x) \in Seq(Step)
  BY SegmentNames, AppendProperties
<1>2. CASE q = Append(k, x)
  BY <1>1, <1>2, PrefixOfAppend
<1>3. CASE q \in DOMAIN t /\ IsPrefix(q, k)
  <2>1. IsStrictPrefix(q, Append(k, x))
    BY <1>1, <1>3, SegmentNames, PrefixOfAppend
  <2> QED BY <2>1 DEF IsStrictPrefix
<1>4. CASE q \in DOMAIN t /\ ~IsPrefix(q, k)
  BY <1>4 DEF NoDeadEnds
<1> QED BY <1>2, <1>3, <1>4

(* The walk ends with a route, of which all that it passed is a prefix.    *)
LEMMA Arrived ==
    ASSUME NEW t, NEW u, TreeType(t), NEW k \in DOMAIN t, NEW z \in Terminator,
           NoDeadEnds(t, k), DOMAIN u = DOMAIN t, Held(u) = Held(t) \cup {Append(k, z)}
    PROVE  NoDeadEnds(u, Root)
<1> SUFFICES ASSUME NEW q \in DOMAIN t
             PROVE  \E r \in Held(u) : IsStrictPrefix(q, r)
  BY DEF NoDeadEnds
<1>1. k \in Seq(Token) /\ q \in Seq(Token) /\ z \in Token
  BY SegmentNames DEF Token
<1>2. CASE IsPrefix(q, k)
  BY <1>1, <1>2, PrefixOfAppend
<1>3. CASE ~IsPrefix(q, k)
  BY <1>3 DEF NoDeadEnds
<1> QED BY <1>2, <1>3

LEMMA NewSegmentEmpty ==
    /\ IsInjective(NewSegment.children) /\ NewSegment.param = NoName
    /\ NewSegment.spec = "SPEC_NONE"
    /\ \A t, k, n : t[k] = NewSegment => ~FindChild(t, k, n)
BY EmptySeq DEF NewSegment, IsInjective, FindChild, Contains

LEMMA AppendChildSound ==
    ASSUME NEW t, Shape(t), NEW k \in DOMAIN t, NEW n \in Names,
           ~FindChild(t, k, n), t[k].spec # "SPEC_PARAM",
           NEW lits \in Seq(Names), NEW pars, Sound(t, k, lits, pars)
    PROVE  Sound(AppendChild(t, k, n), Append(k, Lit(n)), Intern(lits, n), pars)
<1> DEFINE u == AppendChild(t, k, n)
           new == Append(k, Lit(n))
<1>1. /\ Grown(t, u, k, Lit(n)) /\ Shape(u) /\ Lit(n) \in Step
      /\ u[k].children = Append(t[k].children, n)
      /\ u[k].param = t[k].param /\ u[k].spec = t[k].spec
  BY AppendChildGrown, AppendChildShape, TokenTypes
<1> HIDE DEF u
<1>2. t[k].children \in Seq(Names) /\ TreeType(t) /\ TreeType(u)
  BY <1>1 DEF Shape, TreeType, Segment
<1>3. NoDeadEnds(u, new)
  <2>1. DOMAIN u = DOMAIN t \cup {new} /\ NoDeadEnds(t, k)
    BY <1>1 DEF Grown, Sound
  <2>2. Held(u) = Held(t)
    BY <1>1, <1>2, GrownKeeps
  <2> QED BY <1>1, <1>2, <2>1, <2>2, WalkedOn
<1>4. NoNulls(u)
  BY <1>1, NewSegmentEmpty DEF Grown, NoNulls, Sound
<1>5. \A m \in Names : FindChild(u, k, m) <=> (FindChild(t, k, m) \/ m = n)
  <2>1. ToSet(u[k].children) = ToSet(t[k].children) \cup {n}
    BY <1>1, <1>2, AppendSet
  <2>2. \A m \in Names : FindChild(t, k, m) <=> m \in ToSet(t[k].children)
    BY <1>2, AppendSet DEF FindChild
  <2>3. u[k].children \in Seq(Names)
    BY <1>1, <1>2, AppendProperties
  <2>4. \A m \in Names : FindChild(u, k, m) <=> m \in ToSet(u[k].children)
    BY <2>3, AppendSet DEF FindChild
  <2> QED BY <2>1, <2>2, <2>4
<1>6. DistinctChildren(u)
  <2>1. IsInjective(u[k].children)
    BY <1>1, <1>2, AppendSet DEF Sound, DistinctChildren, FindChild
  <2> QED BY <1>1, <2>1, NewSegmentEmpty DEF Grown, DistinctChildren, Sound
<1>7. LiteralNames(u) = LiteralNames(t) \cup {n}
  <2>1. ASSUME NEW m \in Names, NEW q \in DOMAIN u, FindChild(u, q, m)
        PROVE  m = n \/ m \in LiteralNames(t)
    <3>1. CASE q = k
      BY <1>5, <2>1, <3>1 DEF LiteralNames
    <3>2. CASE q = new
      BY <1>1, <2>1, <3>2, NewSegmentEmpty DEF Grown
    <3>3. CASE q \in DOMAIN t \ {k}
      BY <1>1, <2>1, <3>3 DEF Grown, LiteralNames, FindChild
    <3> QED BY <1>1, <3>1, <3>2, <3>3 DEF Grown
  <2>2. ASSUME NEW m \in Names, NEW q \in DOMAIN t, FindChild(t, q, m)
        PROVE  m \in LiteralNames(u)
    <3>1. CASE q = k
      BY <1>1, <1>5, <2>2, <3>1 DEF LiteralNames, Grown
    <3>2. CASE q # k
      BY <1>1, <2>2, <3>2 DEF Grown, LiteralNames, FindChild
    <3> QED BY <3>1, <3>2
  <2>3. n \in LiteralNames(u)
    BY <1>1, <1>5 DEF LiteralNames, Grown
  <2> QED BY <2>1, <2>2, <2>3 DEF LiteralNames
<1>8. ParamNames(u) = ParamNames(t)
  <2>1. ASSUME NEW q \in DOMAIN u PROVE u[q].param \in {t[j].param : j \in DOMAIN t} \cup {NoName}
    BY <1>1, NewSegmentEmpty DEF Grown
  <2>2. ASSUME NEW q \in DOMAIN t PROVE t[q].param \in {u[j].param : j \in DOMAIN u}
    BY <1>1 DEF Grown
  <2> QED BY <2>1, <2>2 DEF ParamNames
<1>9. Interned(u, Intern(lits, n), pars)
  BY <1>7, <1>8, InternSet DEF Sound, Interned
<1> QED BY <1>3, <1>4, <1>6, <1>9 DEF Sound, u, new

LEMMA SetParamSound ==
    ASSUME NEW t, Shape(t), NEW k \in DOMAIN t, NEW n \in Names,
           t[k].spec = "SPEC_NONE", t[k].children = <<>>,
           NEW u, u = SetParam([t EXCEPT ![k].spec = "SPEC_PARAM"], k, n),
           NEW lits, NEW pars \in Seq(Names), Sound(t, k, lits, pars)
    PROVE  Sound(u, Append(k, Par(n)), lits, Intern(pars, n))
<1> DEFINE new == Append(k, Par(n))
<1>1. /\ Grown(t, u, k, Par(n)) /\ Shape(u) /\ Par(n) \in Step
      /\ u[k].children = <<>> /\ u[k].param = n /\ u[k].spec = "SPEC_PARAM"
  BY SetParamGrown, SetParamShape, TokenTypes
<1>2. TreeType(t) /\ TreeType(u) /\ n # NoName /\ t[k].param = NoName
  BY <1>1, NamesAssumption DEF Shape, Exclusive, NoName
<1>3. NoDeadEnds(u, new)
  <2>1. DOMAIN u = DOMAIN t \cup {new} /\ NoDeadEnds(t, k)
    BY <1>1 DEF Grown, Sound
  <2>2. Held(u) = Held(t)
    BY <1>1, <1>2, GrownKeeps
  <2> QED BY <1>1, <1>2, <2>1, <2>2, WalkedOn
<1>4. NoNulls(u)
  <2>1. /\ \A q \in DOMAIN t \ {k} : u[q] = t[q]
        /\ u[new].spec = "SPEC_NONE" /\ DOMAIN u = DOMAIN t \cup {new}
    BY <1>1, NewSegmentEmpty DEF Grown
  <2> QED BY <1>1, <1>2, <2>1 DEF NoNulls, Sound
<1>5. DistinctChildren(u)
  BY <1>1, NewSegmentEmpty DEF Grown, DistinctChildren, Sound
<1>6. LiteralNames(u) = LiteralNames(t)
  <2>1. \A m : ~FindChild(u, k, m) /\ ~FindChild(t, k, m)
    BY <1>1, EmptySeq DEF FindChild, Contains
  <2>2. \A m : ~FindChild(u, new, m)
    BY <1>1, NewSegmentEmpty DEF Grown
  <2>3. \A q \in DOMAIN t \ {k} : \A m : FindChild(u, q, m) <=> FindChild(t, q, m)
    BY <1>1 DEF Grown, FindChild
  <2>4. DOMAIN u = DOMAIN t \cup {new}
    BY <1>1 DEF Grown
  <2> HIDE DEF new
  <2> QED BY <2>1, <2>2, <2>3, <2>4 DEF LiteralNames
<1>7. ParamNames(u) = ParamNames(t) \cup {n}
  <2>1. ASSUME NEW q \in DOMAIN u
        PROVE  u[q].param \in {t[j].param : j \in DOMAIN t} \cup {NoName, n}
    BY <1>1, NewSegmentEmpty DEF Grown
  <2>2. ASSUME NEW q \in DOMAIN t
        PROVE  t[q].param \in {u[j].param : j \in DOMAIN u} \cup {NoName}
    BY <1>1, <1>2 DEF Grown
  <2>3. n \in {u[j].param : j \in DOMAIN u}
    BY <1>1 DEF Grown
  <2>4. ASSUME NEW m, m # NoName
        PROVE  m \in {u[j].param : j \in DOMAIN u} <=> m \in {t[j].param : j \in DOMAIN t} \/ m = n
    BY <2>1, <2>2, <2>3, <2>4
  <2> QED BY <1>2, <2>4 DEF ParamNames
<1>8. Interned(u, lits, Intern(pars, n))
  BY <1>6, <1>7, InternSet DEF Sound, Interned
<1> QED BY <1>3, <1>4, <1>5, <1>8 DEF Sound

(* Filling a slot of a segment keeps a tree sound.                         *)
Filled(t, u, k, z) ==
    /\ DOMAIN u = DOMAIN t
    /\ Slot(t[k], z) = NULL /\ Slot(u[k], z) # NULL
    /\ \A q \in DOMAIN t, y \in Terminator : (q # k \/ y # z) => Slot(u[q], y) = Slot(t[q], y)
    /\ \A q \in DOMAIN t : u[q].children = t[q].children /\ u[q].param = t[q].param
    /\ \A q \in DOMAIN t \ {k} : u[q].spec = t[q].spec
    /\ u[k].spec = IF z = Wildcard THEN "SPEC_WILDCARD" ELSE t[k].spec

LEMMA ArrivedSound ==
    ASSUME NEW t, Shape(t), NEW u, Shape(u), NEW k \in DOMAIN t, NEW z \in Terminator,
           Filled(t, u, k, z), NEW lits, NEW pars, Sound(t, k, lits, pars)
    PROVE  Sound(u, Root, lits, pars)
<1> USE DEF Filled
<1>1. TreeType(t) /\ TreeType(u) /\ Sound(t, k, lits, pars)
  BY DEF Shape
<1>2. NoDeadEnds(u, Root)
  <2>1. Held(u) = Held(t) \cup {Append(k, z)}
    BY <1>1, HeldAdded
  <2> QED BY <1>1, <2>1, Arrived DEF Sound
<1>3. NoNulls(u)
  <2>1. ASSUME NEW q \in DOMAIN t, u[q].spec = "SPEC_PARAM" PROVE u[q].param # NoName
    BY <1>1, <2>1 DEF Sound, NoNulls
  <2>2. ASSUME NEW q \in DOMAIN t, u[q].spec = "SPEC_WILDCARD" PROVE u[q].wildcard # NULL
    <3>1. Wildcard \in Terminator /\ \A s : Slot(s, Wildcard) = s.wildcard
      BY TerminatorsDiffer DEF Slot, Terminator
    <3>2. CASE q = k /\ z = Wildcard
      BY <3>1, <3>2
    <3>3. CASE ~(q = k /\ z = Wildcard)
      <4>1. t[q].spec = "SPEC_WILDCARD"
        BY <2>2, <3>3
      <4>2. Slot(u[q], Wildcard) = Slot(t[q], Wildcard)
        BY <3>1, <3>3
      <4> QED BY <1>1, <3>1, <4>1, <4>2 DEF Sound, NoNulls
    <3> QED BY <3>2, <3>3
  <2> QED BY <2>1, <2>2 DEF NoNulls
<1>4. DistinctChildren(u) /\ Interned(u, lits, pars)
  BY <1>1 DEF Sound, DistinctChildren, Interned, LiteralNames, ParamNames, FindChild
<1> QED BY <1>2, <1>3, <1>4 DEF Sound

-----------------------------------------------------------------------------
(* The invariant: between calls the walk is at the root, nothing walks in  *)
(* a spoilt builder, and a builder that is not spoilt is sound.            *)
AtRest == ~Walking => cur = Root /\ route = NULL

SInv ==
    /\ IInv /\ AtRest /\ (Walking => ~corrupted)
    /\ ~corrupted => Sound(tree, cur, literals, params)

LEMMA InitSInv == Init => SInv
<1> SUFFICES ASSUME Init PROVE SInv
  OBVIOUS
<1>1. IInv /\ ~Walking /\ cur = Root /\ route = NULL
  BY InitIInv DEF Init, Walking
<1>2. DOMAIN tree = {Root} /\ tree[Root] = NewSegment
  BY DEF Init
<1>3. NoDeadEnds(tree, Root)
  <2>1. Root \in Seq(Step)
    BY EmptySeq DEF Root
  <2>2. IsPrefix(Root, Root)
    BY <2>1, EmptySeq DEF IsPrefix
  <2> QED BY <1>2, <2>2 DEF NoDeadEnds
<1>4. NoNulls(tree) /\ DistinctChildren(tree)
  BY <1>2, NewSegmentEmpty DEF NoNulls, DistinctChildren
<1>5. LiteralNames(tree) = {} /\ ParamNames(tree) = {}
  BY <1>2, NewSegmentEmpty DEF LiteralNames, ParamNames
<1>6. literals = <<>> /\ params = <<>>
  BY DEF Init
<1>7. Interned(tree, literals, params)
  BY <1>5, <1>6 DEF Interned, ToSet, IsInjective
<1> QED BY <1>1, <1>3, <1>4, <1>7 DEF SInv, AtRest, Sound

(* The three ways a step of the walk ends: it fails, it adds the route, or *)
(* it goes on.                                                             *)
LEMMA FailedSInv ==
    ASSUME IInv', NEW e, e # "OK", Return(e)
    PROVE  SInv'
BY DEF SInv, AtRest, Return, Walking

LEMMA TerminatedSInv ==
    ASSUME SInv, IInv', Walking, NEW newTree, Terminate(newTree),
           Sound(newTree, Root, literals, params)
    PROVE  SInv'
BY DEF SInv, AtRest, Terminate, Return, Walking, tables

LEMMA DescendedSInv ==
    ASSUME SInv, IInv', Walking, tok \in Step, Descend,
           Sound(tree', Append(cur, tok), literals', params')
    PROVE  SInv'
<1>1. rest \in Seq(Token) /\ Tokenised(rest) /\ Head(rest) \in Step
  BY DEF SInv, IInv, TypeOK, tok
<1>2. Tail(rest) # <<>>
  BY <1>1, TailTokenised
<1> QED BY <1>2 DEF SInv, AtRest, Descend, Walking

(* Sound of the tree whose current segment has one more terminal.          *)
LEMMA TerminalSound ==
    ASSUME SInv, Walking, route \in Contexts, NEW newTree, Shape(newTree),
           NEW z \in Terminator, Slot(seg, z) = NULL,
           NEW s \in Segment, newTree = [tree EXCEPT ![cur] = s],
           s.children = seg.children, s.param = seg.param,
           Slot(s, z) = route, \A y \in Terminator \ {z} : Slot(s, y) = Slot(seg, y),
           s.spec = IF z = Wildcard THEN "SPEC_WILDCARD" ELSE seg.spec
    PROVE  Sound(newTree, Root, literals, params)
<1>1. /\ Shape(tree) /\ cur \in DOMAIN tree /\ Sound(tree, cur, literals, params)
      /\ seg = tree[cur] /\ route # NULL
  BY TreeAssumption DEF SInv, IInv, TypeOK, seg
<1>2. DOMAIN newTree = DOMAIN tree /\ newTree[cur] = s
  BY <1>1
<1>3. \A q \in DOMAIN tree \ {cur} : newTree[q] = tree[q]
  BY <1>1
<1>4. \A q \in DOMAIN tree, y \in Terminator :
         (q # cur \/ y # z) => Slot(newTree[q], y) = Slot(tree[q], y)
  BY <1>1, <1>2, <1>3
<1>5. \A q \in DOMAIN tree : newTree[q].children = tree[q].children /\ newTree[q].param = tree[q].param
  BY <1>1, <1>2, <1>3
<1>6. \A q \in DOMAIN tree \ {cur} : newTree[q].spec = tree[q].spec
  BY <1>3
<1>7. newTree[cur].spec = IF z = Wildcard THEN "SPEC_WILDCARD" ELSE tree[cur].spec
  BY <1>1, <1>2
<1>8. Slot(tree[cur], z) = NULL /\ Slot(newTree[cur], z) # NULL
  BY <1>1, <1>2
<1>9. Filled(tree, newTree, cur, z)
  BY <1>2, <1>4, <1>5, <1>6, <1>7, <1>8 DEF Filled
<1> QED BY <1>1, <1>9, ArrivedSound

LEMMA NextSInv == SInv /\ [Next]_vars => SInv'
<1> SUFFICES ASSUME SInv, [Next]_vars PROVE SInv'
  OBVIOUS
<1> USE DEF tables
<1>1. IInv /\ IInv' /\ Shape(tree) /\ Shape(tree') /\ cur \in DOMAIN tree
  BY NextIInv DEF SInv, IInv, TypeOK
<1>2. literals \in Seq(Names) /\ params \in Seq(Names)
  BY <1>1 DEF IInv, TypeOK
<1>3. Walking => Sound(tree, cur, literals, params)
  BY DEF SInv
<1>4. ASSUME NEW p \in Patterns, NEW c \in Contexts, AddRoute(p, c) PROVE SInv'
  <2>1. CASE corrupted
    BY <1>1, <1>4, <2>1, FailedSInv DEF AddRoute
  <2>2. CASE ~corrupted
    <3>1. rest' = p /\ cur' = Root /\ cur = Root /\ p # <<>>
      BY <1>4, <2>2, BuilderAssumption DEF AddRoute, SInv, AtRest, Tokenised
    <3> QED BY <1>1, <1>4, <2>2, <3>1 DEF AddRoute, SInv, AtRest, Walking
  <2> QED BY <2>1, <2>2
<1>5. CASE Reject
  BY <1>1, <1>5, FailedSInv DEF Reject
<1>6. CASE AddTerminal
  <2> DEFINE s == [seg EXCEPT !.terminal = route]
  <2>1. Walking /\ Conflict = "OK" /\ tok.type = "END" /\ Terminate([tree EXCEPT ![cur].terminal = route])
    BY <1>6 DEF AddTerminal, Admits
  <2>2. seg \in Segment /\ route \in Contexts
    BY <1>1, <1>6, AdmitsFacts DEF AddTerminal
  <2>3. seg.terminal = NULL
    BY <2>1 DEF Conflict
  <2>4. /\ s \in Segment /\ s.children = seg.children /\ s.param = seg.param
        /\ s.terminal = route /\ s.trailing = seg.trailing /\ s.wildcard = seg.wildcard
        /\ s.spec = seg.spec
    BY <2>2 DEF Segment
  <2>5. [tree EXCEPT ![cur].terminal = route] = [tree EXCEPT ![cur] = s]
    BY DEF seg
  <2> HIDE DEF s
  <2>6. tree' = [tree EXCEPT ![cur] = s]
    BY <2>1, <2>5 DEF Terminate
  <2>7. /\ End \in Terminator /\ End # Wildcard /\ Slot(seg, End) = NULL /\ Slot(s, End) = route
        /\ \A y \in Terminator \ {End} : Slot(s, y) = Slot(seg, y)
    BY <2>3, <2>4, TerminatorsDiffer DEF Slot, Terminator
  <2>8. Sound(tree', Root, literals, params)
    BY <1>1, <2>1, <2>2, <2>4, <2>6, <2>7, TerminalSound
  <2> QED BY <1>1, <2>1, <2>8, TerminatedSInv DEF Terminate
<1>7. CASE AddTrailing
  <2> DEFINE s == [seg EXCEPT !.trailing = route]
  <2>1. Walking /\ Conflict = "OK" /\ tok.type = "TRAILING" /\ Terminate([tree EXCEPT ![cur].trailing = route])
    BY <1>7 DEF AddTrailing, Admits
  <2>2. seg \in Segment /\ route \in Contexts
    BY <1>1, <1>7, AdmitsFacts DEF AddTrailing
  <2>3. seg.trailing = NULL
    BY <2>1 DEF Conflict
  <2>4. /\ s \in Segment /\ s.children = seg.children /\ s.param = seg.param
        /\ s.terminal = seg.terminal /\ s.trailing = route /\ s.wildcard = seg.wildcard
        /\ s.spec = seg.spec
    BY <2>2 DEF Segment
  <2>5. [tree EXCEPT ![cur].trailing = route] = [tree EXCEPT ![cur] = s]
    BY DEF seg
  <2> HIDE DEF s
  <2>6. tree' = [tree EXCEPT ![cur] = s]
    BY <2>1, <2>5 DEF Terminate
  <2>7. /\ Trailing \in Terminator /\ Trailing # Wildcard
        /\ Slot(seg, Trailing) = NULL /\ Slot(s, Trailing) = route
        /\ \A y \in Terminator \ {Trailing} : Slot(s, y) = Slot(seg, y)
    BY <2>3, <2>4, TerminatorsDiffer DEF Slot, Terminator
  <2>8. Sound(tree', Root, literals, params)
    BY <1>1, <2>1, <2>2, <2>4, <2>6, <2>7, TerminalSound
  <2> QED BY <1>1, <2>1, <2>8, TerminatedSInv DEF Terminate
<1>8. CASE AddWildcard
  <2> DEFINE s == [seg EXCEPT !.spec = "SPEC_WILDCARD", !.wildcard = route]
  <2>1. /\ Walking
        /\ Terminate([tree EXCEPT ![cur].spec = "SPEC_WILDCARD", ![cur].wildcard = route])
    BY <1>8 DEF AddWildcard, Admits
  <2>2. seg \in Segment /\ route \in Contexts /\ seg.spec = "SPEC_NONE"
    BY <1>1, <1>8, AdmitsFacts DEF AddWildcard
  <2>3. seg.wildcard = NULL
    BY <1>1, <2>2 DEF Shape, Exclusive, seg
  <2>4. /\ s \in Segment /\ s.children = seg.children /\ s.param = seg.param
        /\ s.terminal = seg.terminal /\ s.trailing = seg.trailing /\ s.wildcard = route
        /\ s.spec = "SPEC_WILDCARD"
    BY <2>2 DEF Segment
  <2>5. [tree EXCEPT ![cur].spec = "SPEC_WILDCARD", ![cur].wildcard = route]
           = [tree EXCEPT ![cur] = s]
    BY <1>1 DEF seg, Shape, TreeType
  <2> HIDE DEF s
  <2>6. tree' = [tree EXCEPT ![cur] = s]
    BY <2>1, <2>5 DEF Terminate
  <2>7. /\ Wildcard \in Terminator /\ Slot(seg, Wildcard) = NULL /\ Slot(s, Wildcard) = route
        /\ \A y \in Terminator \ {Wildcard} : Slot(s, y) = Slot(seg, y)
    BY <2>3, <2>4, TerminatorsDiffer DEF Slot, Terminator
  <2>8. Sound(tree', Root, literals, params)
    BY <1>1, <2>1, <2>2, <2>4, <2>6, <2>7, TerminalSound
  <2> QED BY <1>1, <2>1, <2>8, TerminatedSInv DEF Terminate
<1>9. ASSUME Walking, tok \in Step, Descend, UNCHANGED <<tree, tables, refs>>
      PROVE  SInv'
  <2>1. NoDeadEnds(tree, Append(cur, tok))
    BY <1>1, <1>3, <1>9, WalkedOn DEF Sound, Shape
  <2> QED BY <1>1, <1>3, <1>9, <2>1, DescendedSInv DEF Sound
<1>10. CASE FollowLiteral
  BY <1>1, <1>9, <1>10, AdmitsFacts DEF FollowLiteral
<1>11. CASE FollowParam
  BY <1>1, <1>9, <1>11, AdmitsFacts DEF FollowParam
<1>12. CASE AddLiteral
  <2>1. /\ Walking /\ tok \in Step /\ tok.str \in Names /\ tok = Lit(tok.str)
        /\ tree[cur].spec # "SPEC_PARAM"
        /\ ~FindChild(tree, cur, tok.str) /\ Descend /\ UNCHANGED params
        /\ literals' = Intern(literals, tok.str) /\ tree' = AppendChild(tree, cur, tok.str)
    BY <1>1, <1>12, AdmitsFacts DEF AddLiteral, Admits, seg
  <2>2. Sound(AppendChild(tree, cur, tok.str), Append(cur, Lit(tok.str)), Intern(literals, tok.str), params)
    BY <1>1, <1>2, <1>3, <2>1, AppendChildSound
  <2> QED BY <1>1, <2>1, <2>2, DescendedSInv
<1>13. CASE AddParam
  <2>1. /\ Walking /\ tok \in Step /\ tok.str \in Names /\ tok = Par(tok.str)
        /\ tree[cur].spec = "SPEC_NONE" /\ tree[cur].children = <<>> /\ Descend
        /\ params' = Intern(params, tok.str) /\ UNCHANGED literals
        /\ tree' = SetParam([tree EXCEPT ![cur].spec = "SPEC_PARAM"], cur, tok.str)
    BY <1>1, <1>13, AdmitsFacts DEF AddParam, Admits, seg
  <2>2. Sound(tree', Append(cur, Par(tok.str)), literals, Intern(params, tok.str))
    BY <1>1, <1>2, <1>3, <2>1, SetParamSound
  <2> QED BY <1>1, <2>1, <2>2, DescendedSInv
<1>14. CASE LiteralOutOfRange
  BY <1>1, <1>14, FailedSInv DEF LiteralOutOfRange
<1>15. CASE ParamOutOfRange
  BY <1>1, <1>15, FailedSInv DEF ParamOutOfRange
<1>16. CASE OutOfMemory
  BY <1>1, <1>16, FailedSInv DEF OutOfMemory
<1>17. CASE UNCHANGED vars
  BY <1>1, <1>17 DEF vars, SInv, AtRest, Walking
<1> QED BY <1>4, <1>5, <1>6, <1>7, <1>8, <1>10, <1>11, <1>12, <1>13, <1>14, <1>15, <1>16,
           <1>17 DEF Next, Walk

(* Soundness, in the terms of Tree.                                        *)
LEMMA SoundIsSoundTree ==
    ASSUME NEW t, Shape(t), NEW lits, NEW pars, Sound(t, Root, lits, pars)
    PROVE  SoundTree(t)
<1>1. ASSUME NEW k \in DOMAIN t \ {Root}
      PROVE  /\ Front(k) \in DOMAIN t
             /\ \/ Last(k) \in Literals /\ FindChild(t, Front(k), Last(k).str)
                \/ Last(k) = Par(t[Front(k)].param)
             /\ \E r \in Held(t) : IsStrictPrefix(k, r)
  <2>1. k \in Seq(Step) /\ Len(k) \in Nat \ {0}
    BY SegmentNames, EmptySeq DEF Shape, Root
  <2>2. Leads(t, Prefix(k, Len(k) - 1), k[Len(k)])
    BY <2>1 DEF Shape, Paths
  <2>3. ~IsPrefix(k, Root)
    BY <2>1, EmptySeq DEF IsPrefix, Root
  <2>4. \E r \in Held(t) : IsStrictPrefix(k, r)
    BY <2>3 DEF Sound, NoDeadEnds
  <2> QED BY <2>2, <2>4 DEF Leads, Front, Last, Prefix
<1>2. ASSUME NEW k \in DOMAIN t
      PROVE  /\ \A i \in DOMAIN t[k].children : Append(k, Lit(t[k].children[i])) \in DOMAIN t
             /\ IsInjective(t[k].children)
             /\ t[k].param # NoName => Append(k, Par(t[k].param)) \in DOMAIN t
             /\ t[k].param # NoName <=> t[k].spec = "SPEC_PARAM"
             /\ t[k].wildcard # NULL <=> t[k].spec = "SPEC_WILDCARD"
             /\ t[k].param = NoName \/ t[k].children = <<>>
  <2>1. t[k].children \in Seq(Names)
    BY DEF Shape, TreeType, Segment
  <2>2. ASSUME NEW i \in DOMAIN t[k].children
        PROVE  Append(k, Lit(t[k].children[i])) \in DOMAIN t
    <3>1. i \in 1..Len(t[k].children) /\ t[k].children[i] \in Names
      BY <2>1, LenProperties, ElementOfSeq
    <3>2. FindChild(t, k, t[k].children[i])
      BY <3>1 DEF FindChild, Contains
    <3> QED BY <3>1, <3>2 DEF Shape, Pointers
  <2> QED BY <2>2 DEF Shape, Pointers, Exclusive, Sound, NoNulls, DistinctChildren
<1>3. Root \in DOMAIN t
  BY DEF Shape, TreeType
<1> QED BY <1>1, <1>2, <1>3 DEF SoundTree, Linked

-----------------------------------------------------------------------------
(* Until a call fails, the tree has no dead end but the way of the walk,   *)
(* no null pointer and no name that is missing from the symbol tables.     *)
THEOREM Soundness == Spec => []SInv
BY InitSInv, NextSInv, PTL DEF Spec

(* Between calls, a builder that is not corrupted holds a tree fit for     *)
(* compilation, for all patterns and limits and whatever failed: the dead  *)
(* ends that builder_add_route leaves when it stops half way are left in   *)
(* corrupted builders only.                                                *)
THEOREM TreesAreSound == Spec => []BuildsSoundTrees
<1>1. SInv => BuildsSoundTrees
  BY SoundIsSoundTree DEF SInv, IInv, AtRest, BuildsSoundTrees
<1> QED BY <1>1, Soundness, PTL

(* The symbol tables (symbol_append) name the segments of the tree exactly *)
(* and once each, at every moment of every call until one has failed.      *)
THEOREM SymbolsAreExact == Spec => []SymbolsExact
<1>1. SInv => SymbolsExact
  BY DEF SInv, Sound, Interned, LiteralNames, ParamNames, SymbolsExact
<1> QED BY <1>1, Soundness, PTL

-----------------------------------------------------------------------------
(* Part 3.                                                                 *)
-----------------------------------------------------------------------------
(* RouteTable has the operators of Routes from its own copy of the module. *)

LEMMA TableTokens ==
    /\ Table!Literals = Literals /\ Table!Params = Params
    /\ Table!Wildcard = Wildcard /\ Table!Trailing = Trailing /\ Table!End = End
BY DEF Table!Literals, Literals, Table!Params, Params, Table!Lit, Lit, Table!Par, Par,
       Table!Wildcard, Wildcard, Table!Trailing, Trailing, Table!End, End,
       Table!NoName, NoName

LEMMA TableFollowers ==
    \A R, p, k : Table!Followers(R, p, k) = Followers(R, p, k)
BY DEF Table!Followers, Followers, Table!Prefix, Prefix

LEMMA TableFault ==
    \A R, p, k : Table!Fault(R, p, k) = Fault(R, p, k)
BY TableTokens, TableFollowers DEF Table!Fault, Fault

LEMMA TableVerdict ==
    \A R, p : Table!Verdict(R, p) = Verdict(R, p)
<1> SUFFICES ASSUME NEW R, NEW p PROVE Table!Verdict(R, p) = Verdict(R, p)
  OBVIOUS
<1> DEFINE faults == {k \in 1..Len(p) : Fault(R, p, k) # "OK"}
           tableFaults == {k \in 1..Len(p) : Table!Fault(R, p, k) # "OK"}
           first(F) == CHOOSE k \in F : \A j \in F : k <= j
<1>1. Table!Verdict(R, p)
         = IF tableFaults = {} THEN "OK" ELSE Table!Fault(R, p, first(tableFaults))
  BY Zenon DEF Table!Verdict
<1>2. Verdict(R, p) = IF faults = {} THEN "OK" ELSE Fault(R, p, first(faults))
  BY Zenon DEF Verdict
<1>3. tableFaults = faults
  BY TableFault
<1> HIDE DEF faults, tableFaults, first
<1> QED BY <1>1, <1>2, <1>3, TableFault

LEMMA TableRouteOf ==
    \A p : Table!RouteOf(p) = RouteOf(p)
BY TableTokens DEF Table!RouteOf, RouteOf

-----------------------------------------------------------------------------
(* The tree gives the same account of the known routes as the table: what  *)
(* follows the walk in the routes is what the current segment holds.       *)

Ways(t, k) ==
    {x \in Step : Leads(t, k, x)} \cup {z \in Terminator : Slot(t[k], z) # NULL}

LEMMA HeldTokens ==
    ASSUME NEW t, TreeType(t), NEW r \in Held(t)
    PROVE  r \in Seq(Token)
<1>1. PICK k \in DOMAIN t, z \in Terminator : r = Append(k, z)
  BY HeldSlots
<1>2. k \in Seq(Token) /\ z \in Token
  BY SegmentNames DEF Token
<1> QED BY <1>1, <1>2, AppendProperties

LEMMA FollowersOnWays ==
    ASSUME NEW t, Shape(t), NEW k \in DOMAIN t, NEW r \in Held(t),
           Len(r) > Len(k), Prefix(r, Len(k)) = k
    PROVE  r[Len(k) + 1] \in Ways(t, k)
<1>1. PICK q \in DOMAIN t, z \in Terminator : r = Append(q, z) /\ Slot(t[q], z) # NULL
  BY HeldSlots
<1>2. /\ q \in Seq(Token) /\ q \in Seq(Step) /\ z \in Token
      /\ Len(q) \in Nat /\ Len(k) \in Nat
  BY SegmentNames DEF Shape, Token
<1>3. /\ Len(r) = Len(q) + 1 /\ r[Len(q) + 1] = z
      /\ \A i \in 1..Len(q) : r[i] = q[i]
  BY <1>1, <1>2, AppendProperties
<1>4. Len(k) \in 0..Len(q)
  BY <1>2, <1>3
<1>5. Prefix(q, Len(k)) = k
  BY <1>1, <1>2, <1>4, PrefixAppend
<1>6. CASE Len(k) = Len(q)
  <2>1. q = k
    BY <1>2, <1>5, <1>6, PrefixFull
  <2> QED BY <1>1, <1>3, <2>1 DEF Ways
<1>7. CASE Len(k) # Len(q)
  <2>1. Len(k) + 1 \in 1..Len(q) /\ (Len(k) + 1) - 1 = Len(k)
    BY <1>2, <1>4, <1>7
  <2>2. r[Len(k) + 1] = q[Len(k) + 1] /\ q[Len(k) + 1] \in Step
    BY <1>2, <1>3, <2>1, ElementOfSeq
  <2>3. Leads(t, Prefix(q, (Len(k) + 1) - 1), q[Len(k) + 1])
    BY <2>1 DEF Shape, Paths
  <2> QED BY <1>5, <2>1, <2>2, <2>3 DEF Ways
<1> QED BY <1>6, <1>7

LEMMA WaysFollowed ==
    ASSUME NEW t, Shape(t), NEW k \in DOMAIN t, NoDeadEnds(t, k), NEW x \in Ways(t, k)
    PROVE  \E r \in Held(t) : Len(r) > Len(k) /\ Prefix(r, Len(k)) = k /\ r[Len(k) + 1] = x
<1>1. k \in Seq(Token) /\ Len(k) \in Nat /\ TreeType(t)
  BY SegmentNames DEF Shape
<1>2. CASE x \in Terminator /\ Slot(t[k], x) # NULL
  <2>1. Append(k, x) \in Held(t)
    BY <1>2, HeldSlots
  <2>2. x \in Token
    BY <1>2 DEF Token
  <2>3. /\ Len(Append(k, x)) = Len(k) + 1 /\ Append(k, x)[Len(k) + 1] = x
        /\ Prefix(Append(k, x), Len(k)) = k
    <3>1. Prefix(Append(k, x), Len(k)) = Prefix(k, Len(k))
      BY <1>1, <2>2, PrefixAppend
    <3> QED BY <1>1, <2>2, <3>1, AppendProperties, PrefixFull
  <2>4. Len(Append(k, x)) > Len(k)
    BY <1>1, <2>3
  <2> QED BY <2>1, <2>3, <2>4
<1>3. CASE x \in Step /\ Leads(t, k, x)
  <2>1. x \in Token
    BY <1>3, TokenTypes
  <2>2. Append(k, x) \in DOMAIN t
    <3>1. CASE x \in Literals /\ FindChild(t, k, x.str)
      <4>1. x.str \in Names /\ x = Lit(x.str)
        BY <3>1 DEF Literals, Lit
      <4> QED BY <3>1, <4>1 DEF Shape, Pointers
    <3>2. CASE x = Par(t[k].param)
      <4>1. t[k].param # NoName
        BY <1>3, <3>2, NamesAssumption DEF Step, Literals, Params, Lit, Par, NoName
      <4> QED BY <3>2, <4>1 DEF Shape, Pointers
    <3> QED BY <1>3, <3>1, <3>2 DEF Leads
  <2>3. ~IsPrefix(Append(k, x), k)
    BY <1>1, <2>1, LongerIsNoPrefix
  <2>4. PICK r \in Held(t) : IsStrictPrefix(Append(k, x), r)
    BY <2>2, <2>3 DEF NoDeadEnds
  <2>5. r \in Seq(Token)
    BY <1>1, HeldTokens
  <2>6. Len(r) > Len(k) + 1 /\ Prefix(r, Len(k)) = k /\ r[Len(k) + 1] = x
    BY <1>1, <2>1, <2>4, <2>5, StrictPrefixStep
  <2>7. Len(r) \in Nat
    BY <2>5, LenProperties
  <2> QED BY <1>1, <2>6, <2>7
<1> QED BY <1>2, <1>3 DEF Ways

LEMMA FollowersAreWays ==
    ASSUME NEW t, Shape(t), NEW k \in DOMAIN t, NoDeadEnds(t, k),
           NEW p, Prefix(p, Len(k)) = k
    PROVE  Followers(Held(t), p, Len(k)) = Ways(t, k)
<1>1. ASSUME NEW x \in Followers(Held(t), p, Len(k)) PROVE x \in Ways(t, k)
  <2>1. PICK r \in Held(t) : Len(r) > Len(k) /\ Prefix(r, Len(k)) = k /\ x = r[Len(k) + 1]
    BY DEF Followers
  <2> QED BY <2>1, FollowersOnWays
<1>2. ASSUME NEW x \in Ways(t, k) PROVE x \in Followers(Held(t), p, Len(k))
  <2>1. PICK r \in Held(t) : Len(r) > Len(k) /\ Prefix(r, Len(k)) = k /\ r[Len(k) + 1] = x
    BY WaysFollowed
  <2> QED BY <2>1 DEF Followers
<1> QED BY <1>1, <1>2

(* What the tests of builder_add_route look at in a segment tells what     *)
(* ways go on from it.                                                     *)
LEMMA WaysOfSegment ==
    ASSUME NEW t, Shape(t), NoNulls(t), NEW k \in DOMAIN t
    PROVE  /\ Ways(t, k) \cap Params # {} <=> t[k].spec = "SPEC_PARAM"
           /\ Ways(t, k) \cap Params \subseteq {Par(t[k].param)}
           /\ Ways(t, k) \cap Literals # {} <=> t[k].children # <<>>
           /\ Wildcard \in Ways(t, k) <=> t[k].spec = "SPEC_WILDCARD"
           /\ End \in Ways(t, k) <=> t[k].terminal # NULL
           /\ Trailing \in Ways(t, k) <=> t[k].trailing # NULL
<1>1. t[k] \in Segment /\ t[k].children \in Seq(Names) /\ t[k].param \in Names \cup {NoName}
  BY DEF Shape, TreeType, Segment
<1>2. \A x \in Params \cup Literals : x \in Step /\ x \notin Terminator
  BY TokenTypes DEF Terminator
<1>3. \A x \in Params : x \notin Literals /\ x # Par(NoName)
  BY NamesAssumption DEF Literals, Params, Lit, Par, NoName
<1>4. Ways(t, k) \cap Params \subseteq {Par(t[k].param)}
  BY <1>2, <1>3 DEF Ways, Leads
<1>5. t[k].spec = "SPEC_PARAM" <=> t[k].param # NoName
  BY DEF Shape, Exclusive, NoNulls
<1>6. ASSUME t[k].spec = "SPEC_PARAM" PROVE Par(t[k].param) \in Ways(t, k) \cap Params
  <2>1. t[k].param \in Names
    BY <1>1, <1>5, <1>6
  <2>2. Par(t[k].param) \in Params
    BY <2>1, TokenTypes
  <2> QED BY <1>2, <2>2 DEF Ways, Leads
<1>7. ASSUME NEW x \in Ways(t, k) \cap Params PROVE t[k].spec = "SPEC_PARAM"
  BY <1>3, <1>4, <1>5
<1>8. ASSUME t[k].children # <<>> PROVE Ways(t, k) \cap Literals # {}
  <2>1. Len(t[k].children) \in Nat \ {0}
    BY <1>1, <1>8, EmptySeq, LenProperties
  <2>2. 1 \in 1..Len(t[k].children) /\ t[k].children[1] \in Names
    BY <1>1, <2>1, ElementOfSeq
  <2>3. FindChild(t, k, t[k].children[1])
    BY <2>2 DEF FindChild, Contains
  <2>4. Lit(t[k].children[1]) \in Literals /\ Lit(t[k].children[1]).str = t[k].children[1]
    BY <2>2, TokenTypes DEF Lit
  <2> QED BY <1>2, <2>3, <2>4 DEF Ways, Leads
<1>9. ASSUME NEW x \in Ways(t, k) \cap Literals PROVE t[k].children # <<>>
  <2>1. FindChild(t, k, x.str)
    <3>1. x # Par(t[k].param)
      BY DEF Literals, Lit, Par
    <3> QED BY <1>2, <3>1 DEF Ways, Leads
  <2> QED BY <2>1, EmptySeq DEF FindChild, Contains
<1>10. \A z \in Terminator : z \in Ways(t, k) <=> Slot(t[k], z) # NULL
  BY TokenTypes DEF Ways, Terminator
<1>11. Wildcard \in Ways(t, k) <=> t[k].spec = "SPEC_WILDCARD"
  BY <1>10, TerminatorsDiffer DEF Slot, Terminator, Shape, Exclusive, NoNulls
<1>12. /\ End \in Ways(t, k) <=> t[k].terminal # NULL
       /\ Trailing \in Ways(t, k) <=> t[k].trailing # NULL
  BY <1>10, TerminatorsDiffer DEF Slot, Terminator
<1> QED BY <1>4, <1>6, <1>7, <1>8, <1>9, <1>11, <1>12

(* The pattern being added is the way to the segment reached and the       *)
(* tokens still to come.                                                   *)
LEMMA WalkPattern ==
    ASSUME TypeOK, Walking
    PROVE  /\ cur \o rest \in Seq(Token) /\ cur \in Seq(Token)
           /\ Len(cur) \in Nat /\ Len(rest) \in Nat \ {0}
           /\ Len(cur \o rest) = Len(cur) + Len(rest)
           /\ Prefix(cur \o rest, Len(cur)) = cur
           /\ tok \in Token /\ tok = rest[1] /\ tok = (cur \o rest)[Len(cur) + 1]
           /\ Len(rest) > 1 => rest[2] = (cur \o rest)[Len(cur) + 2]
           /\ tok \in {Trailing, End, Illegal} <=> Len(rest) = 1
<1>1. TreeType(tree) /\ cur \in DOMAIN tree
  BY DEF TypeOK, TreeType
<1>2. cur \in Seq(Token) /\ Len(cur) \in Nat
  BY <1>1, SegmentNames
<1>3. rest \in Seq(Token) /\ Tokenised(rest) /\ Len(rest) \in Nat \ {0} /\ rest # <<>>
  BY EmptySeq, LenProperties DEF TypeOK, Walking
<1>4. /\ cur \o rest \in Seq(Token) /\ Len(cur \o rest) = Len(cur) + Len(rest)
      /\ \A i \in 1..(Len(cur) + Len(rest)) :
            (cur \o rest)[i] = IF i <= Len(cur) THEN cur[i] ELSE rest[i - Len(cur)]
  BY <1>2, <1>3, ConcatProperties
<1> DEFINE p == cur \o rest
<1> HIDE DEF p
<1>5. tok = rest[1] /\ tok \in Token
  BY <1>3, HeadTailProperties DEF tok
<1>6. p[Len(cur) + 1] = rest[1] /\ (Len(rest) > 1 => p[Len(cur) + 2] = rest[2])
  <2>1. Len(cur) + 1 \in 1..(Len(cur) + Len(rest)) /\ ~(Len(cur) + 1 <= Len(cur))
        /\ (Len(cur) + 1) - Len(cur) = 1
    BY <1>2, <1>3
  <2>2. Len(rest) > 1 => /\ Len(cur) + 2 \in 1..(Len(cur) + Len(rest)) /\ ~(Len(cur) + 2 <= Len(cur))
                         /\ (Len(cur) + 2) - Len(cur) = 2
    BY <1>2, <1>3
  <2> QED BY <1>4, <2>1, <2>2 DEF p
<1>7. Prefix(p, Len(cur)) = cur
  <2>1. Len(cur) \in 0..Len(p)
    BY <1>2, <1>3, <1>4 DEF p
  <2>2. /\ Prefix(p, Len(cur)) \in Seq(Token) /\ Len(Prefix(p, Len(cur))) = Len(cur)
        /\ \A i \in 1..Len(cur) : Prefix(p, Len(cur))[i] = p[i]
    BY <1>4, <2>1, PrefixProperties DEF p
  <2>3. \A i \in 1..Len(cur) : p[i] = cur[i]
    BY <1>2, <1>3, <1>4 DEF p
  <2> HIDE DEF Prefix
  <2> QED BY <1>2, <2>2, <2>3, SeqEqual
<1>8. tok \in {Trailing, End, Illegal} <=> Len(rest) = 1
  <2>1. 1 \in 1..Len(rest)
    BY <1>3
  <2>2. (1 = Len(rest)) <=> (rest[1] \in {Trailing, End, Illegal})
    BY <1>3, <2>1 DEF Tokenised
  <2> QED BY <1>5, <2>2
<1> QED BY <1>2, <1>3, <1>4, <1>5, <1>6, <1>7, <1>8 DEF p

(* The tests of the current token find the fault that the routes show.     *)
LEMMA ConflictIsFault ==
    ASSUME TypeOK, Shape(tree), Walking, NoDeadEnds(tree, cur), NoNulls(tree)
    PROVE  Conflict = Fault(Held(tree), cur \o rest, Len(cur) + 1)
<1> DEFINE p == cur \o rest
           W == Ways(tree, cur)
           error == Fault(Held(tree), p, Len(cur) + 1)
<1>1. /\ Len(cur) \in Nat /\ (Len(cur) + 1) - 1 = Len(cur) /\ Prefix(p, Len(cur)) = cur
      /\ tok \in Token /\ tok = p[Len(cur) + 1]
  BY WalkPattern
<1>2. cur \in DOMAIN tree /\ seg = tree[cur] /\ seg \in Segment
  BY DEF TypeOK, seg, Shape, TreeType
<1>3. Followers(Held(tree), p, (Len(cur) + 1) - 1) = W
  BY <1>1, <1>2, FollowersAreWays
<1>4. error = CASE tok \in Literals ->
                     IF W \cap Params # {} THEN "LITERAL_CONFLICTS_WITH_PARAM" ELSE "OK"
                [] tok \in Params ->
                     IF Wildcard \in W THEN "PARAM_CONFLICTS_WITH_WILDCARD"
                     ELSE IF W \cap Literals # {} THEN "PARAM_CONFLICTS_WITH_LITERAL"
                     ELSE IF W \cap Params \subseteq {tok} THEN "OK" ELSE "PARAM_NAME_MISMATCH"
                [] tok = Wildcard ->
                     IF Wildcard \in W THEN "DUPLICATE_ROUTE"
                     ELSE IF W \cap Params # {} THEN "WILDCARD_CONFLICTS_WITH_PARAM"
                     ELSE IF p[Len(cur) + 1 + 1] # End THEN "WILDCARD_NOT_FINAL" ELSE "OK"
                [] tok \in {Trailing, End} ->
                     IF tok \in W THEN "DUPLICATE_ROUTE" ELSE "OK"
                [] OTHER -> "ILLEGAL_PATTERN"
  BY <1>1, <1>3, Zenon DEF Fault
<1>5. /\ W \cap Params # {} <=> seg.spec = "SPEC_PARAM"
      /\ W \cap Params \subseteq {Par(seg.param)}
      /\ W \cap Literals # {} <=> seg.children # <<>>
      /\ Wildcard \in W <=> seg.spec = "SPEC_WILDCARD"
      /\ End \in W <=> seg.terminal # NULL
      /\ Trailing \in W <=> seg.trailing # NULL
  BY <1>2, WaysOfSegment
<1>6. seg.spec \in {"SPEC_NONE", "SPEC_PARAM", "SPEC_WILDCARD"}
  BY <1>2 DEF Segment
<1> HIDE DEF W, error
<1>7. ASSUME tok \in Literals PROVE Conflict = error
  <2>1. /\ tok.type = "LITERAL" /\ tok \notin Params
        /\ tok # Wildcard /\ tok \notin {Trailing, End}
    BY <1>7 DEF Wildcard, Trailing, End, Literals, Lit, Params, Par
  <2>2. error = IF W \cap Params # {} THEN "LITERAL_CONFLICTS_WITH_PARAM" ELSE "OK"
    BY <1>4, <1>7, <2>1
  <2>3. Conflict = LiteralConflict
    BY <2>1 DEF Conflict
  <2> QED BY <1>5, <2>2, <2>3 DEF LiteralConflict
<1>8. ASSUME tok \in Params PROVE Conflict = error
  <2>1. /\ tok.type = "PARAM" /\ tok \notin Literals /\ tok = Par(tok.str) /\ tok.str \in Names
        /\ tok # Wildcard /\ tok \notin {Trailing, End}
    BY <1>8 DEF Wildcard, Trailing, End, Params, Par, Literals, Lit
  <2>2. seg.spec = "SPEC_PARAM" => (W \cap Params \subseteq {tok} <=> seg.param = tok.str)
    BY <1>5, <2>1 DEF Par
  <2>3. seg.spec # "SPEC_PARAM" => W \cap Params \subseteq {tok}
    BY <1>5
  <2>4. error = IF Wildcard \in W THEN "PARAM_CONFLICTS_WITH_WILDCARD"
                ELSE IF W \cap Literals # {} THEN "PARAM_CONFLICTS_WITH_LITERAL"
                ELSE IF W \cap Params \subseteq {tok} THEN "OK" ELSE "PARAM_NAME_MISMATCH"
    BY <1>4, <1>8, <2>1
  <2>5. Conflict = ParamConflict
    BY <2>1 DEF Conflict
  <2>6. CASE seg.spec = "SPEC_WILDCARD"
    BY <1>5, <2>4, <2>5, <2>6 DEF ParamConflict
  <2>7. CASE seg.spec # "SPEC_WILDCARD" /\ seg.children # <<>>
    BY <1>5, <2>4, <2>5, <2>7 DEF ParamConflict
  <2>8. CASE seg.spec = "SPEC_PARAM" /\ seg.children = <<>>
    BY <1>5, <2>2, <2>4, <2>5, <2>8 DEF ParamConflict
  <2>9. CASE seg.spec = "SPEC_NONE" /\ seg.children = <<>>
    BY <1>5, <2>3, <2>4, <2>5, <2>9 DEF ParamConflict
  <2> QED BY <1>6, <2>6, <2>7, <2>8, <2>9
<1>9. ASSUME tok = Wildcard PROVE Conflict = error
  <2>1. /\ tok.type = "WILDCARD" /\ tok \notin Literals /\ tok \notin Params
        /\ tok \notin {Trailing, End}
    BY <1>9 DEF Wildcard, Trailing, End, Literals, Lit, Params, Par
  <2>2. p[Len(cur) + 1 + 1] = rest[2]
    <3>1. tok \notin {Trailing, End, Illegal}
      BY <1>9, TerminatorsDiffer DEF Illegal, Wildcard
    <3>2. Len(rest) # 1 /\ Len(rest) \in Nat \ {0}
      BY <3>1, WalkPattern
    <3>3. \A n \in Nat : n + 1 + 1 = n + 2 /\ (n # 0 /\ n # 1 => n > 1)
      OBVIOUS
    <3>4. Len(cur) + 1 + 1 = Len(cur) + 2 /\ Len(rest) > 1
      BY <1>1, <3>2, <3>3
    <3> QED BY <3>4, WalkPattern DEF p
  <2>3. error = IF Wildcard \in W THEN "DUPLICATE_ROUTE"
                ELSE IF W \cap Params # {} THEN "WILDCARD_CONFLICTS_WITH_PARAM"
                ELSE IF rest[2] # End THEN "WILDCARD_NOT_FINAL" ELSE "OK"
    BY <1>4, <1>9, <2>1, <2>2
  <2>4. Conflict = WildcardConflict
    BY <2>1 DEF Conflict
  <2>5. CASE seg.spec = "SPEC_WILDCARD"
    BY <1>5, <2>3, <2>4, <2>5 DEF WildcardConflict
  <2>6. CASE seg.spec = "SPEC_PARAM"
    BY <1>5, <2>3, <2>4, <2>6 DEF WildcardConflict
  <2>7. CASE seg.spec = "SPEC_NONE"
    BY <1>5, <2>3, <2>4, <2>7 DEF WildcardConflict
  <2> QED BY <1>6, <2>5, <2>6, <2>7
<1>10. ASSUME tok \in {Trailing, End} PROVE Conflict = error
  <2>1. /\ tok \notin Literals /\ tok \notin Params /\ tok # Wildcard
        /\ tok = Trailing => tok.type = "TRAILING"
        /\ tok = End => tok.type = "END"
    BY <1>10 DEF Wildcard, Trailing, End, Literals, Lit, Params, Par
  <2>2. error = IF tok \in W THEN "DUPLICATE_ROUTE" ELSE "OK"
    BY <1>4, <1>10, <2>1
  <2>3. CASE tok = Trailing
    BY <1>5, <2>1, <2>2, <2>3 DEF Conflict
  <2>4. CASE tok = End
    BY <1>5, <2>1, <2>2, <2>4 DEF Conflict
  <2> QED BY <1>10, <2>3, <2>4
<1>11. ASSUME tok = Illegal PROVE Conflict = error
  <2>1. /\ tok \notin Literals /\ tok \notin Params /\ tok # Wildcard
        /\ tok \notin {Trailing, End} /\ tok.type = "ILLEGAL"
    BY <1>11 DEF Wildcard, Trailing, End, Illegal, Literals, Lit, Params, Par
  <2> QED BY <1>4, <2>1 DEF Conflict
<1>12. Conflict = error
  BY <1>1, <1>7, <1>8, <1>9, <1>10, <1>11 DEF Token, Step, Terminator
<1> QED BY <1>12 DEF error

-----------------------------------------------------------------------------
(* The invariant that the refinement needs: the part of the pattern that   *)
(* the walk has passed shows no fault.                                     *)
NoFaultSoFar == \A k \in 1..Len(cur) : Fault(Held(tree), cur \o rest, k) = "OK"

RInv == SInv /\ (Walking => NoFaultSoFar)

(* What the other lemmas use of the invariant during a walk.               *)
LEMMA WalkingSound ==
    ASSUME RInv, Walking
    PROVE  /\ TypeOK /\ Shape(tree) /\ TreeType(tree) /\ cur \in DOMAIN tree /\ seg = tree[cur]
           /\ ~corrupted /\ NoDeadEnds(tree, cur) /\ NoNulls(tree) /\ NoFaultSoFar
           /\ Conflict = Fault(Held(tree), cur \o rest, Len(cur) + 1)
<1>1. /\ TypeOK /\ Shape(tree) /\ TreeType(tree) /\ cur \in DOMAIN tree /\ seg = tree[cur]
      /\ ~corrupted /\ NoDeadEnds(tree, cur) /\ NoNulls(tree) /\ NoFaultSoFar
  BY DEF RInv, SInv, IInv, TypeOK, Shape, Sound, seg
<1> QED BY <1>1, ConflictIsFault

(* The verdict on a pattern is its only fault when there is no earlier one. *)
LEMMA FirstFault ==
    ASSUME NEW R, NEW p \in Seq(Token), NEW m \in 1..Len(p), Fault(R, p, m) # "OK",
           \A k \in 1..Len(p) : k < m => Fault(R, p, k) = "OK"
    PROVE  Verdict(R, p) = Fault(R, p, m)
<1> DEFINE faults == {k \in 1..Len(p) : Fault(R, p, k) # "OK"}
           least(k) == \A j \in faults : k <= j
           first == CHOOSE k \in faults : least(k)
<1>1. Len(p) \in Nat /\ m \in Nat /\ m \in faults
  BY LenProperties
<1>2. \A j \in faults : m <= j
  BY <1>1
<1>3. first \in faults /\ \A j \in faults : first <= j
  BY <1>1, <1>2
<1>4. Verdict(R, p) = IF faults = {} THEN "OK" ELSE Fault(R, p, first)
  BY Zenon DEF Verdict
<1>5. first <= m /\ m <= first /\ first \in Nat
  BY <1>1, <1>2, <1>3
<1> HIDE DEF faults, first
<1>6. first = m
  BY <1>1, <1>5
<1> QED BY <1>1, <1>4, <1>6

LEMMA NoFault ==
    ASSUME NEW R, NEW p, \A k \in 1..Len(p) : Fault(R, p, k) = "OK"
    PROVE  Verdict(R, p) = "OK"
BY DEF Verdict

LEMMA RejectVerdict ==
    ASSUME RInv, Walking, Conflict # "OK"
    PROVE  Verdict(Held(tree), cur \o rest) = Conflict
<1> DEFINE p == cur \o rest
<1>1. /\ p \in Seq(Token) /\ Len(p) = Len(cur) + Len(rest)
      /\ Len(cur) \in Nat /\ Len(rest) \in Nat \ {0}
  BY WalkingSound, WalkPattern
<1>2. Conflict = Fault(Held(tree), p, Len(cur) + 1) /\ NoFaultSoFar
  BY WalkingSound
<1>3. Len(cur) + 1 \in 1..Len(p)
  BY <1>1
<1>4. \A k \in 1..Len(p) : k < Len(cur) + 1 => Fault(Held(tree), p, k) = "OK"
  BY <1>1, <1>2 DEF NoFaultSoFar
<1> QED BY <1>1, <1>2, <1>3, <1>4, FirstFault

(* One token further down the pattern.                                     *)
LEMMA NextPrefix ==
    ASSUME TypeOK, Walking
    PROVE  Prefix(cur \o rest, Len(cur) + 1) = Append(cur, tok)
<1> DEFINE p == cur \o rest
           a == Append(cur, tok)
<1>1. /\ p \in Seq(Token) /\ cur \in Seq(Token) /\ tok \in Token
      /\ Len(p) = Len(cur) + Len(rest) /\ Len(cur) \in Nat /\ Len(rest) \in Nat \ {0}
      /\ Prefix(p, Len(cur)) = cur /\ tok = p[Len(cur) + 1]
  BY WalkPattern
<1>2. /\ a \in Seq(Token) /\ Len(a) = Len(cur) + 1 /\ a[Len(cur) + 1] = tok
      /\ \A i \in 1..Len(cur) : a[i] = cur[i]
  BY <1>1, AppendProperties
<1> HIDE DEF p, a
<1>3. Len(cur) \in 0..Len(p) /\ Len(cur) + 1 \in 0..Len(p)
  BY <1>1
<1>4. \A i \in 1..Len(cur) : p[i] = cur[i]
  <2>1. \A i \in 1..Len(cur) : Prefix(p, Len(cur))[i] = p[i]
    BY <1>1, <1>3, PrefixProperties
  <2> QED BY <1>1, <2>1
<1>5. /\ Prefix(p, Len(cur) + 1) \in Seq(Token) /\ Len(Prefix(p, Len(cur) + 1)) = Len(cur) + 1
      /\ \A i \in 1..(Len(cur) + 1) : Prefix(p, Len(cur) + 1)[i] = p[i]
  BY <1>1, <1>3, PrefixProperties
<1>6. \A i \in 1..(Len(cur) + 1) : p[i] = a[i]
  <2>1. \A i \in 1..(Len(cur) + 1) : i \in 1..Len(cur) \/ i = Len(cur) + 1
    BY <1>1
  <2> QED BY <1>1, <1>2, <1>4, <2>1
<1>7. Prefix(p, Len(cur) + 1) = a
  <2> DEFINE q == Prefix(p, Len(cur) + 1)
  <2>1. q \in Seq(Token) /\ Len(q) = Len(a) /\ \A i \in 1..Len(q) : q[i] = a[i]
    BY <1>2, <1>5, <1>6
  <2> HIDE DEF q
  <2>2. q = a
    BY <1>2, <2>1, SeqEqual
  <2> QED BY <2>2 DEF q
<1> QED BY <1>7 DEF p, a

LEMMA DescendPattern ==
    ASSUME TypeOK, Walking
    PROVE  Append(cur, tok) \o Tail(rest) = cur \o rest
<1>1. /\ cur \in Seq(Token) /\ tok \in Token
  BY WalkPattern
<1>2. rest \in Seq(Token) /\ rest # <<>>
  BY DEF TypeOK, Walking
<1> QED BY <1>1, <1>2 DEF tok

(* Nothing follows a wildcard.                                             *)
LEMMA WildcardIsLast ==
    ASSUME NEW t, TreeType(t), NEW r \in Held(t), NEW n \in Nat, n > 0, Len(r) > n
    PROVE  r[n] # Wildcard
<1>1. PICK k \in DOMAIN t, z \in Terminator : r = Append(k, z)
  BY HeldSlots
<1>2. k \in Seq(Step) /\ k \in Seq(Token) /\ z \in Token /\ Len(k) \in Nat
  BY SegmentNames DEF Token
<1>3. Len(r) = Len(k) + 1 /\ \A i \in 1..Len(k) : r[i] = k[i]
  BY <1>1, <1>2, AppendProperties
<1>4. n \in 1..Len(k)
  BY <1>2, <1>3
<1>5. r[n] = k[n] /\ k[n] \in Step
  BY <1>2, <1>3, <1>4, ElementOfSeq
<1> QED BY <1>5, TokenTypes

(* The route of a pattern whose walk has come to its terminator.           *)
LEMMA RouteEnds ==
    ASSUME TypeOK, Walking, tok \in Terminator, tok = Wildcard => rest[2] = End
    PROVE  /\ RouteOf(cur \o rest) = Append(cur, tok)
           /\ tok # Wildcard => Len(rest) = 1
           /\ tok = Wildcard => Len(rest) = 2
<1> DEFINE p == cur \o rest
           m == Len(cur) + 1
<1>1. /\ p \in Seq(Token) /\ cur \in Seq(Step) /\ Len(p) = Len(cur) + Len(rest)
      /\ Len(cur) \in Nat /\ Len(rest) \in Nat \ {0}
      /\ Prefix(p, Len(cur)) = cur /\ tok \in Token /\ tok = p[m]
      /\ tok \in {Trailing, End, Illegal} <=> Len(rest) = 1
  BY WalkPattern DEF TypeOK
<1>2. Prefix(p, m) = Append(cur, tok)
  BY NextPrefix
<1> HIDE DEF p
<1>3. CASE tok \in {Trailing, End}
  <2>1. Len(rest) = 1 /\ Len(p) = m
    BY <1>1, <1>3
  <2>2. p = Append(cur, tok)
    BY <1>1, <1>2, <2>1, PrefixFull
  <2>3. ~(Len(p) > 1 /\ p[Len(p) - 1] = Wildcard)
    <3> SUFFICES ASSUME Len(p) > 1 PROVE p[Len(p) - 1] # Wildcard
      OBVIOUS
    <3>1. Len(p) - 1 = Len(cur) /\ Len(cur) \in 1..Len(cur) /\ Len(cur) \in 0..Len(p)
      BY <1>1, <2>1
    <3>2. Prefix(p, Len(cur))[Len(cur)] = p[Len(cur)]
      BY <1>1, <3>1, PrefixProperties
    <3>3. p[Len(cur)] \in Step
      BY <1>1, <3>1, <3>2, ElementOfSeq
    <3> QED BY <3>1, <3>3, TokenTypes
  <2>4. RouteOf(p) = p
    BY <2>3 DEF RouteOf
  <2> QED BY <1>3, <2>1, <2>2, <2>4, TerminatorsDiffer DEF p
<1>4. CASE tok = Wildcard
  <2>1. Len(rest) > 1
    <3>1. tok \notin {Trailing, End, Illegal}
      BY <1>4, TerminatorsDiffer DEF Illegal, Wildcard
    <3>2. \A n \in Nat \ {0} : n # 1 => n > 1
      OBVIOUS
    <3> QED BY <1>1, <3>1, <3>2
  <2>2. Len(rest) = 2
    <3>1. 2 \in 1..Len(rest)
      BY <1>1, <2>1
    <3>2. Tokenised(rest)
      BY DEF TypeOK
    <3> QED BY <1>4, <3>1, <3>2 DEF Tokenised
  <2>3. Len(p) > 1 /\ Len(p) - 1 = m
    BY <1>1, <2>2
  <2>4. p[Len(p) - 1] = Wildcard
    BY <1>1, <1>4, <2>3
  <2>5. RouteOf(p) = Prefix(p, m)
    BY <2>3, <2>4 DEF RouteOf, Prefix
  <2> QED BY <1>2, <1>4, <2>2, <2>5 DEF p
<1> QED BY <1>3, <1>4 DEF Terminator

(* The route of a pattern whose walk is on its way goes through the        *)
(* segment reached and the current token.                                  *)
LEMMA RoutePasses ==
    ASSUME TypeOK, Walking, NEW R, R = RouteOf(cur \o rest),
           tok \in Step \/ R = Append(cur, tok)
    PROVE  /\ Len(cur) + 1 \in 1..Len(R) /\ R[Len(cur) + 1] = tok
           /\ Prefix(R, Len(cur)) = cur
<1> DEFINE p == cur \o rest
           m == Len(cur) + 1
<1>1. /\ p \in Seq(Token) /\ cur \in Seq(Token) /\ Len(p) = Len(cur) + Len(rest)
      /\ Len(cur) \in Nat /\ Len(rest) \in Nat \ {0}
      /\ Prefix(p, Len(cur)) = cur /\ tok \in Token /\ tok = p[m]
      /\ tok \in {Trailing, End, Illegal} <=> Len(rest) = 1
  BY WalkPattern
<1>2. ASSUME NEW n \in m..Len(p)
      PROVE  /\ m \in 1..Len(Prefix(p, n)) /\ Prefix(p, n)[m] = tok
             /\ Prefix(Prefix(p, n), Len(cur)) = cur
  <2> HIDE DEF p
  <2>1. n \in 0..Len(p) /\ m \in 1..n /\ Len(cur) \in 0..n /\ Len(cur) \in 0..Len(p)
    BY <1>1
  <2>2. /\ Prefix(p, n) \in Seq(Token) /\ Len(Prefix(p, n)) = n
        /\ \A i \in 1..n : Prefix(p, n)[i] = p[i]
    BY <1>1, <2>1, PrefixProperties
  <2> DEFINE q == Prefix(p, n)
  <2> HIDE DEF q
  <2>3. /\ Prefix(q, Len(cur)) \in Seq(Token) /\ Len(Prefix(q, Len(cur))) = Len(cur)
        /\ \A i \in 1..Len(cur) : Prefix(q, Len(cur))[i] = q[i]
    BY <2>1, <2>2, PrefixProperties DEF q
  <2>4. \A i \in 1..Len(cur) : Prefix(p, Len(cur))[i] = p[i]
    BY <1>1, <2>1, PrefixProperties
  <2>5. \A i \in 1..Len(cur) : i \in 1..n
    BY <1>1, <2>1
  <2>6. Prefix(q, Len(cur)) = cur
    <3> DEFINE c == Prefix(q, Len(cur))
    <3>1. c \in Seq(Token) /\ Len(c) = Len(cur) /\ \A i \in 1..Len(c) : c[i] = cur[i]
      BY <1>1, <2>2, <2>3, <2>4, <2>5 DEF q
    <3> HIDE DEF c
    <3>2. c = cur
      BY <1>1, <3>1, SeqEqual
    <3> QED BY <3>2 DEF c
  <2> QED BY <1>1, <2>1, <2>2, <2>6 DEF q
<1> HIDE DEF p
<1>3. CASE R = Append(cur, tok)
  <2>1. Prefix(p, m) = Append(cur, tok)
    BY NextPrefix DEF p
  <2>2. m \in m..Len(p)
    BY <1>1
  <2> QED BY <1>2, <1>3, <2>1, <2>2
<1>4. CASE tok \in Step
  <2>1. Len(rest) # 1
    BY <1>1, <1>4, TokenTypes
  <2>2. Len(p) \in m..Len(p) /\ Len(p) - 1 \in m..Len(p)
    <3>1. \A a \in Nat, b \in Nat \ {0} :
             b # 1 => a + b \in (a + 1)..(a + b) /\ (a + b) - 1 \in (a + 1)..(a + b)
      OBVIOUS
    <3> QED BY <1>1, <2>1, <3>1
  <2>3. R = Prefix(p, Len(p)) \/ R = Prefix(p, Len(p) - 1)
    <3>1. R = p \/ R = SubSeq(p, 1, Len(p) - 1)
      BY DEF RouteOf, p
    <3> QED BY <1>1, <3>1, PrefixFull DEF Prefix
  <2> QED BY <1>2, <2>2, <2>3
<1> QED BY <1>3, <1>4

(* The walk has come to the end of a pattern without a fault.              *)
LEMMA AcceptVerdict ==
    ASSUME RInv, Walking, Conflict = "OK", tok \in Terminator
    PROVE  /\ Verdict(Held(tree), cur \o rest) = "OK"
           /\ RouteOf(cur \o rest) = Append(cur, tok)
<1> DEFINE p == cur \o rest
           m == Len(cur) + 1
<1>1. /\ TypeOK /\ p \in Seq(Token) /\ Len(p) = Len(cur) + Len(rest)
      /\ Len(cur) \in Nat /\ Len(rest) \in Nat \ {0}
      /\ tok \in Token /\ tok = p[m]
      /\ Len(rest) > 1 => rest[2] = p[Len(cur) + 2]
  BY WalkingSound, WalkPattern
<1>2. ASSUME tok = Wildcard PROVE rest[2] = End
  <2>1. tok.type = "WILDCARD"
    BY <1>2 DEF Wildcard
  <2>2. seg.spec = "SPEC_NONE"
    BY <2>1, AdmitsFacts DEF Admits, RInv, SInv
  <2>3. Conflict = WildcardConflict
    BY <2>1 DEF Conflict
  <2> QED BY <2>2, <2>3 DEF WildcardConflict
<1>3. /\ RouteOf(p) = Append(cur, tok)
      /\ tok # Wildcard => Len(rest) = 1
      /\ tok = Wildcard => Len(rest) = 2
  BY <1>1, <1>2, RouteEnds
<1>4. \A k \in 1..m : Fault(Held(tree), p, k) = "OK"
  <2>1. Fault(Held(tree), p, m) = "OK" /\ NoFaultSoFar
    BY WalkingSound
  <2>2. \A k \in 1..m : k \in 1..Len(cur) \/ k = m
    BY <1>1
  <2> QED BY <2>1, <2>2 DEF NoFaultSoFar
<1> HIDE DEF p
<1>5. CASE tok # Wildcard
  <2>1. Len(p) = m
    BY <1>1, <1>3, <1>5
  <2>2. Verdict(Held(tree), p) = "OK"
    BY <1>4, <2>1, NoFault
  <2> QED BY <1>3, <2>2 DEF p
<1>6. CASE tok = Wildcard
  <2>1. Len(p) = m + 1 /\ p[m + 1] = End /\ (m + 1) - 1 = m /\ m \in Nat /\ m > 0
    <3>1. Len(rest) = 2 /\ Len(p) = Len(cur) + 2
      BY <1>1, <1>3, <1>6
    <3>2. Len(cur) + 2 = m + 1 /\ (m + 1) - 1 = m /\ m \in Nat /\ m > 0 /\ Len(rest) > 1
      BY <1>1, <3>1
    <3>3. p[Len(cur) + 2] = End
      BY <1>1, <1>2, <1>6, <3>2
    <3> QED BY <3>1, <3>2, <3>3
  <2>2. Followers(Held(tree), p, (m + 1) - 1) = {}
    <3> SUFFICES ASSUME NEW r \in Held(tree), Len(r) > m, Prefix(r, m) = Prefix(p, m)
                 PROVE  FALSE
      BY <2>1 DEF Followers
    <3>1. r \in Seq(Token) /\ r[m] # Wildcard
      BY WalkingSound, <2>1, HeldTokens, WildcardIsLast
    <3>2. Len(r) \in Nat
      BY <3>1, LenProperties
    <3>3. m \in 0..Len(r) /\ m \in 0..Len(p) /\ m \in 1..m
      BY <2>1, <3>2
    <3>4. Prefix(r, m)[m] = r[m] /\ Prefix(p, m)[m] = p[m]
      BY <1>1, <3>1, <3>3, PrefixProperties
    <3> QED BY <1>1, <1>6, <3>1, <3>4
  <2>3. Fault(Held(tree), p, m + 1) = "OK"
    <3>1. /\ End \notin Literals /\ End \notin Params /\ End # Wildcard
      BY DEF End, Wildcard, Literals, Params, Lit, Par
    <3>2. Fault(Held(tree), p, m + 1)
             = IF p[m + 1] \in Followers(Held(tree), p, (m + 1) - 1) THEN "DUPLICATE_ROUTE" ELSE "OK"
      BY <2>1, <3>1 DEF Fault
    <3> QED BY <2>2, <3>2
  <2>4. \A k \in 1..Len(p) : k \in 1..m \/ k = m + 1
    BY <2>1
  <2>5. Verdict(Held(tree), p) = "OK"
    BY <1>4, <2>3, <2>4, NoFault
  <2> QED BY <1>3, <2>5 DEF p
<1> QED BY <1>5, <1>6

-----------------------------------------------------------------------------
(* What a step of the walk does to the routes: it refuses the pattern or   *)
(* goes on, and keeps them, or it enters the pattern's route.              *)

Keeps == /\ Held(tree') = Held(tree)
         /\ \A r \in Held(tree) : HeldContext(tree', r) = HeldContext(tree, r)

Refuses == /\ Walking /\ Keeps
           /\ \E e \in {Conflict, "OUT_OF_RANGE", "NO_MEMORY"} \ {"OK"} : Return(e)

GoesOn == Walking /\ Conflict = "OK" /\ tok \in Step /\ Descend /\ Keeps

Enters ==
    /\ Walking /\ Conflict = "OK" /\ tok \in Terminator /\ Return("OK")
    /\ Held(tree') = Held(tree) \cup {Append(cur, tok)}
    /\ HeldContext(tree', Append(cur, tok)) = route
    /\ Append(cur, tok) \notin Held(tree)
    /\ \A r \in Held(tree) : HeldContext(tree', r) = HeldContext(tree, r)

LEMMA MarkKeeps ==
    ASSUME IInv, IInv', NEW spec, tree' = [tree EXCEPT ![cur].spec = spec]
    PROVE  Keeps
<1>1. TreeType(tree) /\ TreeType(tree') /\ cur \in DOMAIN tree /\ tree[cur] \in Segment
  BY DEF IInv, TypeOK, Shape, TreeType
<1>2. DOMAIN tree' = DOMAIN tree
  BY <1>1 DEF TreeType
<1>3. ASSUME NEW k \in DOMAIN tree, NEW z \in Terminator
      PROVE  Slot(tree'[k], z) = Slot(tree[k], z)
  BY <1>1 DEF TreeType, Segment, Slot
<1> QED BY <1>1, <1>2, <1>3, HeldKept DEF Keeps

LEMMA SlotFilled ==
    ASSUME IInv, IInv', Walking, Conflict = "OK", tok \in Terminator, Return("OK"),
           Slot(seg, tok) = NULL, route \in Contexts, NEW s, tree' = [tree EXCEPT ![cur] = s],
           Slot(s, tok) = route, \A y \in Terminator \ {tok} : Slot(s, y) = Slot(seg, y)
    PROVE  Enters
<1>1. /\ TreeType(tree) /\ TreeType(tree') /\ cur \in DOMAIN tree /\ seg = tree[cur]
      /\ route # NULL
  BY TreeAssumption DEF IInv, TypeOK, Shape, seg
<1>2. DOMAIN tree' = DOMAIN tree /\ tree'[cur] = s /\ \A q \in DOMAIN tree \ {cur} : tree'[q] = tree[q]
  BY <1>1
<1>3. \A q \in DOMAIN tree, y \in Terminator :
         (q # cur \/ y # tok) => Slot(tree'[q], y) = Slot(tree[q], y)
  BY <1>1, <1>2
<1>4. Slot(tree[cur], tok) = NULL /\ Slot(tree'[cur], tok) = route
  BY <1>1, <1>2
<1>5. /\ Held(tree') = Held(tree) \cup {Append(cur, tok)} /\ Append(cur, tok) \notin Held(tree)
      /\ HeldContext(tree', Append(cur, tok)) = Slot(tree'[cur], tok)
      /\ \A r \in Held(tree) : HeldContext(tree', r) = HeldContext(tree, r)
  <2> DEFINE u == tree'
             z == tok
  <2>1. /\ TreeType(u) /\ DOMAIN u = DOMAIN tree /\ z \in Terminator
        /\ Slot(tree[cur], z) = NULL /\ Slot(u[cur], z) # NULL
        /\ \A q \in DOMAIN tree, y \in Terminator :
              (q # cur \/ y # z) => Slot(u[q], y) = Slot(tree[q], y)
    BY <1>1, <1>2, <1>3, <1>4
  <2> HIDE DEF u, z
  <2>2. /\ Held(u) = Held(tree) \cup {Append(cur, z)} /\ Append(cur, z) \notin Held(tree)
        /\ HeldContext(u, Append(cur, z)) = Slot(u[cur], z)
        /\ \A r \in Held(tree) : HeldContext(u, r) = HeldContext(tree, r)
    BY <1>1, <2>1, HeldAdded
  <2> QED BY <2>2 DEF u, z
<1> QED BY <1>4, <1>5 DEF Enters

LEMMA StepKinds ==
    ASSUME RInv, Walk
    PROVE  Refuses \/ GoesOn \/ Enters
<1>1. IInv /\ IInv' /\ Shape(tree) /\ TreeType(tree) /\ TreeType(tree') /\ cur \in DOMAIN tree
  BY NextIInv DEF RInv, SInv, IInv, TypeOK, Shape, Next
<1>2. UNCHANGED tree => Keeps
  BY DEF Keeps
<1>3. CASE Reject
  BY <1>2, <1>3 DEF Reject, Refuses
<1>4. CASE AddTerminal
  <2> DEFINE s == [seg EXCEPT !.terminal = route]
  <2>1. /\ Walking /\ Conflict = "OK" /\ tok.type = "END" /\ Return("OK")
        /\ tree' = [tree EXCEPT ![cur].terminal = route]
    BY <1>4 DEF AddTerminal, Admits, Terminate
  <2>2. seg \in Segment /\ route \in Contexts /\ tok \in Token
    BY <1>1, <1>4, AdmitsFacts DEF AddTerminal
  <2>3. seg.terminal = NULL
    BY <2>1 DEF Conflict
  <2>4. tok = End /\ tok \in Terminator
    BY <2>1, <2>2 DEF Token, Step, Literals, Params, Terminator, Lit, Par, Wildcard, Trailing,
                      End, Illegal
  <2>5. s.terminal = route /\ s.trailing = seg.trailing /\ s.wildcard = seg.wildcard
    BY <2>2 DEF Segment
  <2>6. tree' = [tree EXCEPT ![cur] = s]
    BY <2>1 DEF seg
  <2> HIDE DEF s
  <2>7. /\ Slot(seg, tok) = NULL /\ Slot(s, tok) = route
        /\ \A y \in Terminator \ {tok} : Slot(s, y) = Slot(seg, y)
    BY <2>3, <2>4, <2>5, TerminatorsDiffer DEF Slot, Terminator
  <2> QED BY <1>1, <2>1, <2>2, <2>4, <2>6, <2>7, SlotFilled
<1>5. CASE AddTrailing
  <2> DEFINE s == [seg EXCEPT !.trailing = route]
  <2>1. /\ Walking /\ Conflict = "OK" /\ tok.type = "TRAILING" /\ Return("OK")
        /\ tree' = [tree EXCEPT ![cur].trailing = route]
    BY <1>5 DEF AddTrailing, Admits, Terminate
  <2>2. seg \in Segment /\ route \in Contexts /\ tok \in Token
    BY <1>1, <1>5, AdmitsFacts DEF AddTrailing
  <2>3. seg.trailing = NULL
    BY <2>1 DEF Conflict
  <2>4. tok = Trailing /\ tok \in Terminator
    BY <2>1, <2>2 DEF Token, Step, Literals, Params, Terminator, Lit, Par, Wildcard, Trailing,
                      End, Illegal
  <2>5. s.terminal = seg.terminal /\ s.trailing = route /\ s.wildcard = seg.wildcard
    BY <2>2 DEF Segment
  <2>6. tree' = [tree EXCEPT ![cur] = s]
    BY <2>1 DEF seg
  <2> HIDE DEF s
  <2>7. /\ Slot(seg, tok) = NULL /\ Slot(s, tok) = route
        /\ \A y \in Terminator \ {tok} : Slot(s, y) = Slot(seg, y)
    BY <2>3, <2>4, <2>5, TerminatorsDiffer DEF Slot, Terminator
  <2> QED BY <1>1, <2>1, <2>2, <2>4, <2>6, <2>7, SlotFilled
<1>6. CASE AddWildcard
  <2> DEFINE s == [seg EXCEPT !.spec = "SPEC_WILDCARD", !.wildcard = route]
  <2>1. /\ Walking /\ Conflict = "OK" /\ tok.type = "WILDCARD" /\ Return("OK")
        /\ tree' = [tree EXCEPT ![cur].spec = "SPEC_WILDCARD", ![cur].wildcard = route]
    BY <1>6 DEF AddWildcard, Admits, Terminate
  <2>2. seg \in Segment /\ route \in Contexts /\ tok \in Token /\ seg.spec = "SPEC_NONE"
    BY <1>1, <1>6, AdmitsFacts DEF AddWildcard
  <2>3. seg.wildcard = NULL
    BY <1>1, <2>2 DEF Shape, Exclusive, seg
  <2>4. tok = Wildcard /\ tok \in Terminator
    BY <2>1, <2>2 DEF Token, Step, Literals, Params, Terminator, Lit, Par, Wildcard, Trailing,
                      End, Illegal
  <2>5. s.terminal = seg.terminal /\ s.trailing = seg.trailing /\ s.wildcard = route
    BY <2>2 DEF Segment
  <2>6. tree' = [tree EXCEPT ![cur] = s]
    BY <1>1, <2>1 DEF seg, TreeType
  <2> HIDE DEF s
  <2>7. /\ Slot(seg, tok) = NULL /\ Slot(s, tok) = route
        /\ \A y \in Terminator \ {tok} : Slot(s, y) = Slot(seg, y)
    BY <2>3, <2>4, <2>5, TerminatorsDiffer DEF Slot, Terminator
  <2> QED BY <1>1, <2>1, <2>2, <2>4, <2>6, <2>7, SlotFilled
<1>7. CASE FollowLiteral
  BY <1>1, <1>2, <1>7, AdmitsFacts DEF FollowLiteral, Admits, GoesOn
<1>8. CASE FollowParam
  BY <1>1, <1>2, <1>8, AdmitsFacts DEF FollowParam, Admits, GoesOn
<1>9. CASE AddLiteral
  <2>1. /\ Walking /\ Conflict = "OK" /\ tok \in Step /\ tok.str \in Names /\ tok = Lit(tok.str)
        /\ ~FindChild(tree, cur, tok.str) /\ Descend /\ tree' = AppendChild(tree, cur, tok.str)
    BY <1>1, <1>9, AdmitsFacts DEF AddLiteral, Admits
  <2>2. Grown(tree, tree', cur, Lit(tok.str))
    BY <1>1, <2>1, AppendChildGrown
  <2>3. Grown(tree, tree', cur, tok)
    BY <2>1, <2>2
  <2> QED BY <1>1, <2>1, <2>3, GrownKeeps DEF Keeps, GoesOn
<1>10. CASE AddParam
  <2>1. /\ Walking /\ Conflict = "OK" /\ tok \in Step /\ tok.str \in Names /\ tok = Par(tok.str)
        /\ tree[cur].spec = "SPEC_NONE" /\ tree[cur].children = <<>> /\ Descend
        /\ tree' = SetParam([tree EXCEPT ![cur].spec = "SPEC_PARAM"], cur, tok.str)
    BY <1>1, <1>10, AdmitsFacts DEF AddParam, Admits, seg
  <2>2. Grown(tree, tree', cur, Par(tok.str))
    BY <1>1, <2>1, SetParamGrown
  <2>3. Grown(tree, tree', cur, tok)
    BY <2>1, <2>2
  <2> QED BY <1>1, <2>1, <2>3, GrownKeeps DEF Keeps, GoesOn
<1>11. CASE LiteralOutOfRange
  BY <1>2, <1>11 DEF LiteralOutOfRange, Admits, Refuses
<1>12. CASE ParamOutOfRange
  <2>1. Walking /\ Return("OUT_OF_RANGE") /\ tree' = [tree EXCEPT ![cur].spec = "SPEC_PARAM"]
    BY <1>12 DEF ParamOutOfRange, Admits
  <2> QED BY <1>1, <2>1, MarkKeeps DEF Refuses
<1>13. CASE OutOfMemory
  <2>1. /\ Walking /\ Return("NO_MEMORY")
        /\ \/ UNCHANGED tree
           \/ tree' = [tree EXCEPT ![cur].spec = "SPEC_PARAM"]
           \/ tree' = [tree EXCEPT ![cur].spec = "SPEC_WILDCARD"]
    BY <1>13 DEF OutOfMemory, Admits
  <2>2. Keeps
    BY <1>1, <1>2, <2>1, MarkKeeps
  <2> QED BY <2>1, <2>2 DEF Refuses
<1> QED BY <1>3, <1>4, <1>5, <1>6, <1>7, <1>8, <1>9, <1>10, <1>11, <1>12, <1>13 DEF Walk

-----------------------------------------------------------------------------
LEMMA InitRInv == Init => RInv
BY InitSInv DEF Init, RInv, Walking

LEMMA GoesOnPattern ==
    ASSUME RInv, GoesOn
    PROVE  cur' \o rest' = cur \o rest /\ Len(cur') = Len(cur) + 1
<1>1. cur \in Seq(Token) /\ tok \in Token
  BY WalkingSound, WalkPattern DEF GoesOn
<1>2. cur' = Append(cur, tok) /\ rest' = Tail(rest)
  BY DEF GoesOn, Descend
<1>3. Append(cur, tok) \o Tail(rest) = cur \o rest
  BY WalkingSound, DescendPattern DEF GoesOn
<1> QED BY <1>1, <1>2, <1>3, AppendProperties

LEMMA NextRInv == RInv /\ [Next]_vars => RInv'
<1> SUFFICES ASSUME RInv, [Next]_vars PROVE RInv'
  OBVIOUS
<1>1. SInv'
  BY NextSInv DEF RInv
<1>2. ASSUME NEW p \in Patterns, NEW c \in Contexts, AddRoute(p, c) PROVE RInv'
  <2>1. cur' = Root
    BY <1>2 DEF AddRoute, Return
  <2>2. Len(cur') = 0
    BY <2>1, EmptySeq DEF Root
  <2> QED BY <1>1, <2>2 DEF RInv, NoFaultSoFar
<1>3. CASE Refuses \/ Enters
  <2>1. ~Walking'
    BY <1>3 DEF Refuses, Enters, Return, Walking
  <2> QED BY <1>1, <2>1 DEF RInv
<1>4. CASE GoesOn
  <2>1. /\ NoFaultSoFar /\ Len(cur) \in Nat
        /\ Fault(Held(tree), cur \o rest, Len(cur) + 1) = "OK"
    BY <1>4, WalkingSound, WalkPattern DEF GoesOn
  <2>2. cur' \o rest' = cur \o rest /\ Len(cur') = Len(cur) + 1 /\ Held(tree') = Held(tree)
    BY <1>4, GoesOnPattern DEF GoesOn, Keeps
  <2>3. \A k \in 1..(Len(cur) + 1) : k \in 1..Len(cur) \/ k = Len(cur) + 1
    BY <2>1
  <2>4. \A k \in 1..(Len(cur) + 1) : Fault(Held(tree), cur \o rest, k) = "OK"
    BY <2>1, <2>3 DEF NoFaultSoFar
  <2>5. NoFaultSoFar'
    BY <2>2, <2>4 DEF NoFaultSoFar
  <2> QED BY <1>1, <2>5 DEF RInv
<1>5. CASE UNCHANGED vars
  BY <1>1, <1>5 DEF vars, RInv, NoFaultSoFar, Walking
<1> QED BY <1>2, <1>3, <1>4, <1>5, StepKinds DEF Next

-----------------------------------------------------------------------------
(* The table that the tree stands for.                                     *)

LEMMA AcceptedKept ==
    ASSUME Keeps
    PROVE  Accepted' = Accepted
BY DEF Keeps, Accepted

LEMMA AcceptedAdded ==
    ASSUME Enters
    PROVE  LET r == Append(cur, tok)
           IN  Accepted' = [s \in DOMAIN Accepted \cup {r} |-> IF s = r THEN route ELSE Accepted[s]]
BY DEF Enters, Accepted

LEMMA EmptyConcat == <<>> \o <<>> = <<>>
<1>1. <<>> \in Seq(Token)
  BY EmptySeq
<1> QED BY <1>1, ConcatEmptySeq

(* Nothing is asked for between calls, and something in a walk.            *)
LEMMA AskedOfWalk ==
    ASSUME RInv
    PROVE  /\ Walking <=> cur \o rest # <<>>
           /\ ~Walking => route = NULL
           /\ DOMAIN Accepted = Held(tree)
<1>1. ASSUME Walking PROVE cur \o rest # <<>>
  <2>1. /\ cur \o rest \in Seq(Token) /\ Len(cur \o rest) = Len(cur) + Len(rest)
        /\ Len(cur) \in Nat /\ Len(rest) \in Nat \ {0}
    BY <1>1, WalkingSound, WalkPattern
  <2>2. Len(cur \o rest) # 0
    BY <2>1
  <2> QED BY <2>1, <2>2, EmptySeq
<1>2. ASSUME ~Walking PROVE cur \o rest = <<>> /\ route = NULL
  <2>1. cur = <<>> /\ rest = <<>> /\ route = NULL
    BY <1>2 DEF RInv, SInv, AtRest, Walking, Root
  <2> QED BY <2>1, EmptyConcat
<1> QED BY <1>1, <1>2 DEF Accepted

LEMMA InitRefines == Init => Table!TableInit
<1> SUFFICES ASSUME Init PROVE Table!TableInit
  OBVIOUS
<1>1. DOMAIN tree = {Root} /\ tree[Root] = NewSegment
  BY DEF Init
<1>2. Held(tree) = {}
  BY <1>1 DEF Held, WithTerminal, WithTrailing, WithWildcard, NewSegment
<1>3. Accepted = <<>>
  <2>1. Accepted \in [1..0 -> {}]
    BY <1>2 DEF Accepted
  <2>2. Accepted \in Seq({}) /\ Len(Accepted) = 0
    BY <2>1
  <2> QED BY <2>2, EmptySeq
<1>4. cur \o rest = <<>>
  BY EmptyConcat DEF Init, Root
<1> QED BY <1>3, <1>4 DEF Init, Table!TableInit

LEMMA AskRefines ==
    ASSUME RInv, NEW p \in Patterns, NEW c \in Contexts, AddRoute(p, c)
    PROVE  Table!TableNext
<1>1. ~Walking /\ cur \o rest = <<>> /\ Accepted' = Accepted
  BY AskedOfWalk DEF AddRoute, Accepted
<1>2. CASE corrupted
  <2>1. cur' = <<>> /\ rest' = <<>> /\ route' = NULL
    BY <1>2 DEF AddRoute, Return, Root
  <2>2. cur' \o rest' = <<>> /\ route' = NULL
    BY <2>1, EmptyConcat
  <2>3. err' = "BUILDER_CORRUPTED" /\ corrupted'
    BY <1>2 DEF AddRoute, Return
  <2>4. Table!AskCorrupted
    BY <1>1, <1>2, <2>2, <2>3 DEF Table!AskCorrupted, Table!Answer
  <2> QED BY <2>4 DEF Table!TableNext
<1>3. CASE ~corrupted
  <2>1. cur' = <<>> /\ rest' = p /\ route' = c /\ UNCHANGED <<corrupted, err>>
    BY <1>3 DEF AddRoute, Root
  <2>2. cur' \o rest' = p
    <3>1. p \in Seq(Token)
      BY BuilderAssumption DEF Tokenised
    <3> QED BY <2>1, <3>1, ConcatEmptySeq
  <2>3. Table!Ask(p, c)
    BY <1>1, <1>3, <2>1, <2>2 DEF Table!Ask
  <2> QED BY <2>3 DEF Table!TableNext
<1> QED BY <1>2, <1>3

LEMMA RefusesRefines ==
    ASSUME RInv, Refuses
    PROVE  Table!TableNext
<1>1. PICK e \in {Conflict, "OUT_OF_RANGE", "NO_MEMORY"} \ {"OK"} : Return(e)
  BY DEF Refuses
<1>2. Walking /\ Accepted' = Accepted
  BY AcceptedKept DEF Refuses
<1>3. cur \o rest # <<>> /\ DOMAIN Accepted = Held(tree)
  BY <1>2, AskedOfWalk
<1>4. Conflict # "OK" => Table!Verdict(DOMAIN Accepted, cur \o rest) = Conflict
  BY <1>2, <1>3, TableVerdict, RejectVerdict
<1>5. e \in ({Table!Verdict(DOMAIN Accepted, cur \o rest)} \ {"OK"}) \cup {"OUT_OF_RANGE", "NO_MEMORY"}
  BY <1>4
<1>6. cur' \o rest' = <<>>
  BY <1>1, EmptyConcat DEF Return, Root
<1>7. Table!Answer(e)
  BY <1>1, <1>6 DEF Return, Table!Answer
<1>8. Table!Refuse
  BY <1>2, <1>3, <1>5, <1>7 DEF Table!Refuse
<1> QED BY <1>8 DEF Table!TableNext

LEMMA EntersRefines ==
    ASSUME RInv, Enters
    PROVE  Table!TableNext
<1> DEFINE p == cur \o rest
<1>1. Walking /\ Conflict = "OK" /\ tok \in Terminator /\ Return("OK")
  BY DEF Enters
<1>2. p # <<>> /\ DOMAIN Accepted = Held(tree)
  BY <1>1, AskedOfWalk
<1>3. Table!Verdict(DOMAIN Accepted, p) = "OK" /\ Table!RouteOf(p) = Append(cur, tok)
  BY <1>1, <1>2, TableVerdict, TableRouteOf, AcceptVerdict
<1>4. Accepted' = [r \in DOMAIN Accepted \cup {Table!RouteOf(p)} |->
                      IF r = Table!RouteOf(p) THEN route ELSE Accepted[r]]
  BY <1>3, AcceptedAdded
<1>5. cur' \o rest' = <<>>
  BY <1>1, EmptyConcat DEF Return, Root
<1>6. Table!Answer("OK")
  BY <1>1, <1>5 DEF Return, Table!Answer
<1>7. Table!Accept
  BY <1>2, <1>3, <1>4, <1>6 DEF Table!Accept
<1> QED BY <1>7 DEF Table!TableNext

(* Every step of the builder is a step of the table, or none.              *)
LEMMA StepRefines == RInv /\ [Next]_vars => [Table!TableNext]_(Table!tableVars)
<1> SUFFICES ASSUME RInv, [Next]_vars PROVE [Table!TableNext]_(Table!tableVars)
  OBVIOUS
<1>1. CASE \E p \in Patterns, c \in Contexts : AddRoute(p, c)
  BY <1>1, AskRefines
<1>2. CASE Refuses
  BY <1>2, RefusesRefines
<1>3. CASE Enters
  BY <1>3, EntersRefines
<1>4. CASE GoesOn
  <2>1. cur' \o rest' = cur \o rest
    BY <1>4, GoesOnPattern
  <2>2. Accepted' = Accepted /\ UNCHANGED <<corrupted, err, route>>
    BY <1>4, AcceptedKept DEF GoesOn, Descend
  <2>3. UNCHANGED Table!tableVars
    BY <2>1, <2>2 DEF Table!tableVars
  <2> QED BY <2>3
<1>5. CASE UNCHANGED vars
  <2>1. UNCHANGED Table!tableVars
    BY <1>5 DEF vars, Table!tableVars, Accepted
  <2> QED BY <2>1
<1> QED BY <1>1, <1>2, <1>3, <1>4, <1>5, StepKinds DEF Next

(* A refusal for a conflict has a reason in the pattern or in the routes.  *)
LEMMA ConflictJustified ==
    ASSUME RInv, Walking, Conflict # "OK", WellFormed(cur \o rest)
    PROVE  \E r \in Held(tree) : ~Compatible(RouteOf(cur \o rest), r)
<1> DEFINE p == cur \o rest
           m == Len(cur) + 1
           R == RouteOf(p)
           F == Followers(Held(tree), p, Len(cur))
<1>1. /\ TypeOK /\ TreeType(tree) /\ cur \in Seq(Token) /\ cur \in Seq(Step)
      /\ Len(p) = Len(cur) + Len(rest)
      /\ Len(cur) \in Nat /\ Len(rest) \in Nat \ {0} /\ m - 1 = Len(cur)
      /\ tok \in Token /\ tok = p[m] /\ Prefix(p, Len(cur)) = cur
      /\ Len(rest) > 1 => rest[2] = p[Len(cur) + 2]
      /\ tok \in {Trailing, End, Illegal} <=> Len(rest) = 1
  BY WalkingSound, WalkPattern, SegmentNames
<1>2. tok # Illegal /\ (tok = Wildcard => p[m + 1] = End)
  <2>1. m \in 1..Len(p)
    BY <1>1
  <2> QED BY <1>1, <2>1 DEF WellFormed
<1>3. ASSUME tok \in Terminator PROVE R = Append(cur, tok)
  <2>1. ASSUME tok = Wildcard PROVE rest[2] = End
    <3>1. Len(rest) # 1
      BY <1>1, <2>1, TerminatorsDiffer DEF Illegal, Wildcard
    <3>2. Len(rest) > 1 /\ Len(cur) + 2 = m + 1
      <4>1. \A a \in Nat, b \in Nat \ {0} : b # 1 => b > 1 /\ a + 2 = (a + 1) + 1
        OBVIOUS
      <4> QED BY <1>1, <3>1, <4>1
    <3> QED BY <1>1, <1>2, <2>1, <3>2
  <2> QED BY <1>1, <1>3, <2>1, RouteEnds
<1>4. m \in 1..Len(R) /\ R[m] = tok /\ Prefix(R, Len(cur)) = cur
  <2>1. tok \in Step \/ R = Append(cur, tok)
    BY <1>1, <1>2, <1>3 DEF Token
  <2> QED BY <1>1, <2>1, RoutePasses
<1>5. Fault(Held(tree), p, m) # "OK"
  BY WalkingSound
<1> HIDE DEF p, R
<1>6. PICK x \in F : Clash(tok, x) \/ (tok \in Terminator /\ x = tok)
  <2>1. CASE tok \in Literals
    <3>1. tok \notin Params /\ tok # Wildcard /\ tok \notin {Trailing, End}
      BY <2>1 DEF Wildcard, Trailing, End, Literals, Lit, Params, Par
    <3>2. F \cap Params # {}
      BY <1>1, <1>5, <2>1, <3>1 DEF Fault
    <3> QED BY <2>1, <3>1, <3>2 DEF Clash
  <2>2. CASE tok \in Params
    <3>1. tok \notin Literals /\ tok # Wildcard /\ tok \notin {Trailing, End}
      BY <2>2 DEF Wildcard, Trailing, End, Literals, Lit, Params, Par
    <3>2. Wildcard \in F \/ F \cap Literals # {} \/ ~(F \cap Params \subseteq {tok})
      BY <1>1, <1>5, <2>2, <3>1 DEF Fault
    <3> QED BY <2>2, <3>1, <3>2 DEF Clash
  <2>3. CASE tok = Wildcard
    <3>1. tok \notin Literals /\ tok \notin Params /\ tok \notin {Trailing, End}
      BY <2>3 DEF Wildcard, Trailing, End, Literals, Lit, Params, Par
    <3>2. Wildcard \in F \/ F \cap Params # {}
      BY <1>1, <1>2, <1>5, <2>3, <3>1 DEF Fault
    <3> QED BY <2>3, <3>1, <3>2 DEF Clash, Terminator
  <2>4. CASE tok \in {Trailing, End}
    <3>1. tok \notin Literals /\ tok \notin Params /\ tok # Wildcard
      BY <2>4 DEF Wildcard, Trailing, End, Literals, Lit, Params, Par
    <3>2. tok \in F
      BY <1>1, <1>5, <2>4, <3>1 DEF Fault
    <3> QED BY <2>4, <3>2 DEF Terminator
  <2> QED BY <1>1, <1>2, <2>1, <2>2, <2>3, <2>4 DEF Token, Step, Terminator
<1>7. PICK r \in Held(tree) : Len(r) > Len(cur) /\ Prefix(r, Len(cur)) = Prefix(p, Len(cur)) /\ r[m] = x
  BY DEF Followers
<1>8. ~Compatible(R, r)
  <2>1. CASE Clash(tok, x)
    <3>1. r \in Seq(Token) /\ Len(r) \in Nat
      BY <1>1, HeldTokens, LenProperties
    <3>2. m <= Len(r) /\ Prefix(R, m - 1) = Prefix(r, m - 1) /\ Clash(R[m], r[m])
      BY <1>1, <1>4, <1>7, <2>1, <3>1
    <3> QED BY <1>4, <3>2 DEF Compatible
  <2>2. CASE tok \in Terminator /\ x = tok
    <3>1. PICK q \in DOMAIN tree, z \in Terminator : r = Append(q, z)
      BY HeldSlots
    <3>2. q \in Seq(Token) /\ q \in Seq(Step) /\ z \in Token /\ Len(q) \in Nat
      BY <1>1, SegmentNames DEF Token
    <3>3. /\ Len(r) = Len(q) + 1 /\ r[Len(q) + 1] = z
          /\ \A i \in 1..Len(q) : r[i] = q[i]
      BY <3>1, <3>2, AppendProperties
    <3>4. m = Len(q) + 1
      <4> SUFFICES ASSUME m # Len(q) + 1 PROVE FALSE
        OBVIOUS
      <4>1. m \in 1..Len(q)
        BY <1>1, <1>7, <3>2, <3>3
      <4>2. r[m] = q[m] /\ q[m] \in Step
        BY <3>2, <3>3, <4>1, ElementOfSeq
      <4> QED BY <1>7, <2>2, <4>2, TokenTypes DEF Terminator
    <3>5. z = tok /\ Len(q) = Len(cur)
      BY <1>1, <1>7, <2>2, <3>2, <3>3, <3>4
    <3>6. q = cur
      <4>1. Prefix(r, Len(cur)) = Prefix(q, Len(cur))
        BY <3>1, <3>2, <3>5, PrefixAppend
      <4> QED BY <1>1, <1>7, <3>2, <3>5, <4>1, PrefixFull
    <3> QED BY <1>3, <2>2, <3>1, <3>5, <3>6 DEF Compatible
  <2> QED BY <1>6, <2>1, <2>2
<1> QED BY <1>8 DEF R, p

LEMMA StepJustified ==
    ASSUME RInv, [Next]_vars, Walking, err' # "OK", rest' = <<>>
    PROVE  LET p == cur \o rest
           IN  \/ err' \in {"OUT_OF_RANGE", "NO_MEMORY"}
               \/ ~WellFormed(p)
               \/ \E r \in Held(tree) : ~Compatible(RouteOf(p), r)
<1>1. Walk
  BY DEF Next, vars, AddRoute, Walking
<1>2. ~Enters
  BY DEF Enters, Return
<1>3. ~GoesOn
  <2> SUFFICES ASSUME GoesOn PROVE FALSE
    OBVIOUS
  <2>1. rest \in Seq(Token) /\ Tokenised(rest) /\ Head(rest) \in Step
    BY WalkingSound DEF TypeOK, GoesOn, tok
  <2> QED BY <2>1, TailTokenised DEF GoesOn, Descend
<1>4. err' \in {Conflict, "OUT_OF_RANGE", "NO_MEMORY"}
  BY <1>1, <1>2, <1>3, StepKinds DEF Refuses, Return
<1> QED BY <1>4, ConflictJustified

-----------------------------------------------------------------------------
(* While it walks, builder_add_route has passed only tokens that agree     *)
(* with every route of the tree: the first fault from the left is the one  *)
(* it meets.                                                               *)
THEOREM FaultsInOrder == Spec => []RInv
BY InitRInv, NextRInv, PTL DEF Spec

(* For all patterns, contexts and limits, a builder behaves as a table of  *)
(* routes: adding a pattern enters its whole route or nothing, and the     *)
(* answer is the first fault that the pattern shows against the routes     *)
(* entered before, or that there was no room.                              *)
THEOREM Refinement == Spec => ImplementsRouteTable
BY InitRefines, StepRefines, FaultsInOrder, PTL DEF Spec, ImplementsRouteTable, Table!TableSpec

(* A pattern that builder_add_route refuses for a conflict is ill-formed   *)
(* or incompatible with a route of the tree: no refusal is spurious.       *)
THEOREM Justified == Spec => RefusalsJustified
BY StepJustified, FaultsInOrder, PTL DEF Spec, RefusalsJustified

(* Compatibility does not depend on which route comes first, so a set of   *)
(* routes that builder_add_route accepts in one order it refuses in no     *)
(* other for a conflict.                                                   *)
THEOREM OrderIrrelevant ==
    ASSUME NEW r \in Seq(Token), NEW s \in Seq(Token)
    PROVE  Compatible(r, s) <=> Compatible(s, r)
<1>1. Len(r) \in Nat /\ Len(s) \in Nat
  BY LenProperties
<1>2. \A k \in Nat : k \in 1..Len(r) /\ k <= Len(s) <=> k \in 1..Len(s) /\ k <= Len(r)
  BY <1>1
<1>3. \A a, b : Clash(a, b) <=> Clash(b, a)
  BY DEF Clash
<1> QED BY <1>1, <1>2, <1>3 DEF Compatible

-----------------------------------------------------------------------------
(* Part 4.                                                                 *)
-----------------------------------------------------------------------------
(* How often the builder and the routers hold a context c: of a builder b  *)
(* with tree t, and of routers rt with terminals kp.                       *)
KeptCount(f, c) == Cardinality({p \in DOMAIN f : f[p] = c})
BuilderShare(b, t, c) == IF b = "open" THEN HolderCount(c, HeldCount(t, c)) ELSE 0
Share(state, f, c) == IF state = "live" THEN HolderCount(c, KeptCount(f, c)) ELSE 0
Shares(rt, kp, c) == [r \in Routers |-> Share(rt[r], kp[r], c)]
RouterShare(rt, kp, c) == SumFunctionOnSet(Shares(rt, kp, c), Routers)

States == {"absent", "live", "freed"}
Terminals(f) == f \in [DOMAIN f -> Contexts] /\ IsFiniteSet(DOMAIN f)
RoutersOK(rt, kp) ==
    /\ rt \in [Routers -> States]
    /\ kp = [r \in Routers |-> kp[r]] /\ \A r \in Routers : Terminals(kp[r])

LEMMA PartIsCounted ==
    ASSUME NEW S, IsFiniteSet(S), NEW T, T \subseteq S
    PROVE  IsFiniteSet(T) /\ Cardinality(T) \in Nat
BY FS_Subset, FS_CardinalityType

LEMMA ShareType ==
    ASSUME NEW state, NEW f, IsFiniteSet(DOMAIN f), NEW c
    PROVE  Share(state, f, c) \in Nat
<1>1. KeptCount(f, c) \in Nat
  BY PartIsCounted DEF KeptCount
<1> QED BY <1>1 DEF Share, HolderCount

LEMMA HeldShareType ==
    ASSUME NEW t, IsFiniteSet(Held(t)), NEW b, NEW c
    PROVE  HeldCount(t, c) \in Nat /\ BuilderShare(b, t, c) \in Nat
<1>1. HeldCount(t, c) \in Nat
  BY PartIsCounted DEF HeldCount
<1> QED BY <1>1 DEF BuilderShare, HolderCount

LEMMA RouterShareType ==
    ASSUME NEW rt, NEW kp, RoutersOK(rt, kp), NEW c
    PROVE  Shares(rt, kp, c) \in [Routers -> Nat] /\ RouterShare(rt, kp, c) \in Nat
<1>1. \A r \in Routers : Share(rt[r], kp[r], c) \in Nat
  BY ShareType DEF RoutersOK, Terminals
<1>2. Shares(rt, kp, c) \in [Routers -> Nat]
  BY <1>1 DEF Shares
<1> QED BY <1>2, SumType, LifetimeAssumption DEF RouterShare

(* A change of one router changes the sum by the change of its share.      *)
LEMMA RouterShareChange ==
    ASSUME NEW rt, NEW kp, RoutersOK(rt, kp), NEW c, NEW r \in Routers,
           NEW state \in States, NEW f, Terminals(f)
    PROVE  /\ RoutersOK([rt EXCEPT ![r] = state], [kp EXCEPT ![r] = f])
           /\ RouterShare([rt EXCEPT ![r] = state], [kp EXCEPT ![r] = f], c)
                 = RouterShare(rt, kp, c) + (Share(state, f, c) - Share(rt[r], kp[r], c))
<1> DEFINE rt2 == [rt EXCEPT ![r] = state]
           kp2 == [kp EXCEPT ![r] = f]
           s == Shares(rt, kp, c)
           v == Share(state, f, c)
<1>1. /\ \A q \in Routers : rt2[q] = IF q = r THEN state ELSE rt[q]
      /\ \A q \in Routers : kp2[q] = IF q = r THEN f ELSE kp[q]
      /\ rt2 \in [Routers -> States] /\ kp2 = [q \in Routers |-> kp2[q]]
  BY DEF RoutersOK
<1>2. s \in [Routers -> Nat] /\ s \in [Routers -> Int] /\ v \in Int /\ s[r] = Share(rt[r], kp[r], c)
  BY RouterShareType, ShareType DEF Terminals, Shares
<1> HIDE DEF rt2, kp2
<1>3. RoutersOK(rt2, kp2)
  BY <1>1 DEF RoutersOK
<1>4. Shares(rt2, kp2, c) = [s EXCEPT ![r] = v]
  BY <1>1 DEF Shares
<1> HIDE DEF s, v
<1>5. SumFunctionOnSet([s EXCEPT ![r] = v], Routers) = SumFunctionOnSet(s, Routers) + (v - s[r])
  BY <1>2, SumExcept, LifetimeAssumption
<1>6. RouterShare(rt2, kp2, c) = RouterShare(rt, kp, c) + (Share(state, f, c) - Share(rt[r], kp[r], c))
  BY <1>2, <1>4, <1>5 DEF RouterShare, s, v
<1> QED BY <1>3, <1>6 DEF rt2, kp2

(* A live router is among those that hold its contexts.                    *)
LEMMA ShareOfSum ==
    ASSUME NEW rt, NEW kp, RoutersOK(rt, kp), NEW c, NEW r \in Routers
    PROVE  Share(rt[r], kp[r], c) <= RouterShare(rt, kp, c)
<1>1. Shares(rt, kp, c) \in [Routers -> Nat] /\ Shares(rt, kp, c)[r] = Share(rt[r], kp[r], c)
  BY RouterShareType DEF Shares
<1> QED BY <1>1, SumBounds, LifetimeAssumption DEF RouterShare

(* A route that is entered is counted once more, for its context.          *)
LEMMA HeldCountAdded ==
    ASSUME NEW t, NEW u, NEW x, IsFiniteSet(Held(t)), x \notin Held(t), Held(u) = Held(t) \cup {x},
           \A r \in Held(t) : HeldContext(u, r) = HeldContext(t, r), NEW c
    PROVE  /\ IsFiniteSet(Held(u))
           /\ HeldCount(u, c) = HeldCount(t, c) + (IF c = HeldContext(u, x) THEN 1 ELSE 0)
<1> DEFINE T == {r \in Held(t) : HeldContext(t, r) = c}
           U == {r \in Held(u) : HeldContext(u, r) = c}
<1>1. IsFiniteSet(T) /\ Cardinality(T) \in Nat /\ x \notin T
  BY PartIsCounted
<1>2. U = IF c = HeldContext(u, x) THEN T \cup {x} ELSE T
  OBVIOUS
<1> HIDE DEF T, U
<1>3. Cardinality(T \cup {x}) = Cardinality(T) + 1
  BY <1>1, FS_AddElement
<1>4. Cardinality(U) = Cardinality(T) + (IF c = HeldContext(u, x) THEN 1 ELSE 0)
  BY <1>1, <1>2, <1>3
<1>5. IsFiniteSet(Held(u))
  BY FS_AddElement
<1> QED BY <1>4, <1>5 DEF HeldCount, T, U

LEMMA HeldCountKept ==
    ASSUME NEW t, NEW u, Held(u) = Held(t), \A r \in Held(t) : HeldContext(u, r) = HeldContext(t, r), NEW c
    PROVE  HeldCount(u, c) = HeldCount(t, c)
<1>1. {r \in Held(u) : HeldContext(u, r) = c} = {r \in Held(t) : HeldContext(t, r) = c}
  OBVIOUS
<1> QED BY <1>1 DEF HeldCount

(* The terminals that a compilation copies are those of the tree.          *)
LEMMA AcceptedTerminals ==
    ASSUME IInv, IsFiniteSet(Held(tree))
    PROVE  Terminals(Accepted) /\ \A c : KeptCount(Accepted, c) = HeldCount(tree, c)
<1>1. TreeType(tree)
  BY DEF IInv, Shape
<1>2. ASSUME NEW r \in Held(tree) PROVE HeldContext(tree, r) \in Contexts
  <2>1. PICK k \in DOMAIN tree, z \in Terminator : r = Append(k, z) /\ Slot(tree[k], z) # NULL
    BY HeldSlots
  <2>2. HeldContext(tree, r) = Slot(tree[k], z)
    BY <1>1, <2>1, ContextOfSlot
  <2>3. tree[k] \in Segment
    BY <1>1, <2>1 DEF TreeType
  <2> QED BY <2>1, <2>2, <2>3 DEF Slot, Segment
<1>3. DOMAIN Accepted = Held(tree) /\ \A r \in Held(tree) : Accepted[r] = HeldContext(tree, r)
  BY DEF Accepted
<1>4. Accepted \in [Held(tree) -> Contexts]
  BY <1>2 DEF Accepted
<1>5. \A c : {p \in DOMAIN Accepted : Accepted[p] = c} = {r \in Held(tree) : HeldContext(tree, r) = c}
  BY <1>3
<1> QED BY <1>3, <1>4, <1>5 DEF Terminals, KeptCount, HeldCount

-----------------------------------------------------------------------------
(* The invariant.  A builder that does not exist yet has no routes, only   *)
(* an open one is added to or consumed, and while the process runs every   *)
(* count is what the builder and the routers hold.                         *)
Owed(b, t, rt, kp, c) == IF RefCounting THEN BuilderShare(b, t, c) + RouterShare(rt, kp, c) ELSE 0

Phases ==
    /\ builder \in States \cup {"open"} /\ builder # "live" /\ consuming \in BOOLEAN
    /\ builder = "absent" => Held(tree) = {} /\ ~corrupted
    /\ Walking => builder = "open"
    /\ consuming => builder = "open" /\ ~Walking

Balanced == \A c \in Contexts : refs[c] = Owed(builder, tree, router, kept, c)

LInv ==
    /\ RInv /\ IsFiniteSet(Held(tree)) /\ RoutersOK(router, kept) /\ Phases
    /\ fault \in Faults
    /\ Running => Balanced

-----------------------------------------------------------------------------
LEMMA ContextsCount ==
    ASSUME IInv, NEW c \in Contexts
    PROVE  /\ \A d \in Contexts : Retained(c)[d] = refs[d] + (IF RefCounting /\ d = c THEN 1 ELSE 0)
           /\ Retained(c) \in [Contexts -> Nat] /\ \A d \in Contexts : refs[d] \in Nat
<1>1. refs \in [Contexts -> Nat]
  BY DEF IInv, TypeOK
<1>2. \A n \in Nat : n + 0 = n /\ n + 1 \in Nat
  OBVIOUS
<1>3. CASE RefCounting
  BY <1>1, <1>2, <1>3 DEF Retained
<1>4. CASE ~RefCounting
  BY <1>1, <1>2, <1>4 DEF Retained
<1> QED BY <1>3, <1>4

(* What a step of the walk does to the counts.                             *)
LEMMA EntersRetains ==
    ASSUME Walk, Enters
    PROVE  refs' = Retained(route)
<1>1. tok.type \notin {"LITERAL", "PARAM"}
  BY DEF Enters, Terminator, End, Trailing, Wildcard
<1>2. err' = "OK" /\ Conflict = "OK"
  BY DEF Enters, Return
<1>3. ~Reject /\ ~FollowLiteral /\ ~AddLiteral /\ ~FollowParam /\ ~AddParam
  BY <1>1, <1>2 DEF Reject, FollowLiteral, AddLiteral, FollowParam, AddParam, Admits
<1>4. ~LiteralOutOfRange /\ ~ParamOutOfRange /\ ~OutOfMemory
  BY <1>2 DEF LiteralOutOfRange, ParamOutOfRange, OutOfMemory, Return
<1>5. AddTerminal \/ AddTrailing \/ AddWildcard
  BY <1>3, <1>4 DEF Walk
<1> QED BY <1>5 DEF AddTerminal, AddTrailing, AddWildcard, Terminate

LEMMA OthersRetainNothing ==
    ASSUME Walk, Refuses \/ GoesOn
    PROVE  UNCHANGED refs
<1>1. ~AddTerminal /\ ~AddTrailing /\ ~AddWildcard
  <2>1. CASE Refuses
    <3>1. err' # "OK"
      BY <2>1 DEF Refuses, Return
    <3> QED BY <3>1 DEF AddTerminal, AddTrailing, AddWildcard, Terminate, Return
  <2>2. CASE GoesOn
    <3>1. tok.type \notin {"END", "TRAILING", "WILDCARD"}
      BY <2>2 DEF GoesOn, Step, Literals, Params, Lit, Par
    <3> QED BY <3>1 DEF AddTerminal, AddTrailing, AddWildcard, Admits
  <2> QED BY <2>1, <2>2
<1> QED BY <1>1 DEF Walk, Reject, FollowLiteral, AddLiteral, FollowParam, AddParam,
                    LiteralOutOfRange, ParamOutOfRange, OutOfMemory

LEMMA TreeKept ==
    ASSUME RInv, UNCHANGED treeVars, refs' \in [Contexts -> Nat]
    PROVE  RInv'
BY DEF treeVars, RInv, SInv, IInv, TypeOK, AtRest, Walking, NoFaultSoFar

(* A step of the library that leaves the routers alone.                    *)
LEMMA OwedByBuilder ==
    ASSUME RoutersOK(router, kept), NEW c, NEW b, NEW t, NEW b2, NEW t2, NEW d \in Int,
           IsFiniteSet(Held(t)), IsFiniteSet(Held(t2)),
           BuilderShare(b2, t2, c) = BuilderShare(b, t, c) + d
    PROVE  Owed(b2, t2, router, kept, c) = Owed(b, t, router, kept, c) + (IF RefCounting THEN d ELSE 0)
<1>1. RouterShare(router, kept, c) \in Nat /\ BuilderShare(b, t, c) \in Nat
  BY RouterShareType, HeldShareType
<1>2. \A x, y \in Nat : (x + d) + y = (x + y) + d
  OBVIOUS
<1> QED BY <1>1, <1>2 DEF Owed

-----------------------------------------------------------------------------
LEMMA BuildStep ==
    ASSUME LInv, Build
    PROVE  LInv'
<1>1. /\ Running /\ builder = "open" /\ ~consuming /\ Next
      /\ UNCHANGED <<builder, router, kept, consuming, fault>>
  BY DEF Build, lifeVars
<1>2. RInv /\ RInv' /\ IInv /\ SInv' /\ Balanced /\ RoutersOK(router, kept) /\ IsFiniteSet(Held(tree))
  BY <1>1, NextRInv DEF LInv, RInv, SInv
<1>3. Phases' /\ RoutersOK(router, kept)' /\ (fault \in Faults)'
  BY <1>1, <1>2 DEF LInv, Phases, SInv, Walking
<1>4. ASSUME Keeps, UNCHANGED refs PROVE IsFiniteSet(Held(tree')) /\ Balanced'
  <2>1. Held(tree') = Held(tree) /\ \A r \in Held(tree) : HeldContext(tree', r) = HeldContext(tree, r)
    BY <1>4 DEF Keeps
  <2>2. \A c : HeldCount(tree', c) = HeldCount(tree, c)
    BY <2>1, HeldCountKept
  <2> QED BY <1>1, <1>2, <1>4, <2>1, <2>2 DEF Balanced, Owed, BuilderShare
<1>5. CASE \E p \in Patterns, c \in Contexts : AddRoute(p, c)
  <2>1. Keeps /\ UNCHANGED refs
    BY <1>5 DEF AddRoute, Keeps
  <2> QED BY <1>1, <1>2, <1>3, <1>4, <2>1 DEF LInv
<1>6. CASE Walk /\ (Refuses \/ GoesOn)
  <2>1. Keeps /\ UNCHANGED refs
    BY <1>6, OthersRetainNothing DEF Refuses, GoesOn
  <2> QED BY <1>1, <1>2, <1>3, <1>4, <2>1 DEF LInv
<1>7. CASE Walk /\ Enters
  <2> DEFINE x == Append(cur, tok)
             t == tree'
  <2>1. /\ x \notin Held(tree) /\ Held(t) = Held(tree) \cup {x} /\ HeldContext(t, x) = route
        /\ \A r \in Held(tree) : HeldContext(t, r) = HeldContext(tree, r)
    BY <1>7 DEF Enters
  <2>2. route \in Contexts
    BY <1>2, <1>7 DEF Enters, IInv, TypeOK
  <2>3. refs' = Retained(route)
    BY <1>7, EntersRetains
  <2>4. IsFiniteSet(Held(t))
    BY <1>2, <2>1, FS_AddElement
  <2>5. ASSUME NEW c \in Contexts PROVE refs'[c] = Owed(builder, t, router, kept, c)
    <3> DEFINE d == IF c = route THEN 1 ELSE 0
    <3> HIDE DEF t, x
    <3>1. HeldCount(t, c) = HeldCount(tree, c) + d
      BY <1>2, <2>1, HeldCountAdded
    <3>2. BuilderShare("open", t, c) = BuilderShare("open", tree, c) + d
      <4>1. HeldCount(tree, c) \in Nat /\ d \in Nat
        BY <1>2, HeldShareType
      <4>2. \A m, n, k \in Nat : (m + n) + k = (m + k) + n
        OBVIOUS
      <4> HIDE DEF d
      <4> QED BY <3>1, <4>1, <4>2 DEF BuilderShare, HolderCount
    <3>3. d \in Int
      OBVIOUS
    <3>4. Owed("open", t, router, kept, c) = Owed("open", tree, router, kept, c) + (IF RefCounting THEN d ELSE 0)
      BY <1>2, <2>4, <3>2, <3>3, OwedByBuilder
    <3>5. refs[c] = Owed("open", tree, router, kept, c)
      BY <1>1, <1>2 DEF Balanced
    <3>6. Retained(route)[c] = refs[c] + (IF RefCounting /\ c = route THEN 1 ELSE 0)
      BY <1>2, <2>2, ContextsCount
    <3> QED BY <1>1, <2>3, <3>4, <3>5, <3>6
  <2>6. Balanced'
    BY <1>1, <2>5 DEF Balanced
  <2> QED BY <1>1, <1>2, <1>3, <2>4, <2>6 DEF LInv
<1> QED BY <1>1, <1>2, <1>5, <1>6, <1>7, StepKinds DEF Next

-----------------------------------------------------------------------------
LEMMA CreateStep ==
    ASSUME LInv, CreateBuilder
    PROVE  LInv'
<1>1. /\ Running /\ builder = "absent" /\ builder' = "open" /\ refs' = Retained(Fallback)
      /\ UNCHANGED <<treeVars, router, kept, consuming, fault>>
  BY DEF CreateBuilder
<1>2. /\ RInv /\ IInv /\ Balanced /\ RoutersOK(router, kept) /\ IsFiniteSet(Held(tree)) /\ Held(tree) = {}
  BY <1>1 DEF LInv, RInv, SInv, Phases
<1>3. refs' \in [Contexts -> Nat]
  BY <1>1, <1>2, ContextsCount, LifetimeAssumption
<1>4. RInv'
  BY <1>1, <1>2, <1>3, TreeKept
<1>5. Phases'
  BY <1>1 DEF LInv, Phases, treeVars, Walking
<1>6. ASSUME NEW c \in Contexts PROVE refs'[c] = Owed("open", tree, router, kept, c)
  <2>1. HeldCount(tree, c) = 0
    <3>1. {r \in Held(tree) : HeldContext(tree, r) = c} = {}
      BY <1>2
    <3> QED BY <3>1, FS_EmptySet DEF HeldCount
  <2>2. BuilderShare("open", tree, c) = BuilderShare("absent", tree, c) + (IF c = Fallback THEN 1 ELSE 0)
    BY <2>1 DEF BuilderShare, HolderCount
  <2>3. Owed("open", tree, router, kept, c) = Owed("absent", tree, router, kept, c)
                 + (IF RefCounting THEN IF c = Fallback THEN 1 ELSE 0 ELSE 0)
    BY <1>2, <2>2, OwedByBuilder
  <2>4. refs[c] = Owed("absent", tree, router, kept, c)
    BY <1>1, <1>2 DEF Balanced
  <2>5. Retained(Fallback)[c] = refs[c] + (IF RefCounting /\ c = Fallback THEN 1 ELSE 0)
    BY <1>2, ContextsCount, LifetimeAssumption
  <2> QED BY <1>1, <2>3, <2>4, <2>5
<1>7. Balanced'
  BY <1>1, <1>6 DEF Balanced, treeVars
<1> QED BY <1>1, <1>2, <1>4, <1>5, <1>7 DEF LInv, treeVars

LEMMA CreateFailsStep ==
    ASSUME LInv, CreateBuilderFails
    PROVE  LInv'
<1>1. /\ Running /\ builder = "absent" /\ builder' = "freed" /\ fault' \in Faults
      /\ UNCHANGED <<treeVars, refs, router, kept, consuming>>
  BY DEF CreateBuilderFails, Faults
<1>2. /\ RInv /\ IInv /\ Balanced /\ ~Walking
  BY <1>1 DEF LInv, RInv, SInv, Phases
<1>3. RInv'
  BY <1>1, <1>2, TreeKept DEF IInv, TypeOK
<1>4. Phases'
  BY <1>1 DEF LInv, Phases, treeVars, Walking, States
<1>5. Balanced'
  BY <1>1, <1>2 DEF Balanced, Owed, BuilderShare, treeVars
<1> QED BY <1>1, <1>3, <1>4, <1>5 DEF LInv, treeVars

(* The counts after a holder has released all that it holds.               *)
LEMMA ReleasedShare ==
    ASSUME IInv, NEW held \in [Contexts -> Nat], ReleaseAll(held), NEW c \in Contexts
    PROVE  refs'[c] = IF RefCounting THEN refs[c] - HolderCount(c, held[c]) ELSE refs[c]
<1>1. refs[c] \in Nat /\ held[c] \in Nat
  BY DEF IInv, TypeOK
<1>2. CASE RefCounting
  <2>1. refs'[c] = refs[c] - held[c] - (IF c = Fallback THEN 1 ELSE 0)
    BY <1>2 DEF ReleaseAll
  <2> QED BY <1>1, <1>2, <2>1 DEF HolderCount
<1>3. CASE ~RefCounting
  BY <1>3 DEF ReleaseAll
<1> QED BY <1>2, <1>3

LEMMA ReleaseKeepsType ==
    ASSUME IInv, NEW held, ReleaseAll(held), \A c \in Contexts : refs'[c] \in Nat
    PROVE  refs' \in [Contexts -> Nat]
BY DEF ReleaseAll, IInv, TypeOK

LEMMA DestroyStep ==
    ASSUME LInv, Running, builder = "open", ~Walking, DestroyBuilder
    PROVE  LInv'
<1>1. /\ builder' = "freed" /\ consuming' = FALSE
      /\ UNCHANGED <<treeVars, router, kept>>
  BY DEF DestroyBuilder
<1>2. RInv /\ IInv /\ Balanced /\ RoutersOK(router, kept) /\ IsFiniteSet(Held(tree)) /\ fault \in Faults
  BY DEF LInv, RInv, SInv
<1>3. Phases'
  BY <1>1 DEF LInv, Phases, treeVars, Walking, States
<1>4. CASE fault' = "null_deref" /\ UNCHANGED refs
  <2>1. RInv'
    BY <1>1, <1>2, <1>4, TreeKept DEF IInv, TypeOK
  <2>2. ~Running' /\ (fault \in Faults)'
    BY <1>4 DEF Running, Faults
  <2> QED BY <1>1, <1>2, <1>3, <2>1, <2>2 DEF LInv, treeVars
<1>5. CASE ReleaseAll([c \in Contexts |-> HeldCount(tree, c)]) /\ UNCHANGED fault
  <2> DEFINE held == [c \in Contexts |-> HeldCount(tree, c)]
  <2>1. held \in [Contexts -> Nat] /\ \A c \in Contexts : held[c] = HeldCount(tree, c)
    BY <1>2, HeldShareType
  <2>2. ReleaseAll(held)
    BY <1>5
  <2> HIDE DEF held
  <2>3. ASSUME NEW c \in Contexts
        PROVE  refs'[c] = Owed("freed", tree, router, kept, c) /\ refs'[c] \in Nat
    <3>1. refs'[c] = IF RefCounting THEN refs[c] - HolderCount(c, HeldCount(tree, c)) ELSE refs[c]
      BY <1>2, <2>1, <2>2, ReleasedShare
    <3>2. refs[c] = Owed("open", tree, router, kept, c)
      BY <1>2 DEF Balanced
    <3>3. /\ BuilderShare("open", tree, c) = HolderCount(c, HeldCount(tree, c))
          /\ BuilderShare("freed", tree, c) = 0
          /\ BuilderShare("open", tree, c) \in Nat /\ RouterShare(router, kept, c) \in Nat
      BY <1>2, HeldShareType, RouterShareType DEF BuilderShare
    <3>4. \A m, n \in Nat : (m + n) - m = 0 + n /\ 0 + n \in Nat
      OBVIOUS
    <3> QED BY <3>1, <3>2, <3>3, <3>4 DEF Owed
  <2>4. refs' \in [Contexts -> Nat]
    BY <1>2, <2>2, <2>3, ReleaseKeepsType
  <2>5. RInv'
    BY <1>1, <1>2, <2>4, TreeKept
  <2>6. Balanced'
    BY <1>1, <2>3 DEF Balanced, treeVars
  <2> QED BY <1>1, <1>2, <1>3, <1>5, <2>5, <2>6 DEF LInv, treeVars
<1> QED BY <1>4, <1>5 DEF DestroyBuilder

-----------------------------------------------------------------------------
(* A compilation that fails changes no count.                              *)
LEMMA CompileFailsStep ==
    ASSUME LInv, NEW r \in Routers, NEW consume \in BOOLEAN, Compile(r, consume),
           UNCHANGED <<refs, router, kept>>, fault' \in {fault, "double_free"}
    PROVE  LInv'
<1>1. Running /\ builder = "open" /\ ~Walking /\ consuming' = consume /\ UNCHANGED <<treeVars, builder>>
  BY DEF Compile, Idle
<1>2. RInv /\ Balanced /\ IInv /\ fault \in Faults
  BY <1>1 DEF LInv, RInv, SInv
<1>3. RInv'
  BY <1>1, <1>2, TreeKept DEF IInv, TypeOK
<1>4. Phases'
  BY <1>1 DEF LInv, Phases, treeVars, Walking
<1>5. Balanced'
  BY <1>1, <1>2 DEF Balanced, treeVars
<1>6. fault' \in Faults
  BY <1>2 DEF Faults
<1> QED BY <1>1, <1>3, <1>4, <1>5, <1>6 DEF LInv, treeVars

LEMMA CompileStep ==
    ASSUME LInv, NEW r \in Routers, NEW consume \in BOOLEAN, CompileSucceeds(r, consume)
    PROVE  LInv'
<1>1. /\ Running /\ builder = "open" /\ ~Walking /\ consuming' = consume /\ router[r] = "absent"
      /\ UNCHANGED <<treeVars, builder, fault>>
      /\ router' = [router EXCEPT ![r] = "live"] /\ kept' = [kept EXCEPT ![r] = Accepted]
      /\ refs' = IF RefCounting
                 THEN [c \in Contexts |-> Retained(Fallback)[c] + HeldCount(tree, c)]
                 ELSE refs
  BY DEF CompileSucceeds, Compile, Idle
<1>2. RInv /\ IInv /\ Balanced /\ RoutersOK(router, kept) /\ IsFiniteSet(Held(tree)) /\ fault \in Faults
  BY <1>1 DEF LInv, RInv, SInv
<1>3. Phases'
  BY <1>1 DEF LInv, Phases, treeVars, Walking
<1>4. Terminals(Accepted) /\ \A c : KeptCount(Accepted, c) = HeldCount(tree, c)
  BY <1>2, AcceptedTerminals
<1>5. RoutersOK(router', kept')
  BY <1>1, <1>2, <1>4, RouterShareChange DEF States
<1>6. ASSUME NEW c \in Contexts
      PROVE  refs'[c] = Owed("open", tree, router', kept', c) /\ refs'[c] \in Nat
  <2> DEFINE share == RouterShare(router, kept, c)
             d == HolderCount(c, HeldCount(tree, c))
             b == BuilderShare("open", tree, c)
  <2>1. RouterShare(router', kept', c) = share + (Share("live", Accepted, c) - Share(router[r], kept[r], c))
    <3>1. "live" \in States
      BY DEF States
    <3>2. RouterShare([router EXCEPT ![r] = "live"], [kept EXCEPT ![r] = Accepted], c)
             = RouterShare(router, kept, c) + (Share("live", Accepted, c) - Share(router[r], kept[r], c))
      BY <1>2, <1>4, <3>1, RouterShareChange
    <3> QED BY <1>1, <3>2
  <2>2. Share("live", Accepted, c) = d /\ Share(router[r], kept[r], c) = 0
    BY <1>1, <1>4 DEF Share
  <2>3. d \in Nat /\ b \in Nat /\ share \in Nat /\ HeldCount(tree, c) \in Nat
    BY <1>2, HeldShareType, RouterShareType DEF HolderCount
  <2>4. refs[c] = IF RefCounting THEN b + share ELSE 0
    BY <1>1, <1>2 DEF Balanced, Owed
  <2>5. Retained(Fallback)[c] = refs[c] + (IF RefCounting /\ c = Fallback THEN 1 ELSE 0)
    BY <1>2, ContextsCount, LifetimeAssumption
  <2>6. refs'[c] = IF RefCounting THEN refs[c] + d ELSE refs[c]
    <3>1. CASE RefCounting
      <4>1. refs'[c] = (refs[c] + (IF c = Fallback THEN 1 ELSE 0)) + HeldCount(tree, c) /\ refs[c] \in Nat
        BY <1>1, <1>2, <2>5, <3>1, ContextsCount
      <4>2. \A m, n \in Nat : (m + 1) + n = m + (n + 1) /\ (m + 0) + n = m + (n + 0)
        OBVIOUS
      <4> QED BY <2>3, <3>1, <4>1, <4>2 DEF HolderCount
    <3>2. CASE ~RefCounting
      BY <1>1, <3>2
    <3> QED BY <3>1, <3>2
  <2> HIDE DEF share, d, b
  <2>7. RouterShare(router', kept', c) = share + d
    BY <2>1, <2>2, <2>3
  <2>8. \A m, n, k \in Nat : (m + n) + k = m + (n + k) /\ (m + n) + k \in Nat
    OBVIOUS
  <2>9. Owed("open", tree, router', kept', c) = IF RefCounting THEN b + (share + d) ELSE 0
    BY <2>7 DEF Owed, b
  <2>10. (b + share) + d = b + (share + d) /\ (b + share) + d \in Nat /\ 0 \in Nat
    BY <2>3, <2>8
  <2> QED BY <2>4, <2>6, <2>9, <2>10
<1>7. refs' \in [Contexts -> Nat]
  <2>1. refs \in [Contexts -> Nat]
    BY <1>2 DEF IInv, TypeOK
  <2>2. refs' = [c \in Contexts |-> refs'[c]]
    BY <1>1, <2>1
  <2> QED BY <1>6, <2>2
<1>8. RInv'
  BY <1>1, <1>2, <1>7, TreeKept
<1>9. Balanced'
  BY <1>1, <1>6 DEF Balanced, treeVars
<1> QED BY <1>1, <1>2, <1>3, <1>5, <1>8, <1>9 DEF LInv, treeVars

LEMMA FreeRouterStep ==
    ASSUME LInv, NEW r \in Routers, FreeRouter(r)
    PROVE  LInv'
<1>1. /\ Running /\ router[r] = "live"
      /\ router' = [router EXCEPT ![r] = "freed"] /\ kept' = [kept EXCEPT ![r] = <<>>]
      /\ ReleaseAll([c \in Contexts |-> KeptCount(kept[r], c)])
      /\ UNCHANGED <<treeVars, builder, consuming, fault>>
  BY DEF FreeRouter, KeptCount
<1>2. /\ RInv /\ IInv /\ Balanced /\ RoutersOK(router, kept) /\ IsFiniteSet(Held(tree)) /\ fault \in Faults
      /\ Terminals(kept[r])
  BY <1>1 DEF LInv, RInv, SInv, RoutersOK
<1>3. Phases'
  BY <1>1 DEF LInv, Phases, treeVars, Walking
<1>4. Terminals(<<>>)
  <2>1. DOMAIN <<>> = {}
    OBVIOUS
  <2>2. <<>> \in [{} -> Contexts]
    OBVIOUS
  <2> QED BY <2>1, <2>2, FS_EmptySet DEF Terminals
<1>5. RoutersOK(router', kept')
  BY <1>1, <1>2, <1>4, RouterShareChange DEF States
<1> DEFINE held == [c \in Contexts |-> KeptCount(kept[r], c)]
<1>6. held \in [Contexts -> Nat] /\ \A c \in Contexts : held[c] = KeptCount(kept[r], c)
  BY <1>2, PartIsCounted DEF Terminals, KeptCount
<1>7. ReleaseAll(held)
  BY <1>1
<1> HIDE DEF held
<1>8. ASSUME NEW c \in Contexts
      PROVE  refs'[c] = Owed(builder, tree, router', kept', c) /\ refs'[c] \in Nat
  <2> DEFINE share == RouterShare(router, kept, c)
             d == HolderCount(c, KeptCount(kept[r], c))
             b == BuilderShare(builder, tree, c)
  <2>1. RouterShare(router', kept', c) = share + (Share("freed", <<>>, c) - Share(router[r], kept[r], c))
    <3>1. "freed" \in States
      BY DEF States
    <3>2. RouterShare([router EXCEPT ![r] = "freed"], [kept EXCEPT ![r] = <<>>], c)
             = RouterShare(router, kept, c) + (Share("freed", <<>>, c) - Share(router[r], kept[r], c))
      BY <1>2, <1>4, <3>1, RouterShareChange
    <3> QED BY <1>1, <3>2
  <2>2. Share("freed", <<>>, c) = 0 /\ Share(router[r], kept[r], c) = d
    BY <1>1 DEF Share
  <2>3. d \in Nat /\ b \in Nat /\ share \in Nat /\ d <= share
    BY <1>2, <2>2, HeldShareType, RouterShareType, ShareType, ShareOfSum DEF Terminals
  <2>4. refs[c] = IF RefCounting THEN b + share ELSE 0
    BY <1>1, <1>2 DEF Balanced, Owed
  <2>5. refs'[c] = IF RefCounting THEN refs[c] - d ELSE refs[c]
    BY <1>2, <1>6, <1>7, ReleasedShare
  <2> HIDE DEF share, d, b
  <2>6. RouterShare(router', kept', c) = share - d
    BY <2>1, <2>2, <2>3
  <2>7. (b + share) - d = b + (share - d) /\ (b + share) - d \in Nat
    BY <2>3
  <2>8. Owed(builder, tree, router', kept', c) = IF RefCounting THEN b + (share - d) ELSE 0
    BY <2>6 DEF Owed, b
  <2> QED BY <2>4, <2>5, <2>7, <2>8
<1>9. refs' \in [Contexts -> Nat]
  BY <1>2, <1>7, <1>8, ReleaseKeepsType
<1>10. RInv'
  BY <1>1, <1>2, <1>9, TreeKept
<1>11. Balanced'
  BY <1>1, <1>8 DEF Balanced, treeVars
<1> QED BY <1>1, <1>2, <1>3, <1>5, <1>10, <1>11 DEF LInv, treeVars

-----------------------------------------------------------------------------
LEMMA InitLInv == LifeInit => LInv
<1> SUFFICES ASSUME LifeInit PROVE LInv
  OBVIOUS
<1>1. /\ RInv /\ Held(tree) = {} /\ ~Walking /\ ~corrupted /\ builder = "absent"
      /\ router = [r \in Routers |-> "absent"] /\ kept = [r \in Routers |-> <<>>]
      /\ fault = "none" /\ consuming = FALSE /\ \A c \in Contexts : refs[c] = 0
  <2>1. DOMAIN tree = {Root} /\ tree[Root] = NewSegment
    BY DEF LifeInit, Init
  <2>2. Held(tree) = {}
    BY <2>1 DEF Held, WithTerminal, WithTrailing, WithWildcard, NewSegment
  <2> QED BY <2>2, InitRInv DEF LifeInit, Init, Walking
<1>2. IsFiniteSet(Held(tree))
  BY <1>1, FS_EmptySet
<1>3. RoutersOK(router, kept)
  <2>1. Terminals(<<>>)
    <3>1. DOMAIN <<>> = {} /\ <<>> \in [{} -> Contexts]
      OBVIOUS
    <3> QED BY <3>1, FS_EmptySet DEF Terminals
  <2> QED BY <1>1, <2>1 DEF RoutersOK, States
<1>4. ASSUME NEW c \in Contexts PROVE RouterShare(router, kept, c) = 0 /\ BuilderShare(builder, tree, c) = 0
  <2>1. \A r \in Routers : Shares(router, kept, c)[r] = 0
    BY <1>1 DEF Shares, Share
  <2> QED BY <1>1, <2>1, SumZero, LifetimeAssumption DEF RouterShare, BuilderShare
<1>5. Balanced
  BY <1>1, <1>4 DEF Balanced, Owed
<1> QED BY <1>1, <1>2, <1>3, <1>5 DEF LInv, Phases, States, Faults

LEMMA NextLInv == LInv /\ [LifeNext]_allVars => LInv'
<1> SUFFICES ASSUME LInv, [LifeNext]_allVars PROVE LInv'
  OBVIOUS
<1>1. CASE UNCHANGED allVars
  <2>1. UNCHANGED vars /\ UNCHANGED lifeVars
    BY <1>1 DEF allVars
  <2>2. RInv'
    BY <2>1, NextRInv DEF LInv
  <2>3. UNCHANGED <<tree, corrupted, rest, refs>>
    BY <2>1 DEF vars
  <2> QED BY <2>1, <2>2, <2>3 DEF lifeVars, LInv, Phases, Balanced, Running, Walking
<1>2. CASE CreateBuilder
  BY <1>2, CreateStep
<1>3. CASE CreateBuilderFails
  BY <1>3, CreateFailsStep
<1>4. CASE Build
  BY <1>4, BuildStep
<1>5. CASE FreeBuilder
  BY <1>5, DestroyStep DEF FreeBuilder, Idle
<1>6. CASE ConsumeEnds
  BY <1>6, DestroyStep DEF ConsumeEnds, LInv, Phases
<1>7. ASSUME NEW r \in Routers, FreeRouter(r) PROVE LInv'
  BY <1>7, FreeRouterStep
<1>8. ASSUME NEW r \in Routers, NEW consume \in BOOLEAN, CompileSucceeds(r, consume) PROVE LInv'
  BY <1>8, CompileStep
<1>9. ASSUME NEW r \in Routers, NEW consume \in BOOLEAN,
             CompileRefused(r, consume) \/ CompileOutOfRange(r, consume) \/ CompileOutOfMemory(r, consume)
      PROVE  LInv'
  <2>1. Compile(r, consume) /\ UNCHANGED <<refs, router, kept>> /\ fault' \in {fault, "double_free"}
    BY <1>9 DEF CompileRefused, CompileOutOfRange, CompileOutOfMemory
  <2> QED BY <2>1, CompileFailsStep
<1> QED BY <1>1, <1>2, <1>3, <1>4, <1>5, <1>6, <1>7, <1>8, <1>9 DEF LifeNext

(* Whatever fails and in whatever order the client frees, the count of     *)
(* each context is the share of the builder and of the live routers.       *)
THEOREM CountsBalance == LifeSpec => []LInv
<1>1. LifeInit => LInv
  BY InitLInv
<1>2. LInv /\ [LifeNext]_allVars => LInv'
  BY NextLInv
<1> QED BY <1>1, <1>2, PTL DEF LifeSpec

(* The types of the builder hold through compilations and releases: no     *)
(* count becomes negative, whatever is released.                           *)
THEOREM LifeTypeCorrect == LifeSpec => []LifeTypeOK
<1>1. ASSUME LInv PROVE LifeTypeOK
  <2>1. TypeOK /\ RoutersOK(router, kept) /\ Phases /\ fault \in Faults
    BY <1>1 DEF LInv, RInv, SInv, IInv
  <2>2. \A r \in Routers : kept[r] \in [DOMAIN kept[r] -> Contexts]
    BY <2>1 DEF RoutersOK, Terminals
  <2> QED BY <2>1, <2>2 DEF LifeTypeOK, RoutersOK, Phases, States
<1> QED BY <1>1, CountsBalance, PTL

-----------------------------------------------------------------------------
(* The sums of the specification.                                          *)
LEMMA SumsOfRouters ==
    ASSUME NEW c
    PROVE  MapThenSumSet(LAMBDA r : IF router[r] = "live"
                            THEN HolderCount(c, Cardinality({p \in DOMAIN kept[r] : kept[r][p] = c}))
                            ELSE 0, Routers)
              = RouterShare(router, kept, c)
<1> DEFINE shares == Shares(router, kept, c)
<1>1. MapThenSumSet(LAMBDA r : IF router[r] = "live"
                            THEN HolderCount(c, Cardinality({p \in DOMAIN kept[r] : kept[r][p] = c}))
                            ELSE 0, Routers)
         = (CHOOSE g : g = [s \in SUBSET Routers |-> IF s = {} THEN 0
                 ELSE (IF router[Pick(s)] = "live"
                       THEN HolderCount(c, Cardinality({p \in DOMAIN kept[Pick(s)] : kept[Pick(s)][p] = c}))
                       ELSE 0) + g[s \ {Pick(s)}]])[Routers]
  BY Zenon DEF MapThenSumSet, MapThenFoldSet, Pick
<1>2. \A r : Share(router[r], kept[r], c)
                = IF router[r] = "live"
                  THEN HolderCount(c, Cardinality({p \in DOMAIN kept[r] : kept[r][p] = c})) ELSE 0
  BY DEF Share, KeptCount
<1>3. \A s \in SUBSET Routers : s # {} => shares[Pick(s)] = Share(router[Pick(s)], kept[Pick(s)], c)
  BY PickProperties DEF Shares
<1> HIDE DEF shares
<1>4. \A s \in SUBSET Routers : s # {} =>
         shares[Pick(s)] = IF router[Pick(s)] = "live"
                           THEN HolderCount(c, Cardinality({p \in DOMAIN kept[Pick(s)] : kept[Pick(s)][p] = c}))
                           ELSE 0
  BY <1>2, <1>3, Zenon
<1>5. ASSUME NEW g
      PROVE  Sums(shares, Routers, g) <=>
                g = [s \in SUBSET Routers |-> IF s = {} THEN 0
                 ELSE (IF router[Pick(s)] = "live"
                       THEN HolderCount(c, Cardinality({p \in DOMAIN kept[Pick(s)] : kept[Pick(s)][p] = c}))
                       ELSE 0) + g[s \ {Pick(s)}]]
  <2>1. [s \in SUBSET Routers |-> IF s = {} THEN 0 ELSE shares[Pick(s)] + g[s \ {Pick(s)}]]
         = [s \in SUBSET Routers |-> IF s = {} THEN 0
                 ELSE (IF router[Pick(s)] = "live"
                       THEN HolderCount(c, Cardinality({p \in DOMAIN kept[Pick(s)] : kept[Pick(s)][p] = c}))
                       ELSE 0) + g[s \ {Pick(s)}]]
    BY <1>4
  <2> QED BY <2>1 DEF Sums
<1>6. SumFunctionOnSet(shares, Routers) = (CHOOSE g : Sums(shares, Routers, g))[Routers]
  BY SumIsChosen
<1>7. (CHOOSE g : Sums(shares, Routers, g))
         = (CHOOSE g : g = [s \in SUBSET Routers |-> IF s = {} THEN 0
                 ELSE (IF router[Pick(s)] = "live"
                       THEN HolderCount(c, Cardinality({p \in DOMAIN kept[Pick(s)] : kept[Pick(s)][p] = c}))
                       ELSE 0) + g[s \ {Pick(s)}]])
  BY <1>5
<1>8. RouterShare(router, kept, c) = SumFunctionOnSet(shares, Routers)
  BY DEF RouterShare, shares
<1> QED BY <1>1, <1>6, <1>7, <1>8

LEMMA BalancedIsExact == LInv => RefsExact
<1> SUFFICES ASSUME LInv, Running, RefCounting, NEW c \in Contexts
             PROVE  refs[c] = (IF builder = "open" THEN HolderCount(c, HeldCount(tree, c)) ELSE 0)
                              + MapThenSumSet(LAMBDA r : IF router[r] = "live"
                                    THEN HolderCount(c, Cardinality({p \in DOMAIN kept[r] : kept[r][p] = c}))
                                    ELSE 0, Routers)
  BY DEF RefsExact
<1>1. refs[c] = BuilderShare(builder, tree, c) + RouterShare(router, kept, c)
  BY DEF LInv, Balanced, Owed
<1> QED BY <1>1, SumsOfRouters DEF BuilderShare

(* Retain and release calls balance at every moment of the process.        *)
THEOREM RefsAreExact == LifeSpec => []RefsExact
BY CountsBalance, BalancedIsExact, PTL

(* Only a tree fit for it is ever compiled.                                *)
THEOREM SoundTreesCompiled == LifeSpec => CompiledTreesSound
<1>1. ASSUME LInv, [LifeNext]_allVars,
             \E r \in Routers : router[r] = "absent" /\ router'[r] = "live"
      PROVE  SoundTree(tree)
  <2>1. PICK r \in Routers : router[r] = "absent" /\ router'[r] = "live"
    BY <1>1
  <2>2. router' # router
    BY <2>1
  <2>3. RoutersOK(router, kept) /\ SInv
    BY <1>1 DEF LInv, RInv
  <2>4. ASSUME NEW q \in Routers, FreeRouter(q) PROVE FALSE
    <3>1. router' = [router EXCEPT ![q] = "freed"]
      BY <2>4 DEF FreeRouter
    <3> QED BY <2>1, <2>3, <3>1 DEF RoutersOK
  <2>5. \E q \in Routers, consume \in BOOLEAN : CompileSucceeds(q, consume)
    BY <1>1, <2>2, <2>4
       DEF LifeNext, allVars, lifeVars, CreateBuilder, CreateBuilderFails, Build, FreeBuilder, ConsumeEnds,
           DestroyBuilder, CompileRefused, CompileOutOfRange, CompileOutOfMemory
  <2>6. ~Walking /\ ~corrupted
    BY <2>5 DEF CompileSucceeds, Compile, Idle, Compilable
  <2> QED BY <2>3, <2>6, SoundIsSoundTree DEF SInv, IInv, AtRest
<1>2. LInv /\ [LifeNext]_allVars =>
         [(\E r \in Routers : router[r] = "absent" /\ router'[r] = "live") => SoundTree(tree)]_allVars
  BY <1>1
<1> QED BY <1>2, CountsBalance, PTL DEF LifeSpec, CompiledTreesSound

-----------------------------------------------------------------------------
(* The library keeps the promise of Ownership.  What clients see of a      *)
(* builder b with tree t, and of a router.                                 *)
LibOf(b, t, spoilt) ==
    [open |-> b = "open", held |-> [c \in Contexts |-> BuilderShare(b, t, c)],
     corrupted |-> b = "open" /\ spoilt, hollow |-> RefCounting /\ b = "open" /\ ~NoNulls(t)]
SeenRouter(state, f) == [live |-> state = "live", held |-> [c \in Contexts |-> Share(state, f, c)]]
SeenRouters(rt, kp) == [r \in Routers |-> SeenRouter(rt[r], kp[r])]

(* An open builder with tree t, as the promise describes builders.         *)
Described(o, n, f, h) == [open |-> o, held |-> n, corrupted |-> f, hollow |-> h]
HeldOf(t) == [c \in Contexts |-> BuilderShare("open", t, c)]

LEMMA Seen ==
    /\ HeldByBuilder = LibOf(builder, tree, corrupted)
    /\ HeldByBuilder' = LibOf(builder', tree', corrupted')
    /\ [r \in Routers |-> HeldByRouter(r)] = SeenRouters(router, kept)
    /\ [r \in Routers |-> HeldByRouter(r)]' = SeenRouters(router', kept')
<1>1. \A k : ~Hollow(k) <=> /\ tree[k].spec = "SPEC_PARAM" => tree[k].param # NoName
                            /\ tree[k].spec = "SPEC_WILDCARD" => tree[k].wildcard # NULL
  BY DEF Hollow
<1>2. \A k : ~Hollow(k)' <=> /\ tree'[k].spec = "SPEC_PARAM" => tree'[k].param # NoName
                             /\ tree'[k].spec = "SPEC_WILDCARD" => tree'[k].wildcard # NULL
  BY DEF Hollow
<1>3. HeldByBuilder = LibOf(builder, tree, corrupted)
  BY <1>1 DEF HeldByBuilder, LibOf, Holdings, BuilderShare, NoNulls
<1>4. HeldByBuilder' = LibOf(builder', tree', corrupted')
  BY <1>2 DEF HeldByBuilder, LibOf, Holdings, BuilderShare, NoNulls
<1>5. \A r : HeldByRouter(r) = SeenRouter(router[r], kept[r])
  BY DEF HeldByRouter, SeenRouter, Holdings, Share, KeptCount
<1>6. \A r : HeldByRouter(r)' = SeenRouter(router'[r], kept'[r])
  BY DEF HeldByRouter, SeenRouter, Holdings, Share, KeptCount
<1> QED BY <1>3, <1>4, <1>5, <1>6 DEF SeenRouters

LEMMA ClosedIsNoBuilder ==
    ASSUME NEW b, NEW t, NEW spoilt, b # "open"
    PROVE  LibOf(b, t, spoilt) = Promise!NoBuilder
BY DEF LibOf, BuilderShare, Promise!NoBuilder, Promise!Nothing

LEMMA DeadIsNoRouter ==
    ASSUME NEW state, NEW f, state # "live"
    PROVE  SeenRouter(state, f) = Promise!NoRouter
BY DEF SeenRouter, Share, Promise!NoRouter, Promise!Nothing

LEMMA PromisedBalance ==
    ASSUME NEW b, NEW t, NEW spoilt, NEW rt, NEW kp
    PROVE  Promise!Balance(LibOf(b, t, spoilt), SeenRouters(rt, kp)) = [c \in Contexts |-> Owed(b, t, rt, kp, c)]
<1> DEFINE rs == SeenRouters(rt, kp)
           lib == LibOf(b, t, spoilt)
<1>1. \A r \in Routers, c \in Contexts : rs[r].held[c] = Share(rt[r], kp[r], c)
  BY DEF SeenRouters, SeenRouter
<1>2. \A c \in Contexts : lib.held[c] = BuilderShare(b, t, c)
  BY DEF LibOf
<1> HIDE DEF rs, lib
<1>3. Promise!Balance(lib, rs)
         = [c \in Contexts |-> IF RefCounting
                               THEN lib.held[c] + MapThenSumSet(LAMBDA r : rs[r].held[c], Routers) ELSE 0]
  BY Zenon DEF Promise!Balance, Promise!MapThenSumSet, MapThenSumSet, Promise!MapThenFoldSet, MapThenFoldSet
<1>4. ASSUME NEW c \in Contexts
      PROVE  (IF RefCounting THEN lib.held[c] + MapThenSumSet(LAMBDA r : rs[r].held[c], Routers) ELSE 0)
                = Owed(b, t, rt, kp, c)
  <2>1. [r \in Routers |-> rs[r].held[c]] = Shares(rt, kp, c)
    BY <1>1 DEF Shares
  <2>2. MapThenSumSet(LAMBDA r : rs[r].held[c], Routers) = RouterShare(rt, kp, c)
    <3>1. MapThenSumSet(LAMBDA r : rs[r].held[c], Routers) = SumFunctionOnSet([r \in Routers |-> rs[r].held[c]], Routers)
      BY SumOfHeld
    <3> QED BY <2>1, <3>1 DEF RouterShare
  <2> QED BY <1>2, <2>2 DEF Owed
<1>5. Promise!Balance(lib, rs) = [c \in Contexts |-> Owed(b, t, rt, kp, c)]
  BY <1>3, <1>4
<1> QED BY <1>5 DEF rs, lib

(* After a step that the process survives, the counts are as promised.     *)
LEMMA CountsAsPromised ==
    ASSUME LInv', Running'
    PROVE  refs' = Promise!Balance(HeldByBuilder', [r \in Routers |-> HeldByRouter(r)]')
<1> DEFINE lib == HeldByBuilder'
           rs == [r \in Routers |-> HeldByRouter(r)]'
<1>1. Promise!Balance(lib, rs) = [c \in Contexts |-> Owed(builder', tree', router', kept', c)]
  BY Seen, PromisedBalance
<1>2. \A c \in Contexts : refs'[c] = Owed(builder', tree', router', kept', c)
  BY DEF LInv, Balanced
<1>3. refs' \in [Contexts -> Nat]
  BY DEF LInv, RInv, SInv, IInv, TypeOK
<1>4. refs' = [c \in Contexts |-> Owed(builder', tree', router', kept', c)]
  BY <1>2, <1>3
<1> QED BY <1>1, <1>4

(* A step of the library is a step of the promise when it does what the    *)
(* promise says to the builder and the routers: the counts follow.         *)
LEMMA WorksAsPromised ==
    ASSUME LInv', Running, UNCHANGED fault,
           \/ Promise!CreateOrFail \/ Promise!Add \/ Promise!Free
           \/ \E r \in Routers : Promise!Compile(r) \/ Promise!FreeRouter(r)
    PROVE  Promise!OwnNext
<1>1. Running'
  BY DEF Running
<1>2. refs' = Promise!Balance(HeldByBuilder', [r \in Routers |-> HeldByRouter(r)]')
  BY <1>1, CountsAsPromised
<1>3. Promise!Works
  BY <1>2 DEF Promise!Works
<1> QED BY <1>3 DEF Promise!OwnNext, Running

LEMMA NothingSeen ==
    ASSUME LibOf(builder', tree', corrupted') = LibOf(builder, tree, corrupted),
           UNCHANGED <<router, kept, refs, fault>>
    PROVE  UNCHANGED Promise!ownVars
BY Seen DEF Promise!ownVars

(* No pointer is null in a builder that is not corrupted.                  *)
LEMMA NotHollow ==
    ASSUME SInv, ~corrupted
    PROVE  NoNulls(tree)
BY DEF SInv, Sound

(* The updates that the promise makes of a builder.                        *)
Opened(b, o, n) == [b EXCEPT !.open = o, !.held = n]
Holding(b, n) == [b EXCEPT !.held = n]
Flagged(b, f, h) == [b EXCEPT !.corrupted = f, !.hollow = h]

(* The provers take the truth values for terms only under another name.    *)
LEMMA HoldingDescribed ==
    ASSUME NEW b, NEW o, NEW n, NEW f, NEW h, b = Described(o, n, f, h), NEW n1
    PROVE  Holding(b, n1) = Described(o, n1, f, h)
BY DEF Described, Holding

LEMMA OpenedDescribed ==
    ASSUME NEW b, NEW o, NEW n, NEW f, NEW h, b = Described(o, n, f, h), NEW n1, NEW yes
    PROVE  Opened(b, yes, n1) = Described(yes, n1, f, h)
<1>1. ASSUME NEW q, q = [b EXCEPT !.open = yes, !.held = n1] PROVE q = Described(yes, n1, f, h)
  <2>1. q.open = yes /\ q.held = n1 /\ q.corrupted = f /\ q.hollow = h
    BY <1>1 DEF Described
  <2>2. q = Described(q.open, q.held, q.corrupted, q.hollow)
    BY <1>1 DEF Described
  <2> QED BY <2>1, <2>2
<1> QED BY <1>1, Zenon DEF Opened

LEMMA FlaggedDescribed ==
    ASSUME NEW b, NEW o, NEW n, NEW f, NEW h, b = Described(o, n, f, h), NEW h1, NEW yes
    PROVE  Flagged(b, yes, h1) = Described(o, n, yes, h1)
<1>1. ASSUME NEW q, q = [b EXCEPT !.corrupted = yes, !.hollow = h1] PROVE q = Described(o, n, yes, h1)
  <2>1. q.open = o /\ q.held = n /\ q.corrupted = yes /\ q.hollow = h1
    BY <1>1 DEF Described
  <2>2. q = Described(q.open, q.held, q.corrupted, q.hollow)
    BY <1>1 DEF Described
  <2> QED BY <2>1, <2>2
<1> QED BY <1>1, Zenon DEF Flagged

(* An open builder that is sound, and one that is spoilt.                  *)
SoundBuilder(n) == [open |-> TRUE, held |-> n, corrupted |-> FALSE, hollow |-> FALSE]
SpoiltBuilder(n, h) == [open |-> TRUE, held |-> n, corrupted |-> TRUE, hollow |-> h]

LEMMA SoundDescribed ==
    ASSUME NEW n, NEW yes, NEW no, yes = TRUE, no = FALSE
    PROVE  SoundBuilder(n) = Described(yes, n, no, no)
BY DEF SoundBuilder, Described

LEMMA SpoiltDescribed ==
    ASSUME NEW n, NEW h, NEW yes, yes = TRUE
    PROVE  SpoiltBuilder(n, h) = Described(yes, n, yes, h)
BY DEF SpoiltBuilder, Described

LEMMA OpenBuilder ==
    ASSUME NEW t
    PROVE  /\ LibOf("open", t, TRUE) = SpoiltBuilder(HeldOf(t), RefCounting /\ ~NoNulls(t))
           /\ NoNulls(t) => LibOf("open", t, FALSE) = SoundBuilder(HeldOf(t))
BY DEF LibOf, SpoiltBuilder, SoundBuilder, HeldOf

LEMMA NewBuilderIs == Promise!NewBuilder(Fallback) = SoundBuilder(Promise!With(Promise!Nothing, Fallback))
<1> DEFINE b == Promise!NoBuilder
           n == Promise!With(Promise!Nothing, Fallback)
<1>1. PICK yes, no : yes = TRUE /\ no = FALSE
  OBVIOUS
<1>2. b = Described(no, Promise!Nothing, no, no)
  BY <1>1 DEF Promise!NoBuilder, Described
<1>3. Promise!NewBuilder(Fallback) = Opened(b, yes, n)
  BY <1>1, Zenon DEF Promise!NewBuilder, Opened
<1> HIDE DEF b, n
<1>4. Opened(b, yes, n) = Described(yes, n, no, no)
  BY <1>2, OpenedDescribed
<1>5. SoundBuilder(n) = Described(yes, n, no, no)
  BY <1>1, SoundDescribed, SpoiltDescribed, Zenon
<1> QED BY <1>3, <1>4, <1>5, Zenon DEF n

LEMMA HeldUpdated ==
    ASSUME NEW n, NEW n1
    PROVE  Holding(SoundBuilder(n), n1) = SoundBuilder(n1)
<1>1. PICK yes, no : yes = TRUE /\ no = FALSE
  OBVIOUS
<1>2. SoundBuilder(n) = Described(yes, n, no, no) /\ SoundBuilder(n1) = Described(yes, n1, no, no)
  BY <1>1, SoundDescribed, SpoiltDescribed, Zenon
<1> QED BY <1>2, HoldingDescribed

LEMMA SpoiltBuilderIs ==
    ASSUME NEW n, NEW h \in {FALSE, RefCounting}
    PROVE  SpoiltBuilder(n, h) \in Promise!Spoilt(SoundBuilder(n))
<1> DEFINE b == SoundBuilder(n)
<1>1. PICK yes, no : yes = TRUE /\ no = FALSE
  OBVIOUS
<1>2. b = Described(yes, n, no, no) /\ SpoiltBuilder(n, h) = Described(yes, n, yes, h)
  BY <1>1, SoundDescribed, SpoiltDescribed, Zenon
<1>3. ~b.hollow
  BY DEF SoundBuilder
<1> HIDE DEF b
<1>4. Flagged(b, yes, h) = SpoiltBuilder(n, h)
  BY <1>2, FlaggedDescribed
<1>5. h \in BOOLEAN
  BY BuilderAssumption
<1>6. (b.hollow \/ h) = h
  BY <1>3, <1>5
<1>7. Promise!Spoilt(b) = {Flagged(b, TRUE, b.hollow \/ x) : x \in {FALSE, RefCounting}}
  BY Zenon DEF Promise!Spoilt, Flagged
<1>8. Flagged(b, TRUE, b.hollow \/ h) = Flagged(b, yes, h)
  BY <1>1, <1>6, Zenon
<1> DEFINE g(x) == Flagged(b, TRUE, b.hollow \/ x)
<1>9. g(h) \in {g(x) : x \in {FALSE, RefCounting}}
  <2> HIDE DEF g
  <2> QED OBVIOUS
<1> QED BY <1>4, <1>7, <1>8, <1>9, Zenon DEF b

LEMMA CreatePromised ==
    ASSUME LInv, LInv', CreateBuilder
    PROVE  Promise!OwnNext
<1>1. /\ Running /\ builder = "absent" /\ builder' = "open"
      /\ UNCHANGED <<tree, corrupted, router, kept, fault>> /\ Held(tree) = {} /\ ~corrupted /\ NoNulls(tree)
  BY NotHollow DEF CreateBuilder, treeVars, LInv, RInv, Phases
<1>2. \A c \in Contexts : HeldCount(tree, c) = 0
  <2>1. \A c \in Contexts : {r \in Held(tree) : HeldContext(tree, r) = c} = {}
    BY <1>1
  <2> QED BY <2>1, FS_EmptySet DEF HeldCount
<1>3. \A c \in Contexts : BuilderShare("open", tree, c) = 0 + (IF c = Fallback THEN 1 ELSE 0)
  BY <1>2 DEF BuilderShare, HolderCount
<1>4. LibOf("open", tree, corrupted) = Promise!NewBuilder(Fallback)
  <2>1. Promise!With(Promise!Nothing, Fallback) = HeldOf(tree)
    BY <1>3 DEF Promise!With, Promise!Nothing, HeldOf
  <2>2. corrupted = FALSE
    BY <1>1 DEF LInv, RInv, SInv, IInv, TypeOK
  <2>3. LibOf("open", tree, FALSE) = SoundBuilder(HeldOf(tree))
    BY <1>1, OpenBuilder
  <2> QED BY <2>1, <2>2, <2>3, NewBuilderIs, Zenon
<1>5. ~HeldByBuilder.open
  BY <1>1, Seen DEF LibOf
<1>6. Promise!CreateOrFail
  BY <1>1, <1>4, <1>5, Seen DEF Promise!CreateOrFail
<1> QED BY <1>1, <1>6, WorksAsPromised

LEMMA CreateFailsPromised ==
    ASSUME LInv, CreateBuilderFails
    PROVE  [Promise!OwnNext]_(Promise!ownVars)
<1>1. /\ Running /\ builder = "absent" /\ builder' = "freed" /\ AllocFails
      /\ UNCHANGED <<tree, corrupted, router, kept, refs>>
      /\ fault' \in {"none", IF RefCounting THEN "null_deref" ELSE "none"}
  BY DEF CreateBuilderFails, treeVars
<1>2. LibOf(builder', tree', corrupted') = LibOf(builder, tree, corrupted)
  BY <1>1, ClosedIsNoBuilder
<1>3. CASE fault' = "none"
  BY <1>1, <1>2, <1>3, NothingSeen DEF Running
<1>4. CASE fault' # "none"
  <2>1. ~HeldByBuilder.open
    BY <1>1, Seen DEF LibOf
  <2>2. fault' \in Promise!CreateFaults
    BY <1>1, <1>4 DEF Promise!CreateFaults
  <2>3. Promise!Dies
    BY <1>1, <1>4, <2>1, <2>2 DEF Promise!Dies
  <2> QED BY <1>1, <2>3 DEF Promise!OwnNext, Running
<1> QED BY <1>3, <1>4

LEMMA BuildPromised ==
    ASSUME LInv, LInv', Build
    PROVE  [Promise!OwnNext]_(Promise!ownVars)
<1>1. /\ Running /\ builder = "open" /\ Next
      /\ UNCHANGED <<builder, router, kept, consuming, fault>>
  BY DEF Build, lifeVars
<1>2. RInv /\ SInv /\ SInv' /\ IInv /\ IsFiniteSet(Held(tree)) /\ (Walking => ~corrupted)
  BY DEF LInv, RInv, SInv
<1>3. /\ HeldByBuilder = LibOf("open", tree, corrupted) /\ HeldByBuilder' = LibOf("open", tree', corrupted')
      /\ UNCHANGED [r \in Routers |-> HeldByRouter(r)]
  BY <1>1, Seen
<1>4. CASE \E p \in Patterns, c \in Contexts : AddRoute(p, c)
  <2>1. UNCHANGED <<tree, refs>> /\ corrupted' = corrupted
    BY <1>2, <1>4 DEF AddRoute, Return, SInv, IInv, TypeOK
  <2> QED BY <1>1, <2>1, NothingSeen
<1>5. ASSUME Keeps PROVE \A c \in Contexts : BuilderShare("open", tree', c) = BuilderShare("open", tree, c)
  <2>1. \A c \in Contexts : HeldCount(tree', c) = HeldCount(tree, c)
    BY <1>5, HeldCountKept DEF Keeps
  <2> QED BY <2>1 DEF BuilderShare
<1>6. CASE Walk /\ GoesOn
  <2>1. ~corrupted /\ ~corrupted' /\ UNCHANGED refs /\ Keeps
    BY <1>2, <1>6, OthersRetainNothing DEF GoesOn, Descend
  <2>2. NoNulls(tree) /\ NoNulls(tree')
    BY <1>2, <2>1, NotHollow DEF SInv, Sound
  <2>3. LibOf("open", tree', corrupted') = LibOf("open", tree, corrupted)
    BY <1>5, <2>1, <2>2 DEF LibOf
  <2> QED BY <1>1, <2>1, <2>3, NothingSeen
<1>7. CASE Walk /\ Refuses
  <2>1. ~corrupted /\ corrupted' = TRUE /\ Keeps /\ NoNulls(tree)
    BY <1>2, <1>7, NotHollow DEF Refuses, Return
  <2>2. HeldByBuilder' \in Promise!Spoilt(HeldByBuilder)
    <3> DEFINE t == tree'
               h == RefCounting /\ ~NoNulls(t)
    <3>1. h \in {FALSE, RefCounting}
      BY BuilderAssumption
    <3>2. HeldOf(t) = HeldOf(tree)
      BY <1>5, <2>1 DEF HeldOf
    <3>3. LibOf("open", tree, FALSE) = SoundBuilder(HeldOf(tree))
      BY <2>1, OpenBuilder
    <3>4. LibOf("open", t, TRUE) = SpoiltBuilder(HeldOf(t), h)
      <4> HIDE DEF t
      <4> QED BY OpenBuilder
    <3>5. corrupted = FALSE
      BY <1>2, <2>1 DEF IInv, TypeOK
    <3>6. HeldByBuilder' = LibOf("open", t, TRUE) /\ HeldByBuilder = LibOf("open", tree, FALSE)
      BY <1>3, <2>1, <3>5, Zenon
    <3> HIDE DEF h, t
    <3>7. HeldByBuilder' = SpoiltBuilder(HeldOf(tree), h)
      BY <3>2, <3>4, <3>6, Zenon
    <3>8. HeldByBuilder = SoundBuilder(HeldOf(tree))
      BY <3>3, <3>6, Zenon
    <3>9. SpoiltBuilder(HeldOf(tree), h) \in Promise!Spoilt(HeldByBuilder)
      BY <3>1, <3>8, SpoiltBuilderIs
    <3> QED BY <3>7, <3>9, Zenon
  <2>3. Promise!Add
    BY <1>3, <2>2 DEF Promise!Add, LibOf
  <2> QED BY <1>1, <2>3, WorksAsPromised
<1>8. CASE Walk /\ Enters
  <2>1. ~corrupted /\ corrupted' = FALSE /\ route \in Contexts
    BY <1>2, <1>8 DEF Enters, Return, IInv, TypeOK
  <2>2. NoNulls(tree) /\ NoNulls(tree')
    BY <1>2, <2>1, NotHollow DEF SInv, Sound
  <2> DEFINE x == Append(cur, tok)
             t == tree'
  <2>3. /\ x \notin Held(tree) /\ Held(t) = Held(tree) \cup {x} /\ HeldContext(t, x) = route
        /\ \A r \in Held(tree) : HeldContext(t, r) = HeldContext(tree, r)
    BY <1>8 DEF Enters
  <2>4. ASSUME NEW c \in Contexts
        PROVE  BuilderShare("open", t, c) = BuilderShare("open", tree, c) + (IF c = route THEN 1 ELSE 0)
    <3> HIDE DEF t, x
    <3>1. HeldCount(t, c) = HeldCount(tree, c) + (IF c = route THEN 1 ELSE 0)
      BY <1>2, <2>3, HeldCountAdded
    <3>2. HeldCount(tree, c) \in Nat
      BY <1>2, HeldShareType
    <3>3. \A m, n, k \in Nat : (m + n) + k = (m + k) + n
      OBVIOUS
    <3> QED BY <3>1, <3>2, <3>3 DEF BuilderShare, HolderCount
  <2>5. LibOf("open", t, FALSE) = [LibOf("open", tree, FALSE) EXCEPT !.held = Promise!With(@, route)]
    <3> DEFINE b == LibOf("open", tree, FALSE)
    <3>1. HeldOf(t) = Promise!With(HeldOf(tree), route)
      BY <2>4 DEF Promise!With, HeldOf
    <3>2. /\ b = SoundBuilder(HeldOf(tree))
          /\ LibOf("open", t, FALSE) = SoundBuilder(HeldOf(t))
      BY <2>2, OpenBuilder
    <3>3. b.held = HeldOf(tree)
      BY DEF LibOf, HeldOf
    <3> HIDE DEF b, t
    <3>4. Holding(b, HeldOf(t)) = SoundBuilder(HeldOf(t))
      BY <3>2, HeldUpdated
    <3>5. [b EXCEPT !.held = Promise!With(@, route)] = Holding(b, HeldOf(t))
      BY <3>1, <3>3, Zenon DEF Holding
    <3> QED BY <3>2, <3>4, <3>5, Zenon DEF b
  <2>6. HeldByBuilder' \in Promise!Added(HeldByBuilder, route)
    BY <1>3, <2>1, <2>5 DEF Promise!Added, LibOf
  <2>7. Promise!Add
    BY <1>3, <2>1, <2>6 DEF Promise!Add, LibOf
  <2> QED BY <1>1, <2>7, WorksAsPromised
<1> QED BY <1>1, <1>2, <1>4, <1>6, <1>7, <1>8, StepKinds DEF Next

LEMMA DestroyPromised ==
    ASSUME LInv, LInv', Running, builder = "open", DestroyBuilder
    PROVE  Promise!OwnNext
<1>1. /\ builder' = "freed" /\ UNCHANGED <<tree, corrupted, router, kept>>
      /\ HeldByBuilder = LibOf("open", tree, corrupted)
      /\ UNCHANGED [r \in Routers |-> HeldByRouter(r)]
  BY Seen DEF DestroyBuilder, treeVars
<1>2. HeldByBuilder.open /\ (HeldByBuilder.hollow <=> RefCounting /\ ~NoNulls(tree))
  BY <1>1 DEF LibOf
<1>3. NoNulls(tree) <=> \A k \in DOMAIN tree : ~Hollow(k)
  BY DEF NoNulls, Hollow
<1>4. CASE RefCounting /\ ~NoNulls(tree)
  <2>1. fault' = "null_deref" /\ UNCHANGED refs
    BY <1>3, <1>4 DEF DestroyBuilder
  <2>2. Promise!FreeFault(HeldByBuilder) = "null_deref"
    BY <1>2, <1>4 DEF Promise!FreeFault
  <2>3. Promise!Dies
    BY <1>2, <2>1, <2>2 DEF Promise!Dies
  <2> QED BY <2>3 DEF Promise!OwnNext, Running
<1>5. CASE ~(RefCounting /\ ~NoNulls(tree))
  <2>1. UNCHANGED fault
    BY <1>3, <1>5 DEF DestroyBuilder
  <2>2. Promise!FreeFault(HeldByBuilder) = "none"
    BY <1>2, <1>5 DEF Promise!FreeFault
  <2>3. HeldByBuilder' = Promise!NoBuilder
    BY <1>1, Seen, ClosedIsNoBuilder
  <2>4. Promise!Free
    BY <1>1, <1>2, <2>2, <2>3 DEF Promise!Free
  <2> QED BY <2>1, <2>4, WorksAsPromised
<1> QED BY <1>4, <1>5

LEMMA CompilePromised ==
    ASSUME LInv, LInv', NEW r \in Routers, NEW consume \in BOOLEAN, CompileSucceeds(r, consume)
    PROVE  Promise!OwnNext
<1>1. /\ Running /\ builder = "open" /\ router[r] = "absent" /\ ~Walking /\ ~corrupted
      /\ router' = [router EXCEPT ![r] = "live"] /\ kept' = [kept EXCEPT ![r] = Accepted]
      /\ UNCHANGED <<tree, corrupted, builder, fault>>
  BY DEF CompileSucceeds, Compile, Idle, Compilable, treeVars
<1>2. RoutersOK(router, kept) /\ IInv /\ IsFiniteSet(Held(tree))
  BY <1>1 DEF LInv, RInv, SInv
<1>3. HeldByBuilder = LibOf("open", tree, corrupted) /\ UNCHANGED HeldByBuilder
  BY <1>1, Seen
<1>4. \A c \in Contexts : Share("live", Accepted, c) = BuilderShare("open", tree, c)
  BY <1>1, <1>2, AcceptedTerminals DEF BuilderShare, Share
<1>5. SeenRouter("live", Accepted) = [live |-> TRUE, held |-> HeldOf(tree)]
  BY <1>4 DEF SeenRouter, HeldOf
<1>6. HeldByBuilder.open /\ ~HeldByBuilder.corrupted /\ HeldByBuilder.held = HeldOf(tree)
  BY <1>1, <1>3 DEF LibOf, HeldOf
<1>7. SeenRouters(router', kept')
         = [SeenRouters(router, kept) EXCEPT ![r] = [live |-> TRUE, held |-> HeldByBuilder.held]]
  <2>1. \A q \in Routers : q # r => router'[q] = router[q] /\ kept'[q] = kept[q]
    BY <1>1, <1>2 DEF RoutersOK
  <2>2. router'[r] = "live" /\ kept'[r] = Accepted
    BY <1>1, <1>2 DEF RoutersOK
  <2>3. SeenRouter(router'[r], kept'[r]) = [live |-> TRUE, held |-> HeldByBuilder.held]
    BY <1>5, <1>6, <2>2
  <2> QED BY <2>1, <2>3 DEF SeenRouters
<1>8. ~SeenRouters(router, kept)[r].live
  BY <1>1 DEF SeenRouters, SeenRouter
<1>9. Promise!Compile(r)
  BY <1>3, <1>6, <1>7, <1>8, Seen DEF Promise!Compile
<1> QED BY <1>1, <1>9, WorksAsPromised

LEMMA CompileFailsPromised ==
    ASSUME LInv, NEW r \in Routers, NEW consume \in BOOLEAN,
           CompileRefused(r, consume) \/ CompileOutOfRange(r, consume) \/ CompileOutOfMemory(r, consume)
    PROVE  [Promise!OwnNext]_(Promise!ownVars)
<1>1. Running /\ builder = "open" /\ UNCHANGED <<tree, corrupted, builder, router, kept, refs>>
  BY DEF CompileRefused, CompileOutOfRange, CompileOutOfMemory, Compile, Idle, treeVars
<1>2. CASE UNCHANGED fault
  BY <1>1, <1>2, NothingSeen
<1>3. CASE ~UNCHANGED fault
  <2>1. ~corrupted /\ AllocFails /\ fault' = "double_free"
    BY <1>3 DEF CompileRefused, CompileOutOfRange, CompileOutOfMemory, Compilable
  <2>2. HeldByBuilder.open /\ ~HeldByBuilder.corrupted
    BY <1>1, <2>1, Seen DEF LibOf
  <2>3. fault' \in Promise!CompileFaults(HeldByBuilder)
    BY <2>1, <2>2 DEF Promise!CompileFaults
  <2>4. Promise!Dies
    BY <1>1, <2>1, <2>2, <2>3 DEF Promise!Dies
  <2> QED BY <1>1, <2>4 DEF Promise!OwnNext, Running
<1> QED BY <1>2, <1>3

LEMMA FreeRouterPromised ==
    ASSUME LInv, LInv', NEW r \in Routers, FreeRouter(r)
    PROVE  Promise!OwnNext
<1>1. /\ Running /\ router[r] = "live"
      /\ router' = [router EXCEPT ![r] = "freed"] /\ kept' = [kept EXCEPT ![r] = <<>>]
      /\ UNCHANGED <<tree, corrupted, builder, fault>>
  BY DEF FreeRouter, treeVars
<1>2. RoutersOK(router, kept)
  BY <1>1 DEF LInv
<1>3. UNCHANGED HeldByBuilder
  BY <1>1, Seen
<1>4. SeenRouters(router', kept') = [SeenRouters(router, kept) EXCEPT ![r] = Promise!NoRouter]
  <2>1. \A q \in Routers : q # r => router'[q] = router[q] /\ kept'[q] = kept[q]
    BY <1>1, <1>2 DEF RoutersOK
  <2>2. router'[r] = "freed"
    BY <1>1, <1>2 DEF RoutersOK
  <2>3. SeenRouter(router'[r], kept'[r]) = Promise!NoRouter
    BY <2>2, DeadIsNoRouter
  <2> QED BY <2>1, <2>3 DEF SeenRouters
<1>5. SeenRouters(router, kept)[r].live
  BY <1>1 DEF SeenRouters, SeenRouter
<1>6. Promise!FreeRouter(r)
  BY <1>3, <1>4, <1>5, Seen DEF Promise!FreeRouter
<1> QED BY <1>1, <1>6, WorksAsPromised

LEMMA InitPromised == LifeInit => Promise!OwnInit
<1> SUFFICES ASSUME LifeInit PROVE Promise!OwnInit
  OBVIOUS
<1>1. builder = "absent" /\ fault = "none" /\ router = [r \in Routers |-> "absent"]
      /\ refs = [c \in Contexts |-> 0]
  BY DEF LifeInit, Init
<1>2. HeldByBuilder = Promise!NoBuilder
  BY <1>1, Seen, ClosedIsNoBuilder
<1>3. [r \in Routers |-> HeldByRouter(r)] = [r \in Routers |-> Promise!NoRouter]
  BY <1>1, Seen, DeadIsNoRouter DEF SeenRouters
<1> QED BY <1>1, <1>2, <1>3 DEF Promise!OwnInit, Promise!Nothing

LEMMA StepPromised == LInv /\ LInv' /\ [LifeNext]_allVars => [Promise!OwnNext]_(Promise!ownVars)
<1> SUFFICES ASSUME LInv, LInv', [LifeNext]_allVars PROVE [Promise!OwnNext]_(Promise!ownVars)
  OBVIOUS
<1>1. CASE CreateBuilder
  BY <1>1, CreatePromised
<1>2. CASE CreateBuilderFails
  BY <1>2, CreateFailsPromised
<1>3. CASE Build
  BY <1>3, BuildPromised
<1>4. CASE FreeBuilder
  BY <1>4, DestroyPromised DEF FreeBuilder, Idle
<1>5. CASE ConsumeEnds
  <2>1. builder = "open"
    BY <1>5 DEF LInv, Phases, ConsumeEnds
  <2> QED BY <1>5, <2>1, DestroyPromised DEF ConsumeEnds
<1>6. CASE \E r \in Routers : FreeRouter(r)
  BY <1>6, FreeRouterPromised
<1>7. CASE \E r \in Routers, consume \in BOOLEAN : CompileSucceeds(r, consume)
  BY <1>7, CompilePromised
<1>8. CASE \E r \in Routers, consume \in BOOLEAN :
             CompileRefused(r, consume) \/ CompileOutOfRange(r, consume) \/ CompileOutOfMemory(r, consume)
  BY <1>8, CompileFailsPromised
<1>9. CASE UNCHANGED allVars
  <2>1. UNCHANGED <<tree, corrupted, builder, router, kept, refs, fault>>
    BY <1>9 DEF allVars, vars, lifeVars
  <2> QED BY <2>1, NothingSeen
<1> QED BY <1>1, <1>2, <1>3, <1>4, <1>5, <1>6, <1>7, <1>8, <1>9 DEF LifeNext

(* Clients may rely on the operators of Api: every behaviour of the        *)
(* library is one that Ownership allows.                                   *)
THEOREM OwnershipImplemented == LifeSpec => ImplementsOwnership
<1>1. LInv /\ [LifeNext]_allVars => [Promise!OwnNext]_(Promise!ownVars)
  BY NextLInv, StepPromised
<1> QED BY <1>1, InitPromised, CountsBalance, PTL DEF LifeSpec, ImplementsOwnership, Promise!OwnSpec

-----------------------------------------------------------------------------
(* Part 5.                                                                 *)
-----------------------------------------------------------------------------
(* A list of the numbers of S that climbs is S in order.                   *)
Climbs(g, m, S) ==
    /\ S \subseteq Nat /\ m \in Nat /\ g \in [1..m -> S]
    /\ \A a, b \in 1..m : a < b => g[a] < g[b]
    /\ \A i \in S : \E a \in 1..m : g[a] = i

LEMMA ClimbsOrdered ==
    ASSUME NEW S, NEW m, NEW g, Climbs(g, m, S)
    PROVE  Ordered(S) = g
<1> USE DEF Climbs
<1>1. ASSUME NEW a \in 1..m, NEW b \in 1..m
      PROVE  /\ g[a] < g[b] => a < b
             /\ g[a] = g[b] => a = b
  <2>1. g[a] \in Nat /\ g[b] \in Nat
    OBVIOUS
  <2>2. b < a => g[b] < g[a]
    OBVIOUS
  <2>3. a < b => g[a] < g[b]
    OBVIOUS
  <2>4. a < b \/ a = b \/ b < a
    OBVIOUS
  <2> QED BY ONLY <2>1, <2>2, <2>3, <2>4
<1>2. \A a, b \in 1..m : g[a] = g[b] => a = b
  BY <1>1
<1>3. Cardinality(S) = m
  <2>1. g \in Bijection(1..m, S)
    BY <1>2 DEF Bijection, Injection, Surjection, IsInjective
  <2>2. ExistsBijection(1..m, S)
    BY <2>1 DEF ExistsBijection
  <2> QED BY <2>2, FS_CountingElements
<1> DEFINE below(i) == {j \in S : j < i}
<1>4. ASSUME NEW n \in 1..m PROVE Cardinality(below(g[n])) = n - 1
  <2> DEFINE h == [a \in 1..(n - 1) |-> g[a]]
             B == below(g[n])
  <2>1. n - 1 \in Nat /\ \A a \in 1..(n - 1) : a \in 1..m /\ a < n /\ h[a] = g[a]
    OBVIOUS
  <2>2. \A a \in 1..(n - 1) : h[a] \in B
    BY <2>1
  <2>3. ASSUME NEW i \in B PROVE \E a \in 1..(n - 1) : h[a] = i
    <3>1. PICK a \in 1..m : g[a] = i
      OBVIOUS
    <3>2. a < n
      BY <1>1, <3>1, <2>3
    <3>3. a \in 1..(n - 1)
      BY <3>2
    <3> QED BY <3>1, <3>3, <2>1
  <2>4. \A a, b \in 1..(n - 1) : h[a] = h[b] => a = b
    BY <1>2, <2>1
  <2>5. h \in [1..(n - 1) -> B]
    BY <2>2
  <2> HIDE DEF h, B
  <2>6. DOMAIN h = 1..(n - 1)
    BY <2>5
  <2>7. h \in Bijection(1..(n - 1), B)
    BY <2>3, <2>4, <2>5, <2>6 DEF Bijection, Injection, Surjection, IsInjective
  <2>8. ExistsBijection(1..(n - 1), B)
    BY <2>7 DEF ExistsBijection
  <2>9. Cardinality(B) = n - 1
    BY <2>1, <2>8, FS_CountingElements
  <2> QED BY <2>9 DEF B
<1> HIDE DEF below
<1>5. ASSUME NEW n \in 1..m PROVE (CHOOSE i \in S : Cardinality(below(i)) = n - 1) = g[n]
  <2>1. g[n] \in S /\ Cardinality(below(g[n])) = n - 1
    BY <1>4
  <2>2. ASSUME NEW i \in S, Cardinality(below(i)) = n - 1 PROVE i = g[n]
    <3>1. PICK a \in 1..m : g[a] = i
      OBVIOUS
    <3>2. a - 1 = n - 1
      BY <1>4, <2>2, <3>1
    <3>3. a = n
      BY <3>2
    <3> QED BY <3>1, <3>3
  <2> QED BY <2>1, <2>2
<1>6. Ordered(S) = [n \in 1..m |-> CHOOSE i \in S : Cardinality(below(i)) = n - 1]
  BY <1>3 DEF Ordered, below
<1>7. g = [n \in 1..m |-> g[n]]
  OBVIOUS
<1> QED BY <1>5, <1>6, <1>7

-----------------------------------------------------------------------------
(* Route r goes on from segment k with x.                                  *)
Passes(k, x, r) == IsStrictPrefix(k, r) /\ r[Len(k) + 1] = x

(* The list rs holds the routes of tree t, and cs their contexts.          *)
Records(t, rs, cs) ==
    /\ rs \in Seq(Seq(Token))
    /\ \A i \in DOMAIN rs : rs[i] \in Held(t) /\ HeldContext(t, rs[i]) = cs[i]
    /\ \A r \in Held(t) : \E i \in DOMAIN rs : rs[i] = r

(* A route that needs a child of a segment comes after some route that     *)
(* needs the child before it.                                              *)
OldestFirst(t, rs) ==
    \A k \in DOMAIN t : \A a, b \in DOMAIN t[k].children : a < b =>
        \A j \in DOMAIN rs : Passes(k, Lit(t[k].children[b]), rs[j]) =>
            \E i \in DOMAIN rs : i < j /\ Passes(k, Lit(t[k].children[a]), rs[i])

(* A sound tree and a list of its routes.                                  *)
Recorded(t, rs, cs) ==
    /\ Shape(t) /\ NoDeadEnds(t, Root) /\ NoNulls(t) /\ DistinctChildren(t)
    /\ Records(t, rs, cs) /\ OldestFirst(t, rs)

LEMMA StrictPrefixIs ==
    ASSUME NEW k, k \in Seq(Token), NEW r, r \in Seq(Token)
    PROVE  IsStrictPrefix(k, r) <=> (Len(r) > Len(k) /\ Prefix(r, Len(k)) = k)
<1>1. Len(k) \in Nat /\ Len(r) \in Nat
  BY LenProperties
<1>2. SubSeq(k, 1, Len(k)) = k /\ SubSeq(r, 1, Len(r)) = r
  BY SubSeqFull
<1>3. IsStrictPrefix(k, r) <=> (Len(k) <= Len(r) /\ k = SubSeq(r, 1, Len(k)) /\ k # r)
  BY <1>2 DEF IsStrictPrefix, IsPrefix
<1>4. Len(k) = Len(r) => SubSeq(r, 1, Len(k)) = r
  BY <1>2
<1>5. Len(r) > Len(k) => k # r
  BY <1>1
<1>6. Len(k) <= Len(r) => Len(k) = Len(r) \/ Len(r) > Len(k)
  BY <1>1
<1>7. Len(r) > Len(k) => Len(k) <= Len(r)
  BY <1>1
<1> QED BY <1>3, <1>4, <1>5, <1>6, <1>7, Zenon DEF Prefix

(* A route passes a segment by one of its ways, and ends on one.           *)
LEMMA PassesByWay ==
    ASSUME NEW t, Shape(t), NEW k, k \in DOMAIN t, NEW r, r \in Held(t), IsStrictPrefix(k, r)
    PROVE  r[Len(k) + 1] \in Ways(t, k)
<1>1. k \in Seq(Token) /\ r \in Seq(Token)
  BY SegmentNames, HeldTokens DEF Shape
<1>2. Len(r) > Len(k) /\ Prefix(r, Len(k)) = k
  BY <1>1, StrictPrefixIs
<1> QED BY <1>2, FollowersOnWays

(* Every way is passed in a tree without dead ends.                        *)
LEMMA WayPassed ==
    ASSUME NEW t, Shape(t), NoDeadEnds(t, Root), NEW k, k \in DOMAIN t, NEW x, x \in Ways(t, k)
    PROVE  \E r \in Held(t) : Passes(k, x, r)
<1>1. ASSUME NEW q \in DOMAIN t
      PROVE  IsPrefix(q, k) \/ \E r \in Held(t) : IsStrictPrefix(q, r)
  <2>1. CASE IsPrefix(q, Root)
    <3>1. q \in Seq(Token) /\ k \in Seq(Token) /\ Root \in Seq(Token) /\ End \in Token
      BY SegmentNames, TerminatorsDiffer DEF Shape, TreeType
    <3>2. q = <<>>
      BY <2>1, <3>1, PrefixOfAppend DEF Root
    <3>3. Len(q) = 0 /\ Len(k) \in Nat
      BY <3>1, <3>2, EmptySeq, LenProperties
    <3>4. SubSeq(q, 1, Len(q)) = q /\ SubSeq(k, 1, Len(q)) = q
      <4>1. Prefix(k, 0) \in Seq(Token) /\ Len(Prefix(k, 0)) = 0
        <5>1. 0 \in 0..Len(k)
          BY <3>3
        <5> QED BY <3>1, <5>1, PrefixProperties
      <4>2. Prefix(k, 0) = <<>>
        BY <4>1, EmptySeq
      <4> QED BY <3>1, <3>2, <3>3, <4>2, SubSeqFull DEF Prefix
    <3> QED BY <3>3, <3>4 DEF IsPrefix
  <2>2. CASE ~IsPrefix(q, Root)
    BY <2>2 DEF NoDeadEnds
  <2> QED BY <2>1, <2>2
<1>2. NoDeadEnds(t, k)
  BY <1>1 DEF NoDeadEnds
<1>3. PICK r \in Held(t) : Len(r) > Len(k) /\ Prefix(r, Len(k)) = k /\ r[Len(k) + 1] = x
  BY <1>2, WaysFollowed
<1>4. k \in Seq(Token) /\ r \in Seq(Token)
  BY SegmentNames, HeldTokens DEF Shape
<1>5. IsStrictPrefix(k, r)
  BY <1>3, <1>4, StrictPrefixIs
<1> QED BY <1>3, <1>5 DEF Passes

LEMMA WaysRecorded ==
    ASSUME NEW t, NEW rs, NEW cs, Recorded(t, rs, cs), NEW k, k \in DOMAIN t
    PROVE  /\ \A i \in After(rs, k) : StepFrom(rs, k, i) \in Ways(t, k)
           /\ \A x \in Ways(t, k) : \E i \in After(rs, k) : StepFrom(rs, k, i) = x
           /\ \A x, i : i \in After(rs, k) /\ StepFrom(rs, k, i) = x <=> i \in DOMAIN rs /\ Passes(k, x, rs[i])
<1>1. \A i \in DOMAIN rs : rs[i] \in Held(t)
  BY DEF Recorded, Records
<1>2. ASSUME NEW i \in After(rs, k) PROVE StepFrom(rs, k, i) \in Ways(t, k)
  BY <1>1, PassesByWay DEF Recorded, After, StepFrom
<1>3. ASSUME NEW x \in Ways(t, k) PROVE \E i \in After(rs, k) : StepFrom(rs, k, i) = x
  <2>1. PICK r \in Held(t) : Passes(k, x, r)
    BY WayPassed DEF Recorded
  <2>2. PICK i \in DOMAIN rs : rs[i] = r
    BY DEF Recorded, Records
  <2> QED BY <2>1, <2>2 DEF Passes, After, StepFrom
<1>4. \A x, i : i \in After(rs, k) /\ StepFrom(rs, k, i) = x <=> i \in DOMAIN rs /\ Passes(k, x, rs[i])
  BY DEF Passes, After, StepFrom
<1> QED BY <1>2, <1>3, <1>4

-----------------------------------------------------------------------------
(* The parts of TreeOf.                                                    *)

LEMMA WaysAreSegments ==
    ASSUME NEW t, NEW rs, NEW cs, Recorded(t, rs, cs)
    PROVE  WaysTo(rs) = DOMAIN t
<1>1. TreeType(t) /\ Paths(t) /\ Root \in DOMAIN t
  BY DEF Recorded, Shape, TreeType
<1>2. ASSUME NEW k \in DOMAIN t, k # Root PROVE k \in WaysTo(rs)
  <2>1. ~IsPrefix(k, Root)
    <3>1. k \in Seq(Token) /\ Root \in Seq(Token) /\ End \in Token
      BY <1>1, SegmentNames, TerminatorsDiffer
    <3> QED BY <1>2, <3>1, PrefixOfAppend DEF Root
  <2>2. PICK r \in Held(t) : IsStrictPrefix(k, r)
    BY <2>1 DEF Recorded, NoDeadEnds
  <2>3. PICK i \in DOMAIN rs : rs[i] = r
    BY DEF Recorded, Records
  <2>4. k \in Seq(Token) /\ r \in Seq(Token)
    BY <1>1, SegmentNames, HeldTokens
  <2>5. Len(r) > Len(k) /\ Prefix(r, Len(k)) = k
    BY <2>2, <2>4, StrictPrefixIs
  <2>6. Len(k) \in 0..(Len(rs[i]) - 1)
    <3>1. Len(k) \in Nat /\ Len(r) \in Nat
      BY <2>4, LenProperties
    <3> QED BY <2>3, <2>5, <3>1
  <2> QED BY <2>3, <2>5, <2>6 DEF WaysTo
<1>3. ASSUME NEW i \in DOMAIN rs, NEW n \in 0..(Len(rs[i]) - 1) PROVE Prefix(rs[i], n) \in DOMAIN t
  <2>1. rs[i] \in Held(t)
    BY DEF Recorded, Records
  <2>2. PICK k \in DOMAIN t, z \in Terminator : rs[i] = Append(k, z)
    BY <2>1, HeldSlots
  <2>3. k \in Seq(Token) /\ z \in Token /\ Len(k) \in Nat
    BY <1>1, SegmentNames DEF Token
  <2>4. Len(rs[i]) = Len(k) + 1
    BY <2>2, <2>3, AppendProperties
  <2>5. n \in 0..Len(k)
    BY <2>3, <2>4
  <2>6. Prefix(rs[i], n) = Prefix(k, n)
    BY <2>2, <2>3, <2>5, PrefixAppend
  <2>7. CASE n = Len(k)
    BY <2>3, <2>6, <2>7, PrefixFull
  <2>8. CASE n # Len(k)
    <3>1. n + 1 \in 1..Len(k) /\ (n + 1) - 1 = n
      BY <2>3, <2>5, <2>8
    <3>2. Leads(t, Prefix(k, (n + 1) - 1), k[n + 1])
      BY <1>1, <3>1 DEF Paths
    <3> QED BY <2>6, <3>1, <3>2 DEF Leads
  <2> QED BY <2>7, <2>8
<1>4. ASSUME NEW k
      PROVE  k \in WaysTo(rs) <=>
                k = Root \/ \E i \in DOMAIN rs : \E n \in 0..(Len(rs[i]) - 1) : k = Prefix(rs[i], n)
  BY DEF WaysTo
<1>5. \A k : k \in WaysTo(rs) <=> k \in DOMAIN t
  BY <1>1, <1>2, <1>3, <1>4
<1> QED BY <1>5

LEMMA ParamOfSegment ==
    ASSUME NEW t, NEW rs, NEW cs, Recorded(t, rs, cs), NEW k, k \in DOMAIN t
    PROVE  ParamsFrom(rs, k) = {t[k].param} \ {NoName}
<1>1. /\ t[k] \in Segment /\ t[k].param \in Names \cup {NoName} /\ Shape(t)
  BY DEF Recorded, Shape, TreeType, Segment
<1>2. Params \cap Terminator = {} /\ Params \cap Literals = {} /\ \A n : Par(n).str = n
  BY DEF Params, Literals, Terminator, Lit, Par, Wildcard, Trailing, End
<1>3. ASSUME NEW i \in After(rs, k), StepFrom(rs, k, i) \in Params
      PROVE  StepFrom(rs, k, i).str = t[k].param /\ t[k].param # NoName
  <2>1. StepFrom(rs, k, i) \in Ways(t, k)
    BY WaysRecorded
  <2>2. StepFrom(rs, k, i) = Par(t[k].param)
    BY <1>2, <1>3, <2>1 DEF Ways, Leads
  <2>3. Par(NoName) \notin Params
    BY NamesAssumption DEF Params, Par, NoName
  <2> QED BY <1>2, <1>3, <2>2, <2>3
<1>4. ASSUME t[k].param # NoName
      PROVE  \E i \in After(rs, k) : StepFrom(rs, k, i) \in Params /\ StepFrom(rs, k, i).str = t[k].param
  <2>1. Par(t[k].param) \in Params /\ Par(t[k].param) \in Step
    BY <1>1, <1>4, TokenTypes
  <2>2. Par(t[k].param) \in Ways(t, k)
    BY <2>1 DEF Ways, Leads
  <2>3. PICK i \in After(rs, k) : StepFrom(rs, k, i) = Par(t[k].param)
    BY <2>2, WaysRecorded
  <2> QED BY <1>2, <2>1, <2>3
<1>5. \A n : n \in ParamsFrom(rs, k) <=> \E i \in After(rs, k) : StepFrom(rs, k, i) \in Params /\ n = StepFrom(rs, k, i).str
  BY Zenon DEF ParamsFrom
<1> QED BY <1>3, <1>4, <1>5

LEMMA ContextOfSegment ==
    ASSUME NEW t, NEW rs, NEW cs, Recorded(t, rs, cs), NEW k, k \in DOMAIN t, NEW z, z \in Terminator
    PROVE  ContextGiven(rs, cs, Append(k, z)) = Slot(t[k], z)
<1> DEFINE r == Append(k, z)
           i == CHOOSE n \in DOMAIN rs : rs[n] = r
<1>1. /\ r \in Held(t) <=> Slot(t[k], z) # NULL
      /\ HeldContext(t, r) = Slot(t[k], z)
  BY ContextOfSlot DEF Recorded, Shape
<1>2. r \in ToSet(rs) <=> r \in Held(t)
  BY DEF Recorded, Records, ToSet
<1>3. CASE r \in Held(t)
  <2>1. \E n \in DOMAIN rs : rs[n] = r
    BY <1>3 DEF Recorded, Records
  <2>2. i \in DOMAIN rs /\ rs[i] = r
    BY <2>1
  <2> HIDE DEF i
  <2>3. cs[i] = HeldContext(t, r)
    BY <2>2 DEF Recorded, Records
  <2>4. ContextGiven(rs, cs, r) = cs[i]
    BY <1>2, <1>3 DEF ContextGiven, i
  <2> QED BY <1>1, <2>3, <2>4
<1>4. CASE r \notin Held(t)
  BY <1>1, <1>2, <1>4 DEF ContextGiven
<1> QED BY <1>3, <1>4

-----------------------------------------------------------------------------
(* The first route to need the n-th child of a segment.                    *)
FirstWith(rs, k, x, i) ==
    /\ i \in After(rs, k) /\ StepFrom(rs, k, i) = x
    /\ \A j \in After(rs, k) : StepFrom(rs, k, j) = x => i <= j

LEMMA ChildrenAreWays ==
    ASSUME NEW t, NEW rs, NEW cs, Recorded(t, rs, cs), NEW k, k \in DOMAIN t
    PROVE  /\ t[k].children \in Seq(Names) /\ Len(t[k].children) \in Nat
           /\ DOMAIN t[k].children = 1..Len(t[k].children)
           /\ \A n \in DOMAIN t[k].children :
                 /\ t[k].children[n] \in Names /\ Lit(t[k].children[n]) \in Literals
                 /\ Lit(t[k].children[n]) \in Ways(t, k)
           /\ \A x \in Ways(t, k) \cap Literals : \E n \in DOMAIN t[k].children : x = Lit(t[k].children[n])
<1> DEFINE c == t[k].children
<1>1. c \in Seq(Names) /\ Len(c) \in Nat /\ DOMAIN c = 1..Len(c)
  <2>1. c \in Seq(Names)
    BY DEF Recorded, Shape, TreeType, Segment
  <2> QED BY <2>1, LenProperties
<1>2. ASSUME NEW n \in DOMAIN c
      PROVE  c[n] \in Names /\ Lit(c[n]) \in Literals /\ Lit(c[n]) \in Ways(t, k)
  <2>1. c[n] \in Names /\ n \in 1..Len(c)
    BY <1>1, ElementOfSeq
  <2>2. Lit(c[n]) \in Literals /\ Lit(c[n]) \in Step /\ Lit(c[n]).str = c[n]
    BY <2>1, TokenTypes DEF Lit
  <2>3. FindChild(t, k, c[n])
    BY <2>1 DEF FindChild, Contains
  <2> QED BY <2>1, <2>2, <2>3 DEF Ways, Leads
<1>3. ASSUME NEW x \in Ways(t, k) \cap Literals PROVE \E n \in DOMAIN c : x = Lit(c[n])
  <2>1. x \notin Terminator /\ x # Par(t[k].param) /\ x = Lit(x.str)
    BY DEF Literals, Lit, Par, Terminator, Wildcard, Trailing, End
  <2>2. FindChild(t, k, x.str)
    BY <2>1 DEF Ways, Leads
  <2>3. PICK n \in 1..Len(c) : c[n] = x.str
    BY <2>2 DEF FindChild, Contains
  <2> QED BY <1>1, <2>1, <2>3
<1> QED BY <1>1, <1>2, <1>3

(* The children of a segment are the literals of the routes that need them *)
(* first, in the order of those routes.                                    *)
LEMMA ChildrenOfSegment ==
    ASSUME NEW t, NEW rs, NEW cs, Recorded(t, rs, cs), NEW k, k \in DOMAIN t
    PROVE  LET order == Ordered(FirstUses(rs, k))
           IN  t[k].children = [n \in DOMAIN order |-> StepFrom(rs, k, order[n]).str]
<1> DEFINE c == t[k].children
           m == Len(c)
           S == FirstUses(rs, k)
           A == After(rs, k)
           step(i) == StepFrom(rs, k, i)
           g == [n \in 1..m |-> CHOOSE i \in A : FirstWith(rs, k, Lit(c[n]), i)]
<1>1. /\ c \in Seq(Names) /\ m \in Nat /\ DOMAIN c = 1..m
      /\ \A n \in 1..m : c[n] \in Names /\ Lit(c[n]) \in Literals /\ Lit(c[n]) \in Ways(t, k)
      /\ \A x \in Ways(t, k) \cap Literals : \E n \in 1..m : x = Lit(c[n])
  BY ChildrenAreWays
<1>2. /\ \A i \in A : step(i) \in Ways(t, k)
      /\ \A x \in Ways(t, k) : \E i \in A : step(i) = x
      /\ \A x, i : i \in A /\ step(i) = x <=> i \in DOMAIN rs /\ Passes(k, x, rs[i])
  BY WaysRecorded
<1>3. A \subseteq Nat
  <2>1. DOMAIN rs = 1..Len(rs) /\ Len(rs) \in Nat
    BY LenProperties DEF Recorded, Records
  <2> QED BY <2>1 DEF After
<1>4. ASSUME NEW n \in 1..m PROVE g[n] \in A /\ FirstWith(rs, k, Lit(c[n]), g[n])
  <2> DEFINE T == {i \in A : step(i) = Lit(c[n])}
  <2>1. T # {}
    BY <1>1, <1>2
  <2>2. PICK i \in T : \A j \in T : i <= j
    BY <1>3, <2>1, LeastNat
  <2>3. i \in A /\ FirstWith(rs, k, Lit(c[n]), i)
    BY <2>2 DEF FirstWith
  <2>4. g[n] = CHOOSE j \in A : FirstWith(rs, k, Lit(c[n]), j)
    OBVIOUS
  <2> HIDE DEF g, A
  <2> QED BY <2>3, <2>4
<1> HIDE DEF g
<1>5. \A n \in 1..m : /\ g[n] \in A /\ g[n] \in Nat /\ step(g[n]) = Lit(c[n])
                      /\ \A j \in A : step(j) = Lit(c[n]) => g[n] <= j
  BY <1>3, <1>4 DEF FirstWith
<1>6. ASSUME NEW n \in 1..m PROVE g[n] \in S
  <2>1. g[n] \in A /\ step(g[n]) \in Literals
    BY <1>1, <1>5
  <2>2. ASSUME NEW j \in A, j < g[n] PROVE step(j) # step(g[n])
    <3>1. j \in Nat /\ g[n] \in Nat /\ ~(g[n] <= j)
      BY <1>3, <1>5, <2>2
    <3> QED BY <1>5, <3>1
  <2> QED BY <2>1, <2>2 DEF FirstUses
<1>7. ASSUME NEW i \in S PROVE \E n \in 1..m : g[n] = i
  <2>1. i \in A /\ step(i) \in Literals /\ \A j \in A : j < i => step(j) # step(i)
    BY DEF FirstUses
  <2>2. PICK n \in 1..m : step(i) = Lit(c[n])
    BY <1>1, <1>2, <2>1
  <2>3. g[n] <= i /\ ~(g[n] < i) /\ g[n] \in Nat /\ i \in Nat
    BY <1>3, <1>5, <2>1, <2>2
  <2> QED BY <2>3
<1>8. ASSUME NEW a \in 1..m, NEW b \in 1..m, a < b PROVE g[a] < g[b]
  <2>1. g[b] \in DOMAIN rs /\ Passes(k, Lit(c[b]), rs[g[b]])
    BY <1>2, <1>5
  <2>2. PICK i \in DOMAIN rs : i < g[b] /\ Passes(k, Lit(c[a]), rs[i])
    BY <1>1, <1>8, <2>1 DEF Recorded, OldestFirst
  <2>3. i \in A /\ step(i) = Lit(c[a])
    BY <1>2, <2>2
  <2>4. g[a] <= i /\ i \in Nat /\ g[a] \in Nat /\ g[b] \in Nat
    BY <1>3, <1>5, <2>3
  <2> QED BY <2>2, <2>4
<1>9. Ordered(S) = g
  <2>1. S \subseteq Nat
    BY <1>3 DEF FirstUses
  <2>2. g = [n \in 1..m |-> g[n]]
    BY DEF g
  <2>3. g \in [1..m -> S]
    BY <1>6, <2>2
  <2>4. m \in Nat /\ \A a, b \in 1..m : a < b => g[a] < g[b]
    BY <1>1, <1>8
  <2>5. \A i \in S : \E a \in 1..m : g[a] = i
    BY <1>7
  <2> HIDE DEF S, m
  <2>6. Climbs(g, m, S)
    BY <2>1, <2>3, <2>4, <2>5 DEF Climbs
  <2> QED BY <2>6, ClimbsOrdered
<1>10. DOMAIN g = 1..m /\ \A n \in 1..m : step(g[n]).str = c[n]
  <2>1. \A n : Lit(n).str = n
    BY DEF Lit
  <2>2. DOMAIN g = 1..m
    BY DEF g
  <2> QED BY <1>5, <2>1, <2>2
<1> DEFINE d == [n \in 1..m |-> c[n]]
<1>11. c = d
  <2>1. c = [n \in DOMAIN c |-> c[n]]
    BY <1>1
  <2> QED BY <1>1, <2>1
<1>12. d = [n \in DOMAIN g |-> step(g[n]).str]
  BY <1>10
<1> QED BY <1>9, <1>11, <1>12, Zenon

LEMMA SegmentParts ==
    ASSUME NEW s, s \in Segment, NEW u, u \in Segment,
           s.children = u.children, s.spec = u.spec, s.param = u.param,
           s.wildcard = u.wildcard, s.trailing = u.trailing, s.terminal = u.terminal
    PROVE  s = u
BY DEF Segment

LEMMA CanonicalSegment ==
    ASSUME NEW t, NEW rs, NEW cs, Recorded(t, rs, cs), NEW k, k \in DOMAIN t
    PROVE  SegmentOf(rs, cs, k) = t[k]
<1> DEFINE order == Ordered(FirstUses(rs, k))
           names == ParamsFrom(rs, k)
           context(z) == ContextGiven(rs, cs, Append(k, z))
           kids == [n \in DOMAIN order |-> StepFrom(rs, k, order[n]).str]
           spec == IF names # {} THEN "SPEC_PARAM"
                   ELSE IF context(Wildcard) # NULL THEN "SPEC_WILDCARD" ELSE "SPEC_NONE"
           param == IF names # {} THEN CHOOSE n \in names : TRUE ELSE NoName
<1>1. t[k] \in Segment
  BY DEF Recorded, Shape, TreeType
<1>2. t[k].children = kids
  BY ChildrenOfSegment
<1>3. names = {t[k].param} \ {NoName}
  BY ParamOfSegment
<1>4. context(Wildcard) = t[k].wildcard /\ context(Trailing) = t[k].trailing /\ context(End) = t[k].terminal
  <2>1. \A z \in Terminator : context(z) = Slot(t[k], z)
    BY ContextOfSegment
  <2> HIDE DEF context
  <2> QED BY <2>1, TerminatorsDiffer DEF Slot, Terminator
<1>5. param = t[k].param
  BY <1>3
<1>6. spec = t[k].spec
  <2>1. /\ t[k].param # NoName <=> t[k].spec = "SPEC_PARAM"
        /\ t[k].wildcard # NULL <=> t[k].spec = "SPEC_WILDCARD"
        /\ t[k].spec \in {"SPEC_NONE", "SPEC_PARAM", "SPEC_WILDCARD"}
    BY <1>1 DEF Recorded, Shape, Exclusive, NoNulls, Segment
  <2>2. names # {} <=> t[k].param # NoName
    BY <1>3
  <2> HIDE DEF names, context
  <2> QED BY <1>4, <2>1, <2>2
<1> DEFINE u == [children |-> kids, spec |-> spec, param |-> param, wildcard |-> context(Wildcard),
                 trailing |-> context(Trailing), terminal |-> context(End)]
<1>7. SegmentOf(rs, cs, k) = u
  BY Zenon DEF SegmentOf
<1> HIDE DEF kids, spec, param, context
<1>8. u \in Segment
  BY <1>1, <1>2, <1>4, <1>5, <1>6 DEF Segment
<1>9. /\ u.children = t[k].children /\ u.spec = t[k].spec /\ u.param = t[k].param
      /\ u.wildcard = t[k].wildcard /\ u.trailing = t[k].trailing /\ u.terminal = t[k].terminal
  BY <1>2, <1>4, <1>5, <1>6
<1> HIDE DEF u
<1>10. u = t[k]
  BY <1>1, <1>8, <1>9, SegmentParts
<1> QED BY <1>7, <1>10

LEMMA CanonicalTree ==
    ASSUME NEW t, NEW rs, NEW cs, Recorded(t, rs, cs)
    PROVE  t = TreeOf(rs, cs)
<1>1. WaysTo(rs) = DOMAIN t
  BY WaysAreSegments
<1>2. \A k \in DOMAIN t : SegmentOf(rs, cs, k) = t[k]
  BY CanonicalSegment
<1>3. t = [k \in DOMAIN t |-> t[k]]
  BY DEF Recorded, Shape, TreeType
<1>4. TreeOf(rs, cs) = [k \in DOMAIN t |-> SegmentOf(rs, cs, k)]
  BY <1>1 DEF TreeOf
<1>5. [k \in DOMAIN t |-> SegmentOf(rs, cs, k)] = [k \in DOMAIN t |-> t[k]]
  BY <1>2
<1> QED BY <1>3, <1>4, <1>5

-----------------------------------------------------------------------------
(* What a step does to the list and to the order of children.              *)

LEMMA RecordsAdded ==
    ASSUME NEW t, NEW u, TreeType(t), NEW rs, NEW cs, Records(t, rs, cs),
           NEW r, r \in Seq(Token), NEW c, c \in Contexts, cs \in Seq(Contexts), Len(cs) = Len(rs),
           Held(u) = Held(t) \cup {r}, HeldContext(u, r) = c,
           \A s \in Held(t) : HeldContext(u, s) = HeldContext(t, s)
    PROVE  Records(u, Append(rs, r), Append(cs, c))
<1>1. /\ Append(rs, r) \in Seq(Seq(Token)) /\ DOMAIN Append(rs, r) = 1..(Len(rs) + 1)
      /\ Len(rs) \in Nat /\ DOMAIN rs = 1..Len(rs)
      /\ \A i \in 1..Len(rs) : Append(rs, r)[i] = rs[i]
      /\ Append(rs, r)[Len(rs) + 1] = r
  <2>1. rs \in Seq(Seq(Token))
    BY DEF Records
  <2> QED BY <2>1, AppendProperties, LenProperties
<1>2. \A i \in 1..Len(rs) : Append(cs, c)[i] = cs[i]
  BY AppendProperties
<1>3. Append(cs, c)[Len(rs) + 1] = c
  BY AppendProperties
<1> DEFINE rs2 == Append(rs, r)
           cs2 == Append(cs, c)
<1> HIDE DEF rs2, cs2
<1>4. ASSUME NEW i \in 1..(Len(rs) + 1) PROVE rs2[i] \in Held(u) /\ HeldContext(u, rs2[i]) = cs2[i]
  <2>1. CASE i = Len(rs) + 1
    BY <1>1, <1>3, <2>1 DEF rs2, cs2
  <2>2. CASE i # Len(rs) + 1
    <3>1. i \in DOMAIN rs /\ i \in 1..Len(rs)
      BY <1>1, <2>2
    <3>2. rs[i] \in Held(t) /\ HeldContext(t, rs[i]) = cs[i]
      BY <3>1 DEF Records
    <3> QED BY <1>1, <1>2, <3>1, <3>2 DEF rs2, cs2
  <2> QED BY <2>1, <2>2
<1>5. ASSUME NEW s \in Held(u) PROVE \E i \in 1..(Len(rs) + 1) : rs2[i] = s
  <2>1. CASE s = r
    <3>1. Len(rs) + 1 \in 1..(Len(rs) + 1)
      BY <1>1
    <3> QED BY <1>1, <2>1, <3>1 DEF rs2
  <2>2. CASE s \in Held(t)
    <3>1. PICK i \in DOMAIN rs : rs[i] = s
      BY <2>2 DEF Records
    <3>2. i \in 1..(Len(rs) + 1) /\ i \in 1..Len(rs)
      BY <1>1
    <3> QED BY <1>1, <3>1, <3>2 DEF rs2
  <2> QED BY <2>1, <2>2
<1>6. rs2 \in Seq(Seq(Token)) /\ DOMAIN rs2 = 1..(Len(rs) + 1)
  BY <1>1 DEF rs2
<1>7. Records(u, rs2, cs2)
  BY <1>4, <1>5, <1>6 DEF Records
<1> QED BY <1>7 DEF rs2, cs2

SameChildren(t, u) ==
    DOMAIN u = DOMAIN t /\ \A k \in DOMAIN t : u[k].children = t[k].children

LEMMA OrderKept ==
    ASSUME NEW t, NEW u, SameChildren(t, u), NEW rs, OldestFirst(t, rs)
    PROVE  OldestFirst(u, rs)
BY DEF SameChildren, OldestFirst

(* A route is added: where it needs a child, each child before it is on    *)
(* the way of some older route, for the walk had to take another way.      *)
LEMMA OrderAdded ==
    ASSUME NEW t, Shape(t), NEW k, k \in DOMAIN t, NoDeadEnds(t, k), DistinctChildren(t),
           NEW rs, NEW cs, Records(t, rs, cs), OldestFirst(t, rs), NEW z, z \in Terminator
    PROVE  OldestFirst(t, Append(rs, Append(k, z)))
<1> DEFINE r == Append(k, z)
           rs2 == Append(rs, r)
<1>1. /\ k \in Seq(Token) /\ k \in Seq(Step) /\ Len(k) \in Nat /\ z \in Token /\ r \in Seq(Token)
      /\ Len(r) = Len(k) + 1 /\ r[Len(k) + 1] = z /\ \A i \in 1..Len(k) : r[i] = k[i]
  <2>1. k \in Seq(Token) /\ k \in Seq(Step) /\ Len(k) \in Nat /\ z \in Token
    BY SegmentNames DEF Shape, Token
  <2> QED BY <2>1, AppendProperties
<1>2. /\ DOMAIN rs2 = 1..(Len(rs) + 1) /\ Len(rs) \in Nat /\ DOMAIN rs = 1..Len(rs)
      /\ \A i \in 1..Len(rs) : rs2[i] = rs[i]
      /\ rs2[Len(rs) + 1] = r
  <2>1. rs \in Seq(Seq(Token))
    BY DEF Records
  <2> QED BY <1>1, <2>1, AppendProperties, LenProperties
<1> HIDE DEF rs2
<1>3. ASSUME NEW q \in DOMAIN t, NEW a \in DOMAIN t[q].children, NEW b \in DOMAIN t[q].children, a < b,
             Passes(q, Lit(t[q].children[b]), r)
      PROVE  \E i \in DOMAIN rs : Passes(q, Lit(t[q].children[a]), rs[i])
  <2> DEFINE x == Lit(t[q].children[a])
             y == Lit(t[q].children[b])
             p == Append(q, x)
  <2>1. /\ DOMAIN t[q].children = 1..Len(t[q].children)
        /\ t[q].children[a] \in Names /\ t[q].children[b] \in Names
    <3>1. t[q].children \in Seq(Names)
      BY DEF Shape, TreeType, Segment
    <3>2. DOMAIN t[q].children = 1..Len(t[q].children)
      BY <3>1, LenProperties
    <3> QED BY <3>1, <3>2, ElementOfSeq
  <2>2. x \in Step /\ x \in Token /\ y \notin Terminator /\ x # y
    <3>1. t[q].children[a] # t[q].children[b]
      <4>1. a # b
        <5>1. a \in Nat /\ b \in Nat
          <6>1. Len(t[q].children) \in Nat
            <7>1. t[q].children \in Seq(Names)
              BY DEF Shape, TreeType, Segment
            <7> QED BY <7>1, LenProperties
          <6> QED BY <2>1, <6>1
        <5> QED BY <1>3, <5>1
      <4> QED BY <4>1 DEF DistinctChildren, IsInjective
    <3>2. x \in Step /\ x \in Token /\ y \in Step
      BY <2>1, TokenTypes
    <3>3. y \notin Terminator
      BY <3>2, TokenTypes DEF Terminator
    <3> QED BY <3>1, <3>2, <3>3 DEF Lit
  <2>3. p \in DOMAIN t
    <3>1. FindChild(t, q, t[q].children[a])
      BY <2>1 DEF FindChild, Contains
    <3> QED BY <2>1, <3>1 DEF Shape, Pointers
  <2>4. /\ q \in Seq(Token) /\ Len(q) \in Nat /\ p \in Seq(Token) /\ Len(p) = Len(q) + 1
        /\ p[Len(q) + 1] = x
    <3>1. q \in Seq(Token) /\ Len(q) \in Nat
      BY SegmentNames DEF Shape
    <3> QED BY <2>2, <3>1, AppendProperties
  <2>5. Len(r) > Len(q) /\ r[Len(q) + 1] = y
    BY <1>1, <1>3, <2>4, StrictPrefixIs DEF Passes
  <2>6. ~IsPrefix(p, k)
    <3> SUFFICES ASSUME IsPrefix(p, k) PROVE FALSE
      OBVIOUS
    <3>1. Len(p) <= Len(k) /\ SubSeq(p, 1, Len(p)) = SubSeq(k, 1, Len(p))
      BY DEF IsPrefix
    <3>2. Len(q) + 1 \in 1..Len(p) /\ Len(p) \in 0..Len(p) /\ Len(p) \in 0..Len(k) /\ Len(q) + 1 \in 1..Len(k)
      BY <1>1, <2>4, <3>1
    <3>3. Prefix(p, Len(p))[Len(q) + 1] = p[Len(q) + 1]
      BY <2>4, <3>2, PrefixProperties
    <3>4. Prefix(k, Len(p))[Len(q) + 1] = k[Len(q) + 1]
      BY <1>1, <3>2, PrefixProperties
    <3>5. Prefix(p, Len(p)) = Prefix(k, Len(p))
      BY <3>1 DEF Prefix
    <3>6. r[Len(q) + 1] = k[Len(q) + 1]
      BY <1>1, <3>2
    <3> HIDE DEF p, r, x, y
    <3> QED BY <2>2, <2>4, <2>5, <3>3, <3>4, <3>5, <3>6
  <2>7. PICK h \in Held(t) : IsStrictPrefix(p, h)
    BY <2>3, <2>6 DEF NoDeadEnds
  <2>8. h \in Seq(Token)
    BY HeldTokens DEF Shape
  <2>9. Len(h) > Len(q) + 1 /\ Prefix(h, Len(q)) = q /\ h[Len(q) + 1] = x
    BY <2>2, <2>4, <2>7, <2>8, StrictPrefixStep
  <2>10. IsStrictPrefix(q, h)
    <3>1. Len(h) > Len(q)
      <4>1. Len(h) \in Nat
        BY <2>8, LenProperties
      <4> QED BY <2>4, <2>9, <4>1
    <3> QED BY <2>4, <2>8, <2>9, <3>1, StrictPrefixIs
  <2>11. PICK i \in DOMAIN rs : rs[i] = h
    BY DEF Records
  <2> QED BY <2>9, <2>10, <2>11 DEF Passes
<1>4. ASSUME NEW q \in DOMAIN t, NEW a \in DOMAIN t[q].children, NEW b \in DOMAIN t[q].children, a < b,
             NEW j \in DOMAIN rs2, Passes(q, Lit(t[q].children[b]), rs2[j])
      PROVE  \E i \in DOMAIN rs2 : i < j /\ Passes(q, Lit(t[q].children[a]), rs2[i])
  <2>1. CASE j = Len(rs) + 1
    <3>1. PICK i \in DOMAIN rs : Passes(q, Lit(t[q].children[a]), rs[i])
      BY <1>2, <1>3, <1>4, <2>1
    <3>2. i \in DOMAIN rs2 /\ i < j /\ rs2[i] = rs[i]
      BY <1>2, <2>1
    <3> QED BY <3>1, <3>2
  <2>2. CASE j # Len(rs) + 1
    <3>1. j \in DOMAIN rs /\ rs2[j] = rs[j]
      BY <1>2, <2>2
    <3>2. PICK i \in DOMAIN rs : i < j /\ Passes(q, Lit(t[q].children[a]), rs[i])
      BY <1>4, <3>1 DEF OldestFirst
    <3>3. i \in DOMAIN rs2 /\ rs2[i] = rs[i]
      BY <1>2
    <3> QED BY <3>2, <3>3
  <2> QED BY <2>1, <2>2
<1>5. OldestFirst(t, rs2)
  BY <1>4 DEF OldestFirst
<1> QED BY <1>5 DEF rs2, r

(* A child is added: no route passes it yet.                               *)
LEMMA OrderGrown ==
    ASSUME NEW t, Shape(t), NEW u, NEW k, k \in DOMAIN t, NEW n, n \in Names, ~FindChild(t, k, n),
           Grown(t, u, k, Lit(n)), u[k].children = Append(t[k].children, n),
           NEW rs, NEW cs, Records(t, rs, cs), OldestFirst(t, rs)
    PROVE  OldestFirst(u, rs)
<1>1. \A j \in DOMAIN rs : ~Passes(k, Lit(n), rs[j])
  <2> SUFFICES ASSUME NEW j \in DOMAIN rs, Passes(k, Lit(n), rs[j]) PROVE FALSE
    OBVIOUS
  <2>1. rs[j] \in Held(t)
    BY DEF Records
  <2>2. Lit(n) \in Ways(t, k)
    BY <2>1, PassesByWay DEF Passes
  <2>3. Lit(n) \notin Terminator /\ Lit(n) # Par(t[k].param) /\ Lit(n).str = n
    BY DEF Lit, Par, Terminator, Wildcard, Trailing, End
  <2> QED BY <2>2, <2>3 DEF Ways, Leads
<1>2. /\ Len(t[k].children) \in Nat
      /\ DOMAIN t[k].children = 1..Len(t[k].children)
      /\ DOMAIN u[k].children = 1..(Len(t[k].children) + 1)
      /\ \A i \in 1..Len(t[k].children) : u[k].children[i] = t[k].children[i]
      /\ u[k].children[Len(t[k].children) + 1] = n
  <2>1. t[k].children \in Seq(Names)
    BY DEF Shape, TreeType, Segment
  <2> QED BY <2>1, AppendProperties, LenProperties
<1>3. ASSUME NEW q \in DOMAIN u, NEW a \in DOMAIN u[q].children, NEW b \in DOMAIN u[q].children, a < b,
             NEW j \in DOMAIN rs, Passes(q, Lit(u[q].children[b]), rs[j])
      PROVE  \E i \in DOMAIN rs : i < j /\ Passes(q, Lit(u[q].children[a]), rs[i])
  <2>1. CASE q = k
    <3>1. b # Len(t[k].children) + 1
      BY <1>1, <1>2, <1>3, <2>1
    <3>2. a \in DOMAIN t[k].children /\ b \in DOMAIN t[k].children
      BY <1>2, <1>3, <2>1, <3>1
    <3> QED BY <1>2, <1>3, <2>1, <3>2 DEF OldestFirst
  <2>2. CASE q = Append(k, Lit(n)) /\ q # k
    <3>1. u[q].children = <<>>
      BY <2>2 DEF Grown, NewSegment
    <3> QED BY <3>1
  <2>3. CASE q \in DOMAIN t \ {k}
    <3>1. u[q] = t[q]
      BY <2>3 DEF Grown
    <3> QED BY <1>3, <2>3, <3>1 DEF OldestFirst
  <2> QED BY <2>1, <2>2, <2>3 DEF Grown
<1> QED BY <1>3 DEF OldestFirst

LEMMA OrderGrownParam ==
    ASSUME NEW t, NEW u, NEW k, k \in DOMAIN t, NEW x, Grown(t, u, k, x), u[k].children = <<>>,
           NEW rs, OldestFirst(t, rs)
    PROVE  OldestFirst(u, rs)
<1>1. ASSUME NEW q \in DOMAIN u
      PROVE  u[q].children = <<>> \/ (q \in DOMAIN t /\ u[q] = t[q])
  <2>1. CASE q = Append(k, x)
    <3>1. u[q] = NewSegment
      BY <2>1 DEF Grown
    <3> QED BY <3>1 DEF NewSegment
  <2>2. CASE q = k
    BY <2>2
  <2>3. CASE q \in DOMAIN t \ {k}
    BY <2>3 DEF Grown
  <2> QED BY <2>1, <2>2, <2>3 DEF Grown
<1>2. DOMAIN <<>> = {}
  OBVIOUS
<1> QED BY <1>1, <1>2 DEF OldestFirst

-----------------------------------------------------------------------------
(* The invariant: until a call has failed, the log lists the routes of the *)
(* tree, and children stand in the order in which its routes need them.    *)
HInv ==
    /\ RInv
    /\ log \in Seq(Seq(Token) \X Contexts)
    /\ ~corrupted => /\ Records(tree, LoggedRoutes, LoggedContexts)
                     /\ OldestFirst(tree, LoggedRoutes)

(* The two columns of a log.                                               *)
Columns(h, rs, cs) ==
    /\ h \in Seq(Seq(Token) \X Contexts)
    /\ rs = [i \in DOMAIN h |-> h[i][1]] /\ cs = [i \in DOMAIN h |-> h[i][2]]

LEMMA LogLists ==
    ASSUME NEW h, NEW rs, NEW cs, Columns(h, rs, cs)
    PROVE  /\ rs \in Seq(Seq(Token)) /\ cs \in Seq(Contexts) /\ Len(rs) = Len(h) /\ Len(cs) = Len(h)
           /\ Len(h) \in Nat
           /\ \A i \in 1..Len(h) : rs[i] = h[i][1] /\ cs[i] = h[i][2]
<1> USE DEF Columns
<1>1. Len(h) \in Nat /\ DOMAIN h = 1..Len(h)
  BY LenProperties
<1>2. \A i \in 1..Len(h) : h[i] \in Seq(Token) \X Contexts
  BY ElementOfSeq
<1>3. \A i \in 1..Len(h) : h[i][1] \in Seq(Token) /\ h[i][2] \in Contexts
  BY <1>2
<1>4. rs \in [1..Len(h) -> Seq(Token)] /\ cs \in [1..Len(h) -> Contexts]
  BY <1>1, <1>3
<1>5. rs \in Seq(Seq(Token)) /\ cs \in Seq(Contexts)
  BY <1>1, <1>4, SeqDef
<1>6. Len(rs) = Len(h) /\ Len(cs) = Len(h)
  BY <1>1, <1>4, <1>5, LenProperties
<1> QED BY <1>1, <1>5, <1>6

Longer(s, u, x) == u = Append(s, x)
Logged(h, g, r, c) == Longer(h, g, <<r, c>>)

LEMMA LogAppended ==
    ASSUME NEW h, NEW r, r \in Seq(Token), NEW c, c \in Contexts, NEW g, Logged(h, g, r, c),
           NEW rs, NEW cs, Columns(h, rs, cs), NEW rs2, NEW cs2, Columns(g, rs2, cs2)
    PROVE  Longer(rs, rs2, r) /\ Longer(cs, cs2, c)
<1> USE DEF Longer, Logged
<1>1. <<r, c>> \in Seq(Token) \X Contexts
  OBVIOUS
<1>2. /\ g \in Seq(Seq(Token) \X Contexts) /\ Len(g) = Len(h) + 1 /\ Len(h) \in Nat
      /\ \A i \in 1..Len(h) : g[i] = h[i]
      /\ g[Len(h) + 1] = <<r, c>>
  <2>1. h \in Seq(Seq(Token) \X Contexts)
    BY DEF Columns
  <2> QED BY <1>1, <2>1, AppendProperties, LenProperties
<1>3. /\ rs \in Seq(Seq(Token)) /\ cs \in Seq(Contexts) /\ Len(rs) = Len(h) /\ Len(cs) = Len(h)
      /\ \A i \in 1..Len(h) : rs[i] = h[i][1] /\ cs[i] = h[i][2]
  BY LogLists
<1>4. /\ rs2 \in Seq(Seq(Token)) /\ cs2 \in Seq(Contexts) /\ Len(rs2) = Len(g) /\ Len(cs2) = Len(g)
      /\ \A i \in 1..Len(g) : rs2[i] = g[i][1] /\ cs2[i] = g[i][2]
  BY ONLY Columns(g, rs2, cs2), LogLists
<1>5. /\ Append(rs, r) \in Seq(Seq(Token)) /\ Len(Append(rs, r)) = Len(h) + 1
      /\ \A i \in 1..Len(h) : Append(rs, r)[i] = rs[i]
      /\ Append(rs, r)[Len(h) + 1] = r
  BY <1>3, AppendProperties
<1>6. /\ Append(cs, c) \in Seq(Contexts) /\ Len(Append(cs, c)) = Len(h) + 1
      /\ \A i \in 1..Len(h) : Append(cs, c)[i] = cs[i]
      /\ Append(cs, c)[Len(h) + 1] = c
  BY <1>3, AppendProperties
<1> DEFINE a == Append(rs, r)
           b == Append(cs, c)
<1> HIDE DEF a, b
<1>7. \A i \in 1..(Len(h) + 1) : rs2[i] = a[i] /\ cs2[i] = b[i]
  <2> SUFFICES ASSUME NEW i \in 1..(Len(h) + 1) PROVE rs2[i] = a[i] /\ cs2[i] = b[i]
    OBVIOUS
  <2>1. i \in 1..Len(h) \/ i = Len(h) + 1
    BY <1>2
  <2>2. rs2[i] = g[i][1] /\ cs2[i] = g[i][2]
    BY <1>2, <1>4
  <2>3. CASE i \in 1..Len(h)
    BY <1>2, <1>3, <1>5, <1>6, <2>2, <2>3 DEF a, b
  <2>4. CASE i = Len(h) + 1
    BY <1>2, <1>5, <1>6, <2>2, <2>4 DEF a, b
  <2> QED BY <2>1, <2>3, <2>4
<1>8. rs2 = a
  <2> DEFINE T == Seq(Token)
  <2>1. rs2 \in Seq(T) /\ a \in Seq(T) /\ Len(rs2) = Len(a)
    BY <1>2, <1>4, <1>5 DEF a
  <2>2. \A i \in 1..Len(rs2) : rs2[i] = a[i]
    BY <1>2, <1>4, <1>7
  <2> HIDE DEF T
  <2> QED BY <2>1, <2>2, SeqEqual
<1>9. cs2 = b
  <2>1. b \in Seq(Contexts) /\ Len(cs2) = Len(b) /\ \A i \in 1..Len(cs2) : cs2[i] = b[i]
    BY <1>2, <1>4, <1>6, <1>7 DEF b
  <2> QED BY <1>4, <2>1, SeqEqual
<1> QED BY <1>2, <1>8, <1>9 DEF a, b

-----------------------------------------------------------------------------
(* What a step does to the lists of children.                              *)
GrowsChild ==
    /\ tok \in Step
    /\ \E n \in Names : /\ ~FindChild(tree, cur, n)
                        /\ Grown(tree, tree', cur, Lit(n))
                        /\ tree'[cur].children = Append(tree[cur].children, n)
GrowsParam ==
    /\ tok \in Step
    /\ \E x \in Step : Grown(tree, tree', cur, x) /\ tree'[cur].children = <<>>

LEMMA ChildrenUpdated ==
    ASSUME NEW t, TreeType(t), NEW k, k \in DOMAIN t, NEW s, s.children = t[k].children,
           NEW u, u = [t EXCEPT ![k] = s]
    PROVE  SameChildren(t, u)
BY DEF SameChildren, TreeType

LEMMA SegmentUpdates ==
    ASSUME NEW s, s \in Segment, NEW x
    PROVE  /\ [s EXCEPT !.terminal = x].children = s.children
           /\ [s EXCEPT !.trailing = x].children = s.children
           /\ [s EXCEPT !.spec = "SPEC_WILDCARD", !.wildcard = x].children = s.children
           /\ [s EXCEPT !.spec = x].children = s.children
BY DEF Segment

LEMMA ChildrenStep ==
    ASSUME RInv, Walk
    PROVE  SameChildren(tree, tree') \/ GrowsChild \/ GrowsParam
<1>1. IInv /\ Shape(tree) /\ TreeType(tree) /\ cur \in DOMAIN tree /\ tree[cur] \in Segment
  BY DEF RInv, SInv, IInv, TypeOK, Shape, TreeType
<1>2. UNCHANGED tree => SameChildren(tree, tree')
  BY DEF SameChildren
<1>3. CASE AddTerminal
  <2>1. tree' = [tree EXCEPT ![cur] = [tree[cur] EXCEPT !.terminal = route]]
    BY <1>1, <1>3 DEF AddTerminal, Terminate
  <2> DEFINE s == [tree[cur] EXCEPT !.terminal = route]
  <2>2. s.children = tree[cur].children
    BY <1>1, SegmentUpdates
  <2> HIDE DEF s
  <2> QED BY <1>1, <2>1, <2>2, ChildrenUpdated DEF s
<1>4. CASE AddTrailing
  <2>1. tree' = [tree EXCEPT ![cur] = [tree[cur] EXCEPT !.trailing = route]]
    BY <1>1, <1>4 DEF AddTrailing, Terminate
  <2> DEFINE s == [tree[cur] EXCEPT !.trailing = route]
  <2>2. s.children = tree[cur].children
    BY <1>1, SegmentUpdates
  <2> HIDE DEF s
  <2> QED BY <1>1, <2>1, <2>2, ChildrenUpdated DEF s
<1>5. CASE AddWildcard
  <2>1. tree' = [tree EXCEPT ![cur] = [tree[cur] EXCEPT !.spec = "SPEC_WILDCARD", !.wildcard = route]]
    BY <1>1, <1>5 DEF AddWildcard, Terminate, TreeType
  <2> DEFINE s == [tree[cur] EXCEPT !.spec = "SPEC_WILDCARD", !.wildcard = route]
  <2>2. s.children = tree[cur].children
    BY <1>1, SegmentUpdates
  <2> HIDE DEF s
  <2> QED BY <1>1, <2>1, <2>2, ChildrenUpdated DEF s
<1>6. ASSUME NEW spec, tree' = [tree EXCEPT ![cur].spec = spec] PROVE SameChildren(tree, tree')
  <2>1. tree' = [tree EXCEPT ![cur] = [tree[cur] EXCEPT !.spec = spec]]
    BY <1>1, <1>6
  <2> DEFINE s == [tree[cur] EXCEPT !.spec = spec]
  <2>2. s.children = tree[cur].children
    BY <1>1, SegmentUpdates
  <2> HIDE DEF s
  <2> QED BY <1>1, <2>1, <2>2, ChildrenUpdated DEF s
<1>7. CASE AddLiteral
  <2>1. /\ tok \in Step /\ tok.str \in Names /\ ~FindChild(tree, cur, tok.str)
        /\ tree' = AppendChild(tree, cur, tok.str)
    BY <1>1, <1>7, AdmitsFacts DEF AddLiteral, Admits
  <2>2. /\ Grown(tree, tree', cur, Lit(tok.str))
        /\ tree'[cur].children = Append(tree[cur].children, tok.str)
    BY <1>1, <2>1, AppendChildGrown
  <2> QED BY <2>1, <2>2 DEF GrowsChild
<1>8. CASE AddParam
  <2>1. /\ tok \in Step /\ tok.str \in Names /\ tok = Par(tok.str)
        /\ tree[cur].spec = "SPEC_NONE" /\ tree[cur].children = <<>>
        /\ tree' = SetParam([tree EXCEPT ![cur].spec = "SPEC_PARAM"], cur, tok.str)
    BY <1>1, <1>8, AdmitsFacts DEF AddParam, Admits, seg
  <2>2. Grown(tree, tree', cur, Par(tok.str)) /\ tree'[cur].children = <<>>
    BY <1>1, <2>1, SetParamGrown
  <2> QED BY <2>1, <2>2 DEF GrowsParam
<1>9. CASE ParamOutOfRange
  <2>1. tree' = [tree EXCEPT ![cur].spec = "SPEC_PARAM"]
    BY <1>9 DEF ParamOutOfRange
  <2> QED BY <1>6, <2>1
<1>10. CASE OutOfMemory
  <2>1. \/ UNCHANGED tree
        \/ tree' = [tree EXCEPT ![cur].spec = "SPEC_PARAM"]
        \/ tree' = [tree EXCEPT ![cur].spec = "SPEC_WILDCARD"]
    BY <1>10 DEF OutOfMemory
  <2> QED BY <1>2, <1>6, <2>1
<1>11. CASE Reject \/ FollowLiteral \/ FollowParam \/ LiteralOutOfRange
  BY <1>2, <1>11 DEF Reject, FollowLiteral, FollowParam, LiteralOutOfRange
<1> QED BY <1>3, <1>4, <1>5, <1>7, <1>8, <1>9, <1>10, <1>11 DEF Walk

-----------------------------------------------------------------------------
LEMMA RecordsKept ==
    ASSUME Keeps, NEW rs, NEW cs, Records(tree, rs, cs)
    PROVE  Records(tree', rs, cs)
BY DEF Keeps, Records

LEMMA InitHInv == LogInit => HInv
<1> SUFFICES ASSUME LogInit PROVE HInv
  OBVIOUS
<1>1. RInv /\ tree = [k \in {Root} |-> NewSegment] /\ log = <<>>
  BY InitRInv DEF LogInit, Init
<1>2. log \in Seq(Seq(Token) \X Contexts) /\ DOMAIN log = {}
  BY <1>1, EmptySeq
<1>3. LoggedRoutes = <<>> /\ LoggedContexts = <<>>
  BY <1>1, <1>2 DEF LoggedRoutes, LoggedContexts
<1>4. Held(tree) = {}
  <2>1. \A z \in Terminator : Slot(NewSegment, z) = NULL
    BY DEF Slot, NewSegment
  <2>2. DOMAIN tree = {Root} /\ tree[Root] = NewSegment
    BY <1>1
  <2> QED BY <2>1, <2>2, HeldSlots
<1>5. <<>> \in Seq(Seq(Token)) /\ DOMAIN <<>> = {}
  BY EmptySeq
<1>6. Records(tree, <<>>, <<>>) /\ OldestFirst(tree, <<>>)
  BY <1>4, <1>5 DEF Records, OldestFirst
<1> QED BY <1>1, <1>2, <1>3, <1>6 DEF HInv

LEMMA EntersHInv ==
    ASSUME HInv, Enters, Walk, RInv', log' = Append(log, <<RouteOf(cur \o rest), route>>)
    PROVE  HInv'
<1> DEFINE r == Append(cur, tok)
           rs == LoggedRoutes
           cs == LoggedContexts
<1>1. Walking /\ Conflict = "OK" /\ tok \in Terminator
  BY DEF Enters
<1>2. /\ RInv /\ TypeOK /\ Shape(tree) /\ ~corrupted /\ Sound(tree, cur, literals, params)
      /\ cur \in DOMAIN tree /\ route \in Contexts
  BY <1>1 DEF HInv, RInv, SInv, IInv, TypeOK
<1>3. RouteOf(cur \o rest) = r
  BY <1>1, <1>2, AcceptVerdict
<1>4. r \in Seq(Token)
  <2>1. cur \in Seq(Token) /\ tok \in Token
    BY <1>1, <1>2, SegmentNames DEF Shape, Token
  <2> QED BY <2>1, AppendProperties
<1>5. /\ log' \in Seq(Seq(Token) \X Contexts)
      /\ rs' = Append(rs, r) /\ cs' = Append(cs, route)
  <2>1. log \in Seq(Seq(Token) \X Contexts) /\ log' = Append(log, <<r, route>>)
    BY <1>3 DEF HInv
  <2>2. <<r, route>> \in Seq(Token) \X Contexts
    BY <1>2, <1>4
  <2>3. log' \in Seq(Seq(Token) \X Contexts)
    <3> HIDE DEF r
    <3> QED BY <2>1, <2>2, AppendProperties
  <2>4. Columns(log, rs, cs)
    BY <2>1 DEF LoggedRoutes, LoggedContexts, Columns
  <2>5. Columns(log', rs', cs')
    BY <2>3 DEF LoggedRoutes, LoggedContexts, Columns
  <2>6. PICK g, rs2, cs2 : g = log' /\ rs2 = rs' /\ cs2 = cs'
    OBVIOUS
  <2> HIDE DEF r, rs, cs
  <2>7. Logged(log, g, r, route) /\ Columns(g, rs2, cs2)
    BY <2>1, <2>5, <2>6 DEF Longer, Logged
  <2>8. Longer(rs, rs2, r) /\ Longer(cs, cs2, route)
    BY <1>2, <1>4, <2>4, <2>7, LogAppended
  <2> QED BY <2>3, <2>6, <2>8 DEF Longer
<1>6. SameChildren(tree, tree')
  <2>1. tok \notin Step
    BY <1>1, TokenTypes DEF Terminator
  <2> QED BY <1>2, <2>1, ChildrenStep DEF GrowsChild, GrowsParam
<1>7. Records(tree, rs, cs) /\ OldestFirst(tree, rs) /\ cs \in Seq(Contexts) /\ Len(cs) = Len(rs)
  <2>1. Records(tree, rs, cs) /\ OldestFirst(tree, rs) /\ log \in Seq(Seq(Token) \X Contexts)
    BY <1>2 DEF HInv
  <2>2. Columns(log, rs, cs)
    BY <2>1 DEF LoggedRoutes, LoggedContexts, Columns
  <2> HIDE DEF rs, cs
  <2>3. cs \in Seq(Contexts) /\ Len(cs) = Len(log) /\ Len(rs) = Len(log)
    BY <2>1, <2>2, LogLists
  <2> QED BY <2>1, <2>3
<1>8. Records(tree', Append(rs, r), Append(cs, route))
  <2>1. /\ Held(tree') = Held(tree) \cup {r} /\ HeldContext(tree', r) = route
        /\ \A s \in Held(tree) : HeldContext(tree', s) = HeldContext(tree, s)
    BY DEF Enters
  <2>2. TreeType(tree)
    BY <1>2 DEF Shape
  <2> HIDE DEF r, rs, cs
  <2> QED BY <1>2, <1>4, <1>7, <2>1, <2>2, RecordsAdded
<1>9. OldestFirst(tree', Append(rs, r))
  <2>1. OldestFirst(tree, Append(rs, r))
    <3> HIDE DEF rs, cs
    <3> QED BY <1>1, <1>2, <1>7, OrderAdded DEF Sound
  <2> HIDE DEF r, rs
  <2> QED BY <1>6, <2>1, OrderKept
<1>10. Records(tree', LoggedRoutes', LoggedContexts') /\ OldestFirst(tree', LoggedRoutes')
  BY <1>5, <1>8, <1>9
<1> QED BY <1>5, <1>10 DEF HInv

LEMMA GoesOnHInv ==
    ASSUME HInv, GoesOn, Walk, RInv', log' = log
    PROVE  HInv'
<1> DEFINE rs == LoggedRoutes
           cs == LoggedContexts
<1>1. /\ RInv /\ Shape(tree) /\ cur \in DOMAIN tree /\ ~corrupted
      /\ Records(tree, rs, cs) /\ OldestFirst(tree, rs)
  BY DEF HInv, GoesOn, RInv, SInv, IInv, TypeOK
<1>2. rs' = rs /\ cs' = cs
  BY DEF LoggedRoutes, LoggedContexts
<1> HIDE DEF rs, cs
<1>3. Records(tree', rs, cs)
  BY <1>1, RecordsKept DEF GoesOn
<1>4. OldestFirst(tree', rs)
  <2> PICK u : u = tree'
    OBVIOUS
  <2>1. CASE SameChildren(tree, u)
    BY <1>1, <2>1, OrderKept
  <2>2. CASE GrowsChild
    <3>1. PICK n \in Names : /\ ~FindChild(tree, cur, n)
                             /\ Grown(tree, u, cur, Lit(n))
                             /\ u[cur].children = Append(tree[cur].children, n)
      BY <2>2 DEF GrowsChild
    <3> QED BY <1>1, <3>1, OrderGrown
  <2>3. CASE GrowsParam
    <3>1. PICK x \in Step : Grown(tree, u, cur, x) /\ u[cur].children = <<>>
      BY <2>3 DEF GrowsParam
    <3> QED BY <1>1, <3>1, OrderGrownParam
  <2> QED BY <1>1, <2>1, <2>2, <2>3, ChildrenStep
<1> QED BY <1>2, <1>3, <1>4 DEF HInv, rs, cs

LEMMA NextHInv == HInv /\ [LogNext]_<<vars, log>> => HInv'
<1> SUFFICES ASSUME HInv, [LogNext]_<<vars, log>> PROVE HInv'
  OBVIOUS
<1>1. RInv /\ RInv'
  BY NextRInv DEF HInv, LogNext
<1>2. CASE UNCHANGED <<vars, log>>
  BY <1>1, <1>2 DEF HInv, LoggedRoutes, LoggedContexts, vars
<1>3. ASSUME LogNext, NEW p \in Patterns, NEW c \in Contexts, AddRoute(p, c) PROVE HInv'
  <2>1. ~Walking /\ UNCHANGED tree /\ (corrupted => corrupted')
    BY <1>3 DEF AddRoute, Return
  <2>2. log' = log
    BY <1>3, <2>1 DEF LogNext, Accepts
  <2>3. corrupted' \in BOOLEAN /\ corrupted \in BOOLEAN
    BY <1>1 DEF RInv, SInv, IInv, TypeOK
  <2> QED BY <1>1, <2>1, <2>2, <2>3 DEF HInv, LoggedRoutes, LoggedContexts
<1>4. ASSUME LogNext, Walk PROVE HInv'
  <2>1. CASE Refuses
    <3>1. corrupted' /\ err' # "OK"
      BY <2>1 DEF Refuses, Return
    <3>2. log' = log
      BY <1>4, <3>1 DEF LogNext, Accepts
    <3> QED BY <1>1, <3>1, <3>2 DEF HInv
  <2>2. CASE GoesOn
    <3>1. rest' # <<>>
      <4>1. rest \in Seq(Token) /\ Tokenised(rest) /\ Head(rest) \in Step /\ rest' = Tail(rest)
        BY <1>1, <2>2 DEF RInv, SInv, IInv, TypeOK, GoesOn, Descend, tok
      <4> QED BY <4>1, TailTokenised
    <3>2. log' = log
      BY <1>4, <3>1 DEF LogNext, Accepts
    <3> QED BY <1>1, <1>4, <2>2, <3>2, GoesOnHInv
  <2>3. CASE Enters
    <3>1. Accepts
      BY <2>3 DEF Enters, Return, Accepts
    <3>2. log' = Append(log, <<RouteOf(cur \o rest), route>>)
      BY <1>4, <3>1 DEF LogNext
    <3> QED BY <1>1, <1>4, <2>3, <3>2, EntersHInv
  <2> QED BY <1>1, <1>4, <2>1, <2>2, <2>3, StepKinds
<1> QED BY <1>2, <1>3, <1>4 DEF LogNext, Next

-----------------------------------------------------------------------------
(* Until a call has failed, the tree holds the routes that were accepted,  *)
(* with the contexts they came with, and lists the children of a segment   *)
(* in the order in which accepted routes first needed them, at every       *)
(* moment of every call (builder_add_route, segment_append_child).         *)
THEOREM TreeKeepsOrder == LogSpec => []HInv
BY InitHInv, NextHInv, PTL DEF LogSpec

(* Between calls, the tree of a builder that no call has spoilt is the     *)
(* tree of the routes accepted, in the order in which they were, for all   *)
(* patterns and any number of calls.                                       *)
THEOREM TreesAreCanonical == LogSpec => []TreeIsCanonical
<1>1. HInv => TreeIsCanonical
  <2> SUFFICES ASSUME HInv, ~Walking, ~corrupted PROVE tree = TreeOf(LoggedRoutes, LoggedContexts)
    BY DEF TreeIsCanonical
  <2>1. Recorded(tree, LoggedRoutes, LoggedContexts)
    BY DEF HInv, RInv, SInv, IInv, AtRest, Sound, Recorded
  <2> QED BY <2>1, CanonicalTree
<1> QED BY <1>1, TreeKeepsOrder, PTL
=============================================================================
