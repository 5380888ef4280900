------------------------------- MODULE DataProofs -------------------------------
(***************************************************************************)
(* Facts about the recursive functions that the modules compute with, for  *)
(* all arguments.  A function that is defined by recursion is a choice; by *)
(* least counterexamples, which well-foundedness gives, one exists and     *)
(* there is no other.                                                      *)
(*                                                                         *)
(* First sums over finite sets, which the counts of the bindings and of    *)
(* the library rest on, recursive on the subsets of the set; then          *)
(* induction and recursion on the naturals, and what FlattenSeq gives.     *)
(***************************************************************************)
EXTENDS Integers, SequencesExt, FiniteSetTheorems, WellFoundedInduction, TLAPS

Pick(s) == CHOOSE x \in s : TRUE

(* g gives the sum of f over every subset of S.                            *)
Sums(f, S, g) ==
    g = [s \in SUBSET S |-> IF s = {} THEN 0 ELSE f[Pick(s)] + g[s \ {Pick(s)}]]

LEMMA SumIsChosen ==
    ASSUME NEW f, NEW S
    PROVE  SumFunctionOnSet(f, S) = (CHOOSE g : Sums(f, S, g))[S]
BY Zenon DEF SumFunctionOnSet, FoldFunctionOnSet, MapThenFoldSet, Sums, Pick

LEMMA PickProperties ==
    ASSUME NEW S, NEW s \in SUBSET S, s # {}
    PROVE  Pick(s) \in s /\ Pick(s) \in S /\ s \ {Pick(s)} \in SUBSET S
BY DEF Pick

LEMMA SumsStep ==
    ASSUME NEW f, NEW S, NEW g, Sums(f, S, g), NEW s \in SUBSET S
    PROVE  /\ s = {} => g[s] = 0
           /\ s # {} => g[s] = f[Pick(s)] + g[s \ {Pick(s)}]
<1>1. g = [t \in SUBSET S |-> IF t = {} THEN 0 ELSE f[Pick(t)] + g[t \ {Pick(t)}]]
  BY DEF Sums
<1>2. g[s] = IF s = {} THEN 0 ELSE f[Pick(s)] + g[s \ {Pick(s)}]
  BY <1>1, Zenon
<1> QED BY <1>2

(* A nonempty set of finite subsets has a member none of whose strict      *)
(* subsets is in it.                                                       *)
LEMMA LeastSubset ==
    ASSUME NEW S, IsFiniteSet(S), NEW T, T \subseteq SUBSET S, T # {}
    PROVE  \E s \in T : \A t \in T : ~(t \subseteq s /\ t # s)
<1>1. IsWellFoundedOn(StrictSubsetOrdering(S), SUBSET S)
  BY FS_StrictSubsetOrderingWellFounded, FS_FiniteSubsetsOfFinite
<1>2. PICK s \in T : \A t \in T : <<t, s>> \notin StrictSubsetOrdering(S)
  BY <1>1, WFMin
<1>3. ASSUME NEW t \in T PROVE ~(t \subseteq s /\ t # s)
  BY <1>2 DEF StrictSubsetOrdering
<1> QED BY <1>3

LEMMA SumsUnique ==
    ASSUME NEW f, NEW S, IsFiniteSet(S), NEW g, Sums(f, S, g), NEW h, Sums(f, S, h)
    PROVE  g = h
<1> DEFINE T == {s \in SUBSET S : g[s] # h[s]}
<1>1. T = {}
  <2> SUFFICES ASSUME T # {} PROVE FALSE
    OBVIOUS
  <2>1. PICK s \in T : \A t \in T : ~(t \subseteq s /\ t # s)
    <3>1. T \subseteq SUBSET S
      OBVIOUS
    <3> HIDE DEF T
    <3> QED BY <3>1, LeastSubset
  <2>2. s \in SUBSET S /\ g[s] # h[s]
    BY <2>1
  <2>3. s # {}
    BY <2>2, SumsStep
  <2>4. s \ {Pick(s)} \in SUBSET S /\ s \ {Pick(s)} \subseteq s /\ s \ {Pick(s)} # s
    BY <2>2, <2>3, PickProperties
  <2>5. g[s \ {Pick(s)}] = h[s \ {Pick(s)}]
    BY <2>1, <2>4
  <2>6. g[s] = f[Pick(s)] + g[s \ {Pick(s)}] /\ h[s] = f[Pick(s)] + h[s \ {Pick(s)}]
    BY <2>2, <2>3, SumsStep
  <2> QED BY <2>2, <2>5, <2>6
<1>2. \A s \in SUBSET S : g[s] = h[s]
  BY <1>1
<1>3. /\ g = [s \in SUBSET S |-> g[s]]
      /\ h = [s \in SUBSET S |-> h[s]]
  BY Zenon DEF Sums
<1> QED BY <1>2, <1>3

LEMMA SumIs ==
    ASSUME NEW f, NEW S, IsFiniteSet(S), NEW g, Sums(f, S, g)
    PROVE  SumFunctionOnSet(f, S) = g[S]
<1> DEFINE c == CHOOSE h : Sums(f, S, h)
<1>1. Sums(f, S, c)
  BY Zenon
<1>2. SumFunctionOnSet(f, S) = c[S]
  BY SumIsChosen
<1> HIDE DEF c
<1>3. c = g
  BY <1>1, SumsUnique
<1> QED BY <1>2, <1>3

LEMMA SumsZero ==
    ASSUME NEW S, NEW f, \A x \in S : f[x] = 0
    PROVE  Sums(f, S, [s \in SUBSET S |-> 0])
<1> DEFINE g == [s \in SUBSET S |-> 0]
<1>1. ASSUME NEW s \in SUBSET S
      PROVE  g[s] = IF s = {} THEN 0 ELSE f[Pick(s)] + g[s \ {Pick(s)}]
  BY PickProperties
<1>2. g = [s \in SUBSET S |-> g[s]]
  OBVIOUS
<1> HIDE DEF g
<1>3. Sums(f, S, g)
  BY <1>1, <1>2 DEF Sums
<1> QED BY <1>3 DEF g

(* Changing one term changes the sums of the subsets with it.              *)
Shifted(S, g, a, d) == [s \in SUBSET S |-> g[s] + (IF a \in s THEN d ELSE 0)]

LEMMA SumsExcept ==
    ASSUME NEW S, NEW f \in [S -> Int], NEW a \in S, NEW v \in Int,
           NEW g \in [SUBSET S -> Int], Sums(f, S, g)
    PROVE  Sums([f EXCEPT ![a] = v], S, Shifted(S, g, a, v - f[a]))
<1> DEFINE u == [f EXCEPT ![a] = v]
           h == Shifted(S, g, a, v - f[a])
<1>1. ASSUME NEW s \in SUBSET S
      PROVE  h[s] = IF s = {} THEN 0 ELSE u[Pick(s)] + h[s \ {Pick(s)}]
  <2>1. /\ h[s] = g[s] + (IF a \in s THEN v - f[a] ELSE 0)
        /\ g[s] \in Int /\ f[a] \in Int
    BY DEF Shifted
  <2>2. CASE s = {}
    <3>1. g[s] = 0 /\ a \notin s
      BY <2>2, SumsStep
    <3> QED BY <2>1, <2>2, <3>1
  <2>3. CASE s # {}
    <3> DEFINE x == Pick(s)
               t == s \ {x}
    <3>1. x \in s /\ x \in S /\ t \in SUBSET S
      BY <2>3, PickProperties
    <3>2. g[s] = f[x] + g[t]
      BY <2>3, SumsStep
    <3>3. h[t] = g[t] + (IF a \in t THEN v - f[a] ELSE 0) /\ g[t] \in Int /\ f[x] \in Int
      BY <3>1 DEF Shifted
    <3>4. a \in t <=> a \in s /\ a # x
      OBVIOUS
    <3>5. u[x] = IF x = a THEN v ELSE f[x]
      BY <3>1
    <3> HIDE DEF x, t, u, h
    <3>6. ASSUME a = x PROVE h[s] = u[x] + h[t]
      <4>1. h[s] = g[s] + (v - f[a]) /\ h[t] = g[t] + 0 /\ u[x] = v /\ f[x] = f[a]
        BY <2>1, <3>1, <3>3, <3>4, <3>5, <3>6
      <4> QED BY <2>1, <3>2, <3>3, <4>1
    <3>7. ASSUME a # x PROVE h[s] = u[x] + h[t]
      <4>1. /\ u[x] = f[x]
            /\ \/ a \in s /\ h[s] = g[s] + (v - f[a]) /\ h[t] = g[t] + (v - f[a])
               \/ a \notin s /\ h[s] = g[s] + 0 /\ h[t] = g[t] + 0
        BY <2>1, <3>1, <3>3, <3>4, <3>5, <3>7
      <4> QED BY <2>1, <3>2, <3>3, <4>1
    <3>8. h[s] = u[x] + h[t]
      BY <3>6, <3>7
    <3> QED BY <2>3, <3>8 DEF x, t
  <2> QED BY <2>2, <2>3
<1>2. h = [s \in SUBSET S |-> h[s]]
  BY DEF Shifted
<1> HIDE DEF h, u
<1>3. Sums(u, S, h)
  BY <1>1, <1>2 DEF Sums
<1> QED BY <1>3 DEF u, h

-----------------------------------------------------------------------------
(* Every function with numbers for values has sums: drop the arguments one *)
(* by one, and nothing is left.                                            *)
Only(f, S, T) == [x \in S |-> IF x \in T THEN f[x] ELSE 0]

LEMMA SumsExist ==
    ASSUME NEW S, IsFiniteSet(S), NEW D, D = Nat \/ D = Int, NEW f \in [S -> D]
    PROVE  \E g \in [SUBSET S -> D] : Sums(f, S, g)
<1> DEFINE Summed(T) == \E g \in [SUBSET S -> D] : Sums(Only(f, S, T), S, g)
           B == {T \in SUBSET S : ~Summed(T)}
<1>1. B = {}
  <2> SUFFICES ASSUME B # {} PROVE FALSE
    OBVIOUS
  <2>1. PICK T \in B : \A U \in B : ~(U \subseteq T /\ U # T)
    <3>1. B \subseteq SUBSET S
      OBVIOUS
    <3> HIDE DEF B
    <3> QED BY <3>1, LeastSubset
  <2>2. T \in SUBSET S /\ ~Summed(T)
    BY <2>1
  <2>3. T # {}
    <3> SUFFICES ASSUME T = {} PROVE FALSE
      OBVIOUS
    <3>1. \A x \in S : Only(f, S, T)[x] = 0
      BY DEF Only
    <3>2. Sums(Only(f, S, T), S, [s \in SUBSET S |-> 0])
      BY <3>1, SumsZero
    <3>3. [s \in SUBSET S |-> 0] \in [SUBSET S -> D]
      OBVIOUS
    <3> QED BY <2>2, <3>2, <3>3
  <2> DEFINE a == Pick(T)
             U == T \ {a}
  <2>4. a \in T /\ a \in S /\ U \in SUBSET S /\ U \subseteq T /\ U # T
    BY <2>2, <2>3, PickProperties
  <2>5. PICK g \in [SUBSET S -> D] : Sums(Only(f, S, U), S, g)
    BY <2>1, <2>4
  <2> HIDE DEF a
  <2>6. Only(f, S, T) = [Only(f, S, U) EXCEPT ![a] = f[a]]
    <3>1. \A x \in S : x \in T <=> x = a \/ x \in U
      BY <2>4
    <3>2. a \in S /\ a \in T
      BY <2>4
    <3> HIDE DEF U
    <3> DEFINE w == [Only(f, S, U) EXCEPT ![a] = f[a]]
    <3>3. w = [x \in S |-> w[x]] /\ DOMAIN w = S
      BY DEF Only
    <3>4. ASSUME NEW x \in S
          PROVE  w[x] = IF x \in T THEN f[x] ELSE 0
      <4>1. w[x] = IF x = a THEN f[a] ELSE Only(f, S, U)[x]
        BY DEF Only
      <4>2. Only(f, S, U)[x] = IF x \in U THEN f[x] ELSE 0
        BY DEF Only
      <4> HIDE DEF w
      <4> QED BY <3>1, <3>2, <4>1, <4>2
    <3> HIDE DEF w
    <3>5. w = Only(f, S, T)
      BY <3>3, <3>4 DEF Only
    <3> QED BY <3>5 DEF w
  <2>7. Only(f, S, U) \in [S -> Int] /\ f[a] \in D /\ f[a] \in Int /\ Only(f, S, U)[a] = 0
    <3>1. f \in [S -> Int] /\ f[a] \in D /\ a \in S /\ a \notin U
      BY <2>4
    <3> HIDE DEF U
    <3> QED BY <3>1 DEF Only
  <2>8. f[a] - Only(f, S, U)[a] = f[a]
    BY <2>7
  <2>9. g \in [SUBSET S -> Int]
    OBVIOUS
  <2>10. Sums(Only(f, S, T), S, Shifted(S, g, a, f[a]))
    <3>1. Sums([Only(f, S, U) EXCEPT ![a] = f[a]], S, Shifted(S, g, a, f[a] - Only(f, S, U)[a]))
      BY <2>4, <2>5, <2>7, <2>9, SumsExcept
    <3> QED BY <2>6, <2>8, <3>1
  <2>11. Shifted(S, g, a, f[a]) \in [SUBSET S -> D]
    BY <2>7 DEF Shifted
  <2> QED BY <2>2, <2>10, <2>11
<1>2. Summed(S)
  BY <1>1
<1>3. Only(f, S, S) = f
  BY DEF Only
<1> QED BY <1>2, <1>3

-----------------------------------------------------------------------------
(* The sum of numbers is a number, of naturals a natural.                  *)
THEOREM SumType ==
    ASSUME NEW S, IsFiniteSet(S), NEW D, D = Nat \/ D = Int, NEW f \in [S -> D]
    PROVE  SumFunctionOnSet(f, S) \in D
<1>1. PICK g \in [SUBSET S -> D] : Sums(f, S, g)
  BY SumsExist
<1>2. g[S] \in D
  OBVIOUS
<1> QED BY <1>1, <1>2, SumIs

(* Nothing sums to zero.                                                   *)
THEOREM SumZero ==
    ASSUME NEW S, IsFiniteSet(S), NEW f, \A x \in S : f[x] = 0
    PROVE  SumFunctionOnSet(f, S) = 0
<1>1. Sums(f, S, [s \in SUBSET S |-> 0])
  BY SumsZero
<1> QED BY <1>1, SumIs

(* A sum changes by as much as one of its terms.                           *)
THEOREM SumExcept ==
    ASSUME NEW S, IsFiniteSet(S), NEW f \in [S -> Int], NEW a \in S, NEW v \in Int
    PROVE  SumFunctionOnSet([f EXCEPT ![a] = v], S) = SumFunctionOnSet(f, S) + (v - f[a])
<1>1. PICK g \in [SUBSET S -> Int] : Sums(f, S, g)
  BY SumsExist
<1>2. Sums([f EXCEPT ![a] = v], S, Shifted(S, g, a, v - f[a]))
  BY <1>1, SumsExcept
<1>3. SumFunctionOnSet([f EXCEPT ![a] = v], S) = Shifted(S, g, a, v - f[a])[S]
  BY <1>2, SumIs
<1>4. SumFunctionOnSet(f, S) = g[S]
  BY <1>1, SumIs
<1> QED BY <1>3, <1>4 DEF Shifted

(* A sum of naturals is at least each of its terms, and the only term that *)
(* is not zero when there is one.                                          *)
THEOREM SumBounds ==
    ASSUME NEW S, IsFiniteSet(S), NEW f \in [S -> Nat]
    PROVE  /\ SumFunctionOnSet(f, S) \in Nat
           /\ \A a \in S : f[a] <= SumFunctionOnSet(f, S)
           /\ SumFunctionOnSet(f, S) > 0 <=> \E a \in S : f[a] > 0
           /\ \A a \in S : (\A x \in S \ {a} : f[x] = 0) => SumFunctionOnSet(f, S) = f[a]
<1>1. SumFunctionOnSet(f, S) \in Nat
  BY SumType
<1>2. ASSUME NEW a \in S
      PROVE  /\ f[a] <= SumFunctionOnSet(f, S)
             /\ (\A x \in S \ {a} : f[x] = 0) => SumFunctionOnSet(f, S) = f[a]
  <2> DEFINE u == [f EXCEPT ![a] = 0]
  <2>1. u \in [S -> Nat] /\ f \in [S -> Int] /\ f[a] \in Nat
    OBVIOUS
  <2>2. SumFunctionOnSet(u, S) = SumFunctionOnSet(f, S) + (0 - f[a])
    <3>1. \A v \in Int : SumFunctionOnSet([f EXCEPT ![a] = v], S)
                          = SumFunctionOnSet(f, S) + (v - f[a])
      BY <2>1, SumExcept
    <3>2. 0 \in Int
      OBVIOUS
    <3> QED BY <3>1, <3>2, Zenon
  <2>3. SumFunctionOnSet(u, S) \in Nat
    BY <2>1, SumType
  <2>4. ASSUME \A x \in S \ {a} : f[x] = 0 PROVE SumFunctionOnSet(u, S) = 0
    <3>1. \A x \in S : u[x] = 0
      BY <2>4
    <3> HIDE DEF u
    <3> QED BY <3>1, SumZero
  <2> HIDE DEF u
  <2> QED BY <1>1, <2>1, <2>2, <2>3, <2>4
<1>3. SumFunctionOnSet(f, S) > 0 => \E a \in S : f[a] > 0
  <2>1. (\A x \in S : f[x] = 0) => SumFunctionOnSet(f, S) = 0
    BY SumZero
  <2> QED BY <1>1, <2>1
<1> QED BY <1>1, <1>2, <1>3

(* Functions that agree on a set have the same sum over it.                *)
THEOREM SumAgree ==
    ASSUME NEW S, NEW f, NEW h, \A x \in S : f[x] = h[x]
    PROVE  SumFunctionOnSet(f, S) = SumFunctionOnSet(h, S)
<1>1. \A s \in SUBSET S : s # {} => f[Pick(s)] = h[Pick(s)]
  BY PickProperties
<1>2. \A g : Sums(f, S, g) <=> Sums(h, S, g)
  BY <1>1 DEF Sums
<1>3. (CHOOSE g : Sums(f, S, g)) = (CHOOSE g : Sums(h, S, g))
  BY <1>2
<1> QED BY <1>3, SumIsChosen

LEMMA SumPick ==
    ASSUME NEW S, IsFiniteSet(S), S # {}, NEW f \in [S -> Int]
    PROVE  SumFunctionOnSet(f, S) = f[Pick(S)] + SumFunctionOnSet(f, S \ {Pick(S)})
<1> DEFINE p == Pick(S)
           R == S \ {p}
<1>1. PICK g \in [SUBSET S -> Int] : Sums(f, S, g)
  BY SumsExist
<1> DEFINE h == [s \in SUBSET R |-> g[s]]
<1>2. p \in S /\ S \in SUBSET S /\ R \in SUBSET S /\ IsFiniteSet(R)
  BY PickProperties, FS_RemoveElement
<1>3. g[S] = f[p] + g[R]
  BY <1>1, <1>2, SumsStep
<1>4. Sums(f, R, h)
  <2>1. ASSUME NEW s \in SUBSET R
        PROVE  h[s] = IF s = {} THEN 0 ELSE f[Pick(s)] + h[s \ {Pick(s)}]
    <3>1. s \in SUBSET S /\ s \ {Pick(s)} \in SUBSET R
      BY <1>2
    <3>2. h[s] = g[s] /\ h[s \ {Pick(s)}] = g[s \ {Pick(s)}]
      BY <3>1
    <3> HIDE DEF h, R
    <3>3. (s = {} => g[s] = 0) /\ (s # {} => g[s] = f[Pick(s)] + g[s \ {Pick(s)}])
      BY <1>1, <3>1, SumsStep
    <3> QED BY <3>2, <3>3
  <2>2. h = [s \in SUBSET R |-> h[s]]
    OBVIOUS
  <2> HIDE DEF h, R
  <2> QED BY <2>1, <2>2 DEF Sums
<1>5. SumFunctionOnSet(f, R) = h[R]
  <2> HIDE DEF h, R
  <2> QED BY <1>2, <1>4, SumIs
<1>6. SumFunctionOnSet(f, S) = g[S]
  BY <1>1, SumIs
<1> QED BY <1>3, <1>5, <1>6

(* Terms that are zero may be left out of a sum.                           *)
THEOREM SumSubset ==
    ASSUME NEW T, IsFiniteSet(T), NEW S \in SUBSET T, NEW f \in [T -> Int], \A x \in T \ S : f[x] = 0
    PROVE  SumFunctionOnSet(f, T) = SumFunctionOnSet(f, S)
<1> DEFINE Wrong(s, h) == h \in [T -> Int] /\ (\A x \in T \ s : h[x] = 0)
                          /\ SumFunctionOnSet(h, T) # SumFunctionOnSet(h, s)
           B == {s \in SUBSET T : \E h : Wrong(s, h)}
<1>1. B = {}
  <2> SUFFICES ASSUME B # {} PROVE FALSE
    OBVIOUS
  <2>1. PICK s \in B : \A t \in B : ~(t \subseteq s /\ t # s)
    <3>1. B \subseteq SUBSET T
      OBVIOUS
    <3> HIDE DEF B
    <3> QED BY <3>1, LeastSubset
  <2>2. s \in SUBSET T /\ IsFiniteSet(s)
    BY FS_Subset
  <2>3. PICK h : Wrong(s, h)
    OBVIOUS
  <2>4. s # {}
    <3> SUFFICES ASSUME s = {} PROVE FALSE
      OBVIOUS
    <3>1. \A x \in T : h[x] = 0
      BY <2>3
    <3>2. SumFunctionOnSet(h, T) = 0 /\ SumFunctionOnSet(h, s) = 0
      BY <3>1, SumZero, FS_EmptySet
    <3> QED BY <2>3, <3>2
  <2> DEFINE p == Pick(s)
             r == s \ {p}
             u == [h EXCEPT ![p] = 0]
  <2>5. p \in s /\ p \in T /\ r \in SUBSET T /\ r \subseteq s /\ r # s
    BY <2>2, <2>4, PickProperties
  <2>6. u \in [T -> Int] /\ u[p] = 0 /\ (\A x \in T : x # p => u[x] = h[x]) /\ h[p] \in Int /\ h \in [T -> Int]
    BY <2>3, <2>5
  <2>7. \A x \in T \ r : u[x] = 0
    BY <2>3, <2>5, <2>6
  <2>8. r \notin B
    BY <2>1, <2>5
  <2>9. SumFunctionOnSet(u, T) = SumFunctionOnSet(u, r)
    <3> HIDE DEF r, u
    <3> QED BY <2>5, <2>6, <2>7, <2>8
  <2>10. SumFunctionOnSet(u, T) = SumFunctionOnSet(h, T) + (0 - h[p])
    <3>1. \A v \in Int : SumFunctionOnSet([h EXCEPT ![p] = v], T) = SumFunctionOnSet(h, T) + (v - h[p])
      <4>1. p \in T /\ h \in [T -> Int]
        BY <2>5, <2>6
      <4> HIDE DEF p, u, r, B
      <4> QED BY <4>1, SumExcept
    <3>2. 0 \in Int
      OBVIOUS
    <3> QED BY <3>1, <3>2, Zenon
  <2>11. SumFunctionOnSet(u, r) = SumFunctionOnSet(h, r)
    <3>1. \A x \in r : u[x] = h[x]
      BY <2>5, <2>6
    <3> HIDE DEF r, u
    <3> QED BY <3>1, SumAgree
  <2>12. SumFunctionOnSet(h, s) = h[p] + SumFunctionOnSet(h, r)
    <3> DEFINE k == [x \in s |-> h[x]]
    <3>1. k \in [s -> Int] /\ (\A x \in s : k[x] = h[x]) /\ \A x \in r : k[x] = h[x]
      BY <2>2, <2>5, <2>6
    <3> HIDE DEF k
    <3>2. SumFunctionOnSet(k, s) = k[p] + SumFunctionOnSet(k, r)
      BY <2>2, <2>4, <3>1, SumPick
    <3>3. SumFunctionOnSet(k, s) = SumFunctionOnSet(h, s) /\ SumFunctionOnSet(k, r) = SumFunctionOnSet(h, r)
      <4> HIDE DEF r
      <4> QED BY <3>1, SumAgree
    <3> QED BY <2>5, <3>1, <3>2, <3>3
  <2>13. SumFunctionOnSet(h, T) \in Int /\ SumFunctionOnSet(u, T) \in Int
    BY <2>6, SumType
  <2> HIDE DEF u, r, p
  <2>14. SumFunctionOnSet(h, T) = SumFunctionOnSet(h, s)
    <3>1. \A a, b, c \in Int : \A d : b = a + (0 - c) /\ d = c + b => d = a
      OBVIOUS
    <3>2. SumFunctionOnSet(h, s) = h[p] + SumFunctionOnSet(u, T)
      BY <2>9, <2>11, <2>12, Zenon
    <3> QED BY <2>6, <2>10, <2>13, <3>1, <3>2
  <2> QED BY <2>3, <2>14
<1>2. ~Wrong(S, f)
  BY <1>1
<1> QED BY <1>2

LEMMA SumAdd ==
    ASSUME NEW S, IsFiniteSet(S), NEW u \in [S -> Int], NEW v \in [S -> Int],
           NEW f, \A x \in S : f[x] = u[x] + v[x]
    PROVE  SumFunctionOnSet(f, S) = SumFunctionOnSet(u, S) + SumFunctionOnSet(v, S)
<1>1. PICK g \in [SUBSET S -> Int] : Sums(u, S, g)
  BY SumsExist
<1>2. PICK h \in [SUBSET S -> Int] : Sums(v, S, h)
  BY SumsExist
<1> DEFINE k == [s \in SUBSET S |-> g[s] + h[s]]
<1>3. ASSUME NEW s \in SUBSET S
      PROVE  k[s] = IF s = {} THEN 0 ELSE f[Pick(s)] + k[s \ {Pick(s)}]
  <2>1. k[s] = g[s] + h[s]
    OBVIOUS
  <2>2. (s = {} => g[s] = 0) /\ (s # {} => g[s] = u[Pick(s)] + g[s \ {Pick(s)}])
    BY <1>1, SumsStep
  <2>3. (s = {} => h[s] = 0) /\ (s # {} => h[s] = v[Pick(s)] + h[s \ {Pick(s)}])
    <3> HIDE DEF k
    <3> QED BY ONLY Sums(v, S, h), s \in SUBSET S, SumsStep
  <2>4. CASE s = {}
    BY <2>1, <2>4, <2>2, <2>3
  <2>5. CASE s # {}
    <3> DEFINE p == Pick(s)
               r == s \ {p}
    <3>1. p \in S /\ r \in SUBSET S
      BY <2>5, PickProperties
    <3>2. g[s] = u[p] + g[r]
      BY <2>5, <2>2
    <3>3. h[s] = v[p] + h[r]
      BY <2>5, <2>3
    <3>4. k[r] = g[r] + h[r] /\ f[p] = u[p] + v[p]
      BY <3>1
    <3>5. u[p] \in Int /\ v[p] \in Int /\ g[r] \in Int /\ h[r] \in Int
      BY <3>1
    <3> HIDE DEF k, p, r
    <3>6. k[s] = f[p] + k[r]
      BY <2>1, <3>2, <3>3, <3>4, <3>5
    <3> QED BY <2>5, <3>6 DEF p, r
  <2> HIDE DEF k
  <2> QED BY <2>4, <2>5
<1>4. k = [s \in SUBSET S |-> k[s]] /\ k[S] = g[S] + h[S]
  OBVIOUS
<1> HIDE DEF k
<1>5. Sums(f, S, k)
  BY <1>3, <1>4 DEF Sums
<1> QED BY <1>1, <1>2, <1>4, <1>5, SumIs

(* Clearing some terms takes their sum off.                                *)
THEOREM SumCleared ==
    ASSUME NEW S, IsFiniteSet(S), NEW D \in SUBSET S, NEW f \in [S -> Int],
           NEW u, \A x \in S : u[x] = IF x \in D THEN 0 ELSE f[x]
    PROVE  SumFunctionOnSet(f, S) = SumFunctionOnSet(u, S) + SumFunctionOnSet(f, D)
<1> DEFINE w == [x \in S |-> IF x \in D THEN 0 ELSE f[x]]
           v == [x \in S |-> IF x \in D THEN f[x] ELSE 0]
<1>1. w \in [S -> Int] /\ v \in [S -> Int] /\ \A x \in S : f[x] = w[x] + v[x]
  OBVIOUS
<1>2. (\A x \in S \ D : v[x] = 0) /\ (\A x \in D : v[x] = f[x]) /\ \A x \in S : w[x] = u[x]
  OBVIOUS
<1> HIDE DEF v, w
<1>3. SumFunctionOnSet(f, S) = SumFunctionOnSet(w, S) + SumFunctionOnSet(v, S)
  BY <1>1, SumAdd
<1>4. SumFunctionOnSet(v, S) = SumFunctionOnSet(v, D)
  BY <1>1, <1>2, SumSubset
<1>5. SumFunctionOnSet(v, D) = SumFunctionOnSet(f, D) /\ SumFunctionOnSet(w, S) = SumFunctionOnSet(u, S)
  BY <1>2, SumAgree
<1> QED BY <1>3, <1>4, <1>5

(* The sum of what records hold, as the modules write it.                  *)
LEMMA SumOfHeld ==
    ASSUME NEW S, NEW rs, NEW c
    PROVE  MapThenSumSet(LAMBDA r : rs[r].held[c], S) = SumFunctionOnSet([r \in S |-> rs[r].held[c]], S)
<1> DEFINE f == [r \in S |-> rs[r].held[c]]
<1>1. MapThenSumSet(LAMBDA r : rs[r].held[c], S)
         = (CHOOSE g : g = [s \in SUBSET S |-> IF s = {} THEN 0
                                ELSE rs[Pick(s)].held[c] + g[s \ {Pick(s)}]])[S]
  BY Zenon DEF MapThenSumSet, MapThenFoldSet, Pick
<1>2. \A s \in SUBSET S : s # {} => f[Pick(s)] = rs[Pick(s)].held[c]
  BY PickProperties
<1> HIDE DEF f
<1>3. \A g : Sums(f, S, g) <=> g = [s \in SUBSET S |-> IF s = {} THEN 0
                                ELSE rs[Pick(s)].held[c] + g[s \ {Pick(s)}]]
  BY <1>2 DEF Sums
<1>4. MapThenSumSet(LAMBDA r : rs[r].held[c], S) = SumFunctionOnSet(f, S)
  BY <1>1, <1>3, SumIsChosen
<1> QED BY <1>4 DEF f

-----------------------------------------------------------------------------
LEMMA LeastNat ==
    ASSUME NEW T, T \subseteq Nat, T # {}
    PROVE  \E m \in T : \A k \in T : m <= k
<1> DEFINE R == OpToRel(<, Nat)
<1>1. IsWellFoundedOn(R, Nat)
  BY NatLessThanWellFounded
<1>2. \A x, y \in Nat : x < y => <<x, y>> \in R
  BY DEF OpToRel
<1> HIDE DEF R
<1>3. PICK m \in T : \A k \in T : <<k, m>> \notin R
  BY <1>1, WFMin
<1>4. ASSUME NEW k \in T PROVE m <= k
  <2>1. ~(k < m) /\ k \in Nat /\ m \in Nat
    BY <1>2, <1>3
  <2> QED BY <2>1
<1> QED BY <1>4

(* Induction, of the set of the numbers that have the property.            *)
LEMMA Induction ==
    ASSUME NEW S, S \subseteq Nat, 0 \in S, \A k \in S : k + 1 \in S
    PROVE  S = Nat
<1> SUFFICES ASSUME Nat \ S # {} PROVE FALSE
  OBVIOUS
<1>1. PICK m \in Nat \ S : \A k \in Nat \ S : m <= k
  <2>1. Nat \ S \subseteq Nat
    OBVIOUS
  <2> QED BY <2>1, LeastNat
<1>2. m # 0 /\ m - 1 \in Nat /\ (m - 1) + 1 = m
  BY <1>1
<1>3. m - 1 \in S
  BY <1>1, <1>2
<1> QED BY <1>1, <1>2, <1>3

(* Recursion, of a function that gives the next value.                     *)
Recurs(F, v, step) == F[0] = v /\ \A k \in Nat : F[k + 1] = step[<<k, F[k]>>]

LEMMA RecursionExists ==
    ASSUME NEW V, NEW v \in V, NEW step \in [Nat \X V -> V]
    PROVE  \E F \in [Nat -> V] : Recurs(F, v, step)
<1> DEFINE Upto(n, F) == F \in [0..n -> V] /\ F[0] = v /\ \A k \in 0..(n - 1) : F[k + 1] = step[<<k, F[k]>>]
           S == {n \in Nat : \E F : Upto(n, F)}
<1>1. 0 \in S
  <2>1. Upto(0, [k \in 0..0 |-> v])
    OBVIOUS
  <2> QED BY <2>1
<1>2. ASSUME NEW n \in S PROVE n + 1 \in S
  <2>1. PICK F : Upto(n, F)
    OBVIOUS
  <2> DEFINE x == step[<<n, F[n]>>]
             G == [k \in 0..(n + 1) |-> IF k = n + 1 THEN x ELSE F[k]]
  <2>2. n \in 0..n /\ n \in Nat /\ F[n] \in V /\ x \in V
    BY <2>1
  <2> HIDE DEF x
  <2>3. G \in [0..(n + 1) -> V]
    BY <2>1, <2>2
  <2>4. ASSUME NEW k \in 0..n PROVE G[k + 1] = step[<<k, G[k]>>]
    <3>1. CASE k = n
      <4>1. n + 1 \in 0..(n + 1) /\ n \in 0..(n + 1) /\ n # n + 1
        BY <2>2
      <4>2. G[n + 1] = x /\ G[n] = F[n]
        BY <4>1
      <4> QED BY <3>1, <4>2, Zenon DEF x
    <3>2. CASE k # n
      <4>1. k \in 0..(n - 1) /\ k + 1 \in 0..n /\ k \in 0..n /\ k + 1 # n + 1 /\ k # n + 1
        BY <2>2, <3>2
      <4>2. F[k + 1] = step[<<k, F[k]>>]
        BY <2>1, <4>1
      <4> QED BY <2>2, <4>1, <4>2
    <3> QED BY <3>1, <3>2
  <2>5. G[0] = v
    BY <2>1, <2>2
  <2>6. (n + 1) - 1 = n
    BY <2>2
  <2> HIDE DEF G
  <2>7. Upto(n + 1, G)
    BY <2>3, <2>4, <2>5, <2>6
  <2> QED BY <2>2, <2>7
<1> HIDE DEF S
<1>3. S = Nat
  <2>1. S \subseteq Nat
    BY DEF S
  <2> QED BY <1>1, <1>2, <2>1, Induction
<1>4. ASSUME NEW m \in Nat, NEW n \in Nat, NEW F, Upto(m, F), NEW G, Upto(n, G), NEW k \in Nat, k <= m, k <= n
      PROVE  F[k] = G[k]
  <2> DEFINE E == {j \in Nat : j <= m /\ j <= n => F[j] = G[j]}
  <2>1. 0 \in E
    BY <1>4
  <2>2. ASSUME NEW j \in E PROVE j + 1 \in E
    <3> SUFFICES ASSUME j + 1 <= m, j + 1 <= n PROVE F[j + 1] = G[j + 1]
      OBVIOUS
    <3>1. j \in Nat /\ j <= m /\ j <= n /\ j \in 0..(m - 1) /\ j \in 0..(n - 1)
      OBVIOUS
    <3>2. F[j] = G[j]
      BY <3>1
    <3> QED BY <1>4, <3>1, <3>2
  <2> HIDE DEF E
  <2>3. E = Nat
    <3>1. E \subseteq Nat
      BY DEF E
    <3> QED BY <2>1, <2>2, <3>1, Induction
  <2> QED BY <1>4, <2>3 DEF E
<1> DEFINE A(n) == CHOOSE F : Upto(n, F)
           F == [n \in Nat |-> A(n)[n]]
<1>5. \A n \in Nat : Upto(n, A(n))
  BY <1>3 DEF S
<1> HIDE DEF A
<1>6. \A n \in Nat : A(n)[n] \in V
  BY <1>5
<1>7. F[0] = v
  BY <1>5
<1>8. ASSUME NEW k \in Nat PROVE F[k + 1] = step[<<k, F[k]>>]
  <2>1. k + 1 \in Nat /\ k \in 0..((k + 1) - 1) /\ k <= k + 1 /\ k <= k
    OBVIOUS
  <2>2. A(k + 1)[k + 1] = step[<<k, A(k + 1)[k]>>]
    BY <1>5, <2>1
  <2>3. A(k + 1)[k] = A(k)[k]
    <3>1. Upto(k + 1, A(k + 1)) /\ Upto(k, A(k))
      BY <1>5, <2>1
    <3> HIDE DEF Upto
    <3> QED BY <1>4, <2>1, <3>1
  <2>4. F[k] = A(k)[k] /\ F[k + 1] = A(k + 1)[k + 1]
    BY <2>1
  <2> QED BY <2>2, <2>3, <2>4, Zenon
<1>9. F \in [Nat -> V]
  BY <1>6
<1> HIDE DEF F
<1> QED BY <1>7, <1>8, <1>9 DEF Recurs

-----------------------------------------------------------------------------
(* F[k] is the first k of the sequences, one behind the other.             *)
Joined(T, seqs, F) ==
    /\ F \in [0..Len(seqs) -> Seq(T)] /\ F[0] = <<>>
    /\ \A k \in 1..Len(seqs) : F[k] = F[k - 1] \o seqs[k]

LEMMA JoinedSteps ==
    ASSUME NEW T, NEW seqs \in Seq(Seq(T)), NEW F, Joined(T, seqs, F)
    PROVE  /\ Len(seqs) \in Nat /\ F[0] = <<>>
           /\ \A k \in 0..Len(seqs) : F[k] \in Seq(T) /\ Len(F[k]) \in Nat
           /\ \A k \in 1..Len(seqs) : F[k] = F[k - 1] \o seqs[k] /\ seqs[k] \in Seq(T) /\ Len(seqs[k]) \in Nat
<1> DEFINE n == Len(seqs)
<1>1. n \in Nat /\ \A k \in 1..n : seqs[k] \in Seq(T)
  OBVIOUS
<1>2. F \in [0..n -> Seq(T)] /\ F[0] = <<>> /\ \A k \in 1..n : F[k] = F[k - 1] \o seqs[k]
  BY DEF Joined
<1>3. \A q \in Seq(T) : Len(q) \in Nat
  OBVIOUS
<1>4. \A k \in 0..n : F[k] \in Seq(T)
  BY <1>2
<1> QED BY <1>1, <1>2, <1>3, <1>4

LEMMA JoinedExists ==
    ASSUME NEW T, NEW seqs \in Seq(Seq(T))
    PROVE  \E F : Joined(T, seqs, F)
<1> DEFINE n == Len(seqs)
           step == [p \in Nat \X Seq(T) |-> IF p[1] + 1 \in 1..n THEN p[2] \o seqs[p[1] + 1] ELSE p[2]]
<1>1. n \in Nat /\ \A k \in 1..n : seqs[k] \in Seq(T)
  OBVIOUS
<1>2. \A k \in Nat, q \in Seq(T) : step[<<k, q>>] = IF k + 1 \in 1..n THEN q \o seqs[k + 1] ELSE q
  OBVIOUS
<1>3. step \in [Nat \X Seq(T) -> Seq(T)]
  <2>1. ASSUME NEW k \in Nat, NEW q \in Seq(T) PROVE step[<<k, q>>] \in Seq(T)
    <3> HIDE DEF step, n
    <3>1. CASE k + 1 \in 1..n
      <4>1. seqs[k + 1] \in Seq(T)
        BY <1>1, <3>1
      <4>2. q \o seqs[k + 1] \in Seq(T)
        BY <4>1
      <4> QED BY <1>2, <3>1, <4>2
    <3>2. CASE k + 1 \notin 1..n
      BY <1>2, <3>2
    <3> QED BY <3>1, <3>2
  <2>2. \A p \in Nat \X Seq(T) : step[p] \in Seq(T)
    BY <2>1
  <2> QED BY <2>2
<1> HIDE DEF step
<1>4. PICK F \in [Nat -> Seq(T)] : Recurs(F, <<>>, step)
  <2>1. <<>> \in Seq(T)
    OBVIOUS
  <2> QED BY <1>3, <2>1, RecursionExists
<1> HIDE DEF n
<1> DEFINE G == [k \in 0..n |-> F[k]]
<1>5. G \in [0..n -> Seq(T)] /\ G[0] = <<>>
  BY <1>1, <1>4 DEF Recurs
<1>6. ASSUME NEW k \in 1..n PROVE G[k] = G[k - 1] \o seqs[k]
  <2>1. k - 1 \in Nat /\ (k - 1) + 1 = k /\ k \in 0..n /\ k - 1 \in 0..n /\ F[k - 1] \in Seq(T)
    BY <1>1
  <2>2. F[k] = step[<<k - 1, F[k - 1]>>]
    BY <1>4, <2>1 DEF Recurs
  <2>3. F[k] = F[k - 1] \o seqs[k]
    BY <1>2, <2>1, <2>2
  <2> QED BY <2>1, <2>3
<1> HIDE DEF G
<1> QED BY <1>5, <1>6 DEF Joined, n

(* FlattenSeq joins its sequences.                                         *)
LEMMA FlattenIsJoined ==
    ASSUME NEW T, NEW seqs \in Seq(Seq(T)), NEW F, Joined(T, seqs, F), NEW m \in 0..Len(seqs)
    PROVE  FlattenSeq([j \in 1..m |-> seqs[j]]) = F[m]
<1> DEFINE n == Len(seqs)
           ss == [j \in 1..m |-> seqs[j]]
           Flattens(g) == g = [i \in 1..m |-> IF i = 1 THEN ss[i] ELSE g[i - 1] \o ss[i]]
<1>1. n \in Nat /\ m \in Nat /\ m <= n /\ F[0] = <<>>
      /\ \A k \in 1..n : F[k] = F[k - 1] \o seqs[k] /\ seqs[k] \in Seq(T)
  <2>1. n \in Nat
    OBVIOUS
  <2>2. F[0] = <<>> /\ \A k \in 0..n : F[k] \in Seq(T) /\ Len(F[k]) \in Nat
    BY JoinedSteps
  <2>3. \A k \in 1..n : F[k] = F[k - 1] \o seqs[k] /\ seqs[k] \in Seq(T)
    BY JoinedSteps
  <2>4. m \in Nat /\ m <= n
    OBVIOUS
  <2> QED BY <2>1, <2>2, <2>3, <2>4
<1>2. Len(ss) = m /\ ss \in Seq(Seq(T)) /\ \A j \in 1..m : ss[j] = seqs[j]
  BY <1>1
<1> HIDE DEF n
<1>3. CASE m = 0
  <2>1. ss = <<>>
    BY <1>3
  <2>2. FlattenSeq(ss) = ss
    BY <1>2, <1>3, Zenon DEF FlattenSeq
  <2> QED BY <1>1, <1>3, <2>1, <2>2
<1>4. CASE m # 0
  <2> HIDE DEF ss
  <2>1. FlattenSeq(ss) = (CHOOSE g : Flattens(g))[m]
    <3>1. Len(ss) # 0
      BY <1>2, <1>4
    <3>2. FlattenSeq(ss) = (CHOOSE g : g = [i \in 1..Len(ss) |-> IF i = 1 THEN ss[i] ELSE g[i - 1] \o ss[i]])[Len(ss)]
      BY <3>1, Zenon DEF FlattenSeq
    <3> QED BY <1>2, <3>2, Zenon
  <2> DEFINE G == [i \in 1..m |-> F[i]]
  <2>2. Flattens(G)
    <3>1. ASSUME NEW i \in 1..m PROVE F[i] = IF i = 1 THEN ss[i] ELSE G[i - 1] \o ss[i]
      <4>0. i \in 1..n /\ i \in Nat
        BY <1>1
      <4>1. ss[i] = seqs[i] /\ seqs[i] \in Seq(T) /\ F[i] = F[i - 1] \o seqs[i]
        BY <1>1, <1>2, <4>0
      <4>2. CASE i = 1
        <5>1. F[i - 1] = <<>>
          BY <1>1, <4>2
        <5>2. <<>> \o seqs[i] = seqs[i]
          BY <4>1
        <5> QED BY <4>1, <4>2, <5>1, <5>2
      <4>3. CASE i # 1
        <5>1. i - 1 \in 1..m
          BY <1>1, <4>3
        <5>2. G[i - 1] = F[i - 1]
          BY <5>1
        <5> QED BY <4>1, <4>3, <5>2
      <4> QED BY <4>2, <4>3
    <3> QED BY <3>1
  <2> HIDE DEF G, Flattens
  <2> DEFINE g == CHOOSE h : Flattens(h)
  <2>3. Flattens(g)
    BY <2>2
  <2> HIDE DEF g
  <2>4. \A i \in 1..m : g[i] = IF i = 1 THEN ss[i] ELSE g[i - 1] \o ss[i]
    BY <2>3, Zenon DEF Flattens
  <2> DEFINE S == {k \in Nat : k + 1 <= m => g[k + 1] = F[k + 1]}
  <2>5. 0 \in S
    <3>1. 1 \in 1..m /\ 1 \in 1..n
      BY <1>1, <1>4
    <3>2. g[1] = ss[1] /\ ss[1] = seqs[1]
      BY <1>2, <2>4, <3>1
    <3>3. F[1] = F[0] \o seqs[1] /\ seqs[1] \in Seq(T)
      <4>1. 1 - 1 = 0
        OBVIOUS
      <4>2. F[1] = F[1 - 1] \o seqs[1] /\ seqs[1] \in Seq(T)
        BY <1>1, <3>1
      <4> QED BY <4>1, <4>2
    <3>4. F[1] = seqs[1]
      <4>1. F[1] = <<>> \o seqs[1]
        BY <1>1, <3>3
      <4>2. <<>> \o seqs[1] = seqs[1]
        BY <3>3
      <4> QED BY <4>1, <4>2
    <3> QED BY <3>2, <3>4
  <2>6. ASSUME NEW k \in S PROVE k + 1 \in S
    <3> SUFFICES ASSUME (k + 1) + 1 <= m PROVE g[(k + 1) + 1] = F[(k + 1) + 1]
      OBVIOUS
    <3> DEFINE j == (k + 1) + 1
    <3>0. k \in Nat /\ (k + 1 <= m => g[k + 1] = F[k + 1])
      OBVIOUS
    <3>1. j \in 1..m /\ j \in 1..n /\ j # 1 /\ j - 1 = k + 1 /\ k + 1 <= m
      BY <1>1, <3>0
    <3>2. g[k + 1] = F[k + 1]
      BY <3>0, <3>1
    <3> HIDE DEF j
    <3>3. g[j] = g[j - 1] \o ss[j] /\ ss[j] = seqs[j] /\ F[j] = F[j - 1] \o seqs[j]
      BY <1>1, <1>2, <2>4, <3>1
    <3> QED BY <3>1, <3>2, <3>3 DEF j
  <2>7. S = Nat
    <3>1. S \subseteq Nat
      OBVIOUS
    <3> HIDE DEF S
    <3> QED BY <2>5, <2>6, <3>1, Induction
  <2>8. m - 1 \in Nat /\ (m - 1) + 1 = m
    BY <1>1, <1>4
  <2>9. g[m] = F[m]
    <3>1. m - 1 \in S
      BY <2>7, <2>8
    <3> QED BY <1>1, <2>8, <3>1
  <2>10. FlattenSeq(ss) = g[m]
    BY <2>1 DEF g
  <2> QED BY <2>9, <2>10 DEF ss
<1> QED BY <1>3, <1>4

LEMMA JoinedPrefix ==
    ASSUME NEW T, NEW seqs \in Seq(Seq(T)), NEW F, Joined(T, seqs, F),
           NEW i \in 0..Len(seqs), NEW m \in i..Len(seqs)
    PROVE  Len(F[i]) <= Len(F[m]) /\ \A j \in 1..Len(F[i]) : F[m][j] = F[i][j]
<1> DEFINE n == Len(seqs)
           Kept(k) == Len(F[i]) <= Len(F[k]) /\ \A j \in 1..Len(F[i]) : F[k][j] = F[i][j]
           S == {k \in Nat : i + k <= n => Kept(i + k)}
<1>1. /\ n \in Nat /\ i \in Nat /\ m \in Nat /\ i <= n
      /\ \A k \in 0..n : F[k] \in Seq(T) /\ Len(F[k]) \in Nat
      /\ \A k \in 1..n : F[k] = F[k - 1] \o seqs[k] /\ seqs[k] \in Seq(T)
  <2>1. n \in Nat
    OBVIOUS
  <2>2. F[0] = <<>> /\ \A k \in 0..n : F[k] \in Seq(T) /\ Len(F[k]) \in Nat
    BY JoinedSteps
  <2>3. \A k \in 1..n : F[k] = F[k - 1] \o seqs[k] /\ seqs[k] \in Seq(T)
    BY JoinedSteps
  <2>4. i \in Nat /\ m \in Nat /\ i <= n
    OBVIOUS
  <2> QED BY <2>1, <2>2, <2>3, <2>4
<1> HIDE DEF n
<1>2. F[i] \in Seq(T) /\ Len(F[i]) \in Nat /\ i + 0 = i
  BY <1>1
<1>3. 0 \in S
  BY <1>2
<1>4. ASSUME NEW k \in S PROVE k + 1 \in S
  <2> SUFFICES ASSUME i + (k + 1) <= n PROVE Kept(i + (k + 1))
    OBVIOUS
  <2> DEFINE a == i + k
             b == i + (k + 1)
  <2>1. k \in Nat /\ a \in 0..n /\ b \in 1..n /\ b - 1 = a /\ a <= n
    BY <1>1
  <2>2. Kept(a)
    BY <2>1
  <2> HIDE DEF a, b
  <2>3. F[a] \in Seq(T) /\ seqs[b] \in Seq(T) /\ F[b] = F[a] \o seqs[b]
    BY <1>1, <2>1
  <2>4. /\ Len(F[b]) = Len(F[a]) + Len(seqs[b]) /\ Len(F[a]) \in Nat /\ Len(seqs[b]) \in Nat
        /\ \A j \in 1..Len(F[a]) : F[b][j] = F[a][j]
    <3> DEFINE x == F[a]
               y == seqs[b]
    <3>1. x \in Seq(T) /\ y \in Seq(T) /\ F[b] = x \o y
      BY <2>3
    <3> HIDE DEF x, y
    <3>2. Len(x \o y) = Len(x) + Len(y) /\ Len(x) \in Nat /\ Len(y) \in Nat
          /\ \A j \in 1..Len(x) : (x \o y)[j] = x[j]
      BY <3>1
    <3> QED BY <3>1, <3>2 DEF x, y
  <2>5. \A j \in 1..Len(F[i]) : j \in 1..Len(F[a])
    BY <1>2, <2>2, <2>4
  <2>6. Len(F[i]) <= Len(F[b])
    <3>1. \A x, y, z \in Nat : x <= y => x <= y + z
      OBVIOUS
    <3> QED BY <1>2, <2>2, <2>4, <3>1
  <2>7. \A j \in 1..Len(F[i]) : F[b][j] = F[i][j]
    BY <2>2, <2>4, <2>5
  <2> QED BY <2>6, <2>7 DEF b
<1>5. S = Nat
  <2>1. S \subseteq Nat
    OBVIOUS
  <2> HIDE DEF S
  <2> QED BY <1>3, <1>4, <2>1, Induction
<1>6. m - i \in Nat /\ i + (m - i) = m /\ m <= n
  BY <1>1 DEF n
<1> QED BY <1>5, <1>6

(* Every sequence stands in the joined one behind those before it.         *)
Stands(s, w, o) == \A j \in 1..Len(s) : w[o + j] = s[j]

LEMMA JoinedAt ==
    ASSUME NEW T, NEW seqs \in Seq(Seq(T)), NEW F, Joined(T, seqs, F), NEW i \in 1..Len(seqs)
    PROVE  /\ F[i - 1] \in Seq(T) /\ seqs[i] \in Seq(T) /\ F[i] = F[i - 1] \o seqs[i]
           /\ Len(F[i]) <= Len(F[Len(seqs)])
           /\ Stands(seqs[i], F[Len(seqs)], Len(F[i - 1]))
<1> DEFINE n == Len(seqs)
<1>0. n \in Nat /\ i \in 0..n /\ i - 1 \in 0..n /\ n \in i..n
  OBVIOUS
<1>1. /\ F[i - 1] \in Seq(T) /\ seqs[i] \in Seq(T) /\ F[i] = F[i - 1] \o seqs[i]
  BY <1>0, JoinedSteps
<1>2. Len(F[i]) <= Len(F[n]) /\ \A j \in 1..Len(F[i]) : F[n][j] = F[i][j]
  BY <1>0, JoinedPrefix
<1> HIDE DEF n
<1> DEFINE p == F[i - 1]
<1>3. p \in Seq(T) /\ Len(p) \in Nat /\ Len(seqs[i]) \in Nat
  BY <1>1
<1> HIDE DEF p
<1>4. F[i] = p \o seqs[i]
  BY <1>1 DEF p
<1>5. Len(F[i]) = Len(p) + Len(seqs[i]) /\ \A j \in 1..Len(seqs[i]) : F[i][Len(p) + j] = seqs[i][j]
  BY <1>1, <1>3, <1>4
<1>6. \A j \in 1..Len(seqs[i]) : Len(p) + j \in 1..Len(F[i])
  BY <1>3, <1>5
<1>7. Stands(seqs[i], F[n], Len(F[i - 1]))
  BY <1>2, <1>5, <1>6 DEF p, Stands
<1> QED BY <1>1, <1>2, <1>7 DEF n

-----------------------------------------------------------------------------
(* The sum over two sets apart.                                            *)
LEMMA SumJoin ==
    ASSUME NEW D, NEW f \in [D -> Int], NEW A \in SUBSET D, NEW B \in SUBSET D,
           IsFiniteSet(A), IsFiniteSet(B), A \cap B = {}
    PROVE  SumFunctionOnSet(f, A \cup B) = SumFunctionOnSet(f, A) + SumFunctionOnSet(f, B)
<1> DEFINE S == A \cup B
           g == [x \in S |-> f[x]]
           u == [x \in S |-> IF x \in B THEN 0 ELSE f[x]]
<1>1. IsFiniteSet(S) /\ B \in SUBSET S /\ A \in SUBSET S
  BY FS_Union
<1>2. g \in [S -> Int] /\ u \in [S -> Int] /\ (\A x \in S : u[x] = IF x \in B THEN 0 ELSE g[x])
      /\ (\A x \in S \ A : u[x] = 0) /\ (\A x \in A : u[x] = f[x]) /\ (\A x \in S : g[x] = f[x])
  OBVIOUS
<1> HIDE DEF g, u, S
<1>3. SumFunctionOnSet(g, S) = SumFunctionOnSet(u, S) + SumFunctionOnSet(g, B)
  BY <1>1, <1>2, SumCleared
<1>4. SumFunctionOnSet(u, S) = SumFunctionOnSet(u, A)
  BY <1>1, <1>2, SumSubset
<1>5. SumFunctionOnSet(u, A) = SumFunctionOnSet(f, A)
  BY <1>2, SumAgree
<1>6. SumFunctionOnSet(g, B) = SumFunctionOnSet(f, B)
  BY <1>1, <1>2, SumAgree
<1>7. SumFunctionOnSet(g, S) = SumFunctionOnSet(f, S)
  BY <1>2, SumAgree
<1>8. SumFunctionOnSet(f, S) = SumFunctionOnSet(f, A) + SumFunctionOnSet(f, B)
  BY <1>3, <1>4, <1>5, <1>6, <1>7
<1> QED
  BY <1>8 DEF S

(* One term more.                                                          *)
LEMMA SumGrow ==
    ASSUME NEW D, NEW f \in [D -> Int], NEW A \in SUBSET D, IsFiniteSet(A), NEW a \in D, a \notin A
    PROVE  SumFunctionOnSet(f, A \cup {a}) = SumFunctionOnSet(f, A) + f[a]
<1>1. IsFiniteSet({a}) /\ {a} \in SUBSET D /\ A \cap {a} = {} /\ {a} # {} /\ Pick({a}) = a
  BY FS_Singleton DEF Pick
<1>2. SumFunctionOnSet(f, A \cup {a}) = SumFunctionOnSet(f, A) + SumFunctionOnSet(f, {a})
  BY <1>1, SumJoin
<1> DEFINE g == [x \in {a} |-> f[x]]
<1>3. g \in [{a} -> Int] /\ (\A x \in {a} : g[x] = f[x]) /\ {a} \ {a} = {}
  OBVIOUS
<1> HIDE DEF g
<1>4. SumFunctionOnSet(g, {a}) = g[a] + SumFunctionOnSet(g, {a} \ {a})
  BY <1>1, <1>3, SumPick
<1>5. SumFunctionOnSet(g, {a} \ {a}) = 0
  <2>1. SumFunctionOnSet(g, {}) = 0
    BY FS_EmptySet, SumZero
  <2> QED
    BY <1>3, <2>1
<1>6. SumFunctionOnSet(g, {a}) = SumFunctionOnSet(f, {a})
  BY <1>3, SumAgree
<1>7. f[a] \in Int /\ g[a] = f[a]
  BY <1>3
<1>8. SumFunctionOnSet(f, {a}) = f[a]
  <2>1. \A n \in Int : n + 0 = n
    OBVIOUS
  <2> QED
    BY <1>4, <1>5, <1>6, <1>7, <2>1
<1> QED
  BY <1>2, <1>8

(* A part of a sum of naturals is no more than the whole.                  *)
LEMMA SumPart ==
    ASSUME NEW D, IsFiniteSet(D), NEW f \in [D -> Nat], NEW A \in SUBSET D
    PROVE  /\ SumFunctionOnSet(f, A) \in Nat /\ SumFunctionOnSet(f, D) \in Nat
           /\ SumFunctionOnSet(f, A) <= SumFunctionOnSet(f, D)
<1>1. IsFiniteSet(A) /\ IsFiniteSet(D \ A) /\ A \cup (D \ A) = D /\ A \cap (D \ A) = {}
  BY FS_Subset
<1>2. f \in [D -> Int] /\ A \in SUBSET D /\ (D \ A) \in SUBSET D
  OBVIOUS
<1>3. SumFunctionOnSet(f, D) = SumFunctionOnSet(f, A) + SumFunctionOnSet(f, D \ A)
  <2>1. SumFunctionOnSet(f, A \cup (D \ A)) = SumFunctionOnSet(f, A) + SumFunctionOnSet(f, D \ A)
    BY <1>1, <1>2, SumJoin
  <2> QED
    BY <1>1, <2>1
<1>4. ASSUME NEW B \in SUBSET D, IsFiniteSet(B) PROVE SumFunctionOnSet(f, B) \in Nat
  <2> DEFINE g == [x \in B |-> f[x]]
  <2>1. g \in [B -> Nat] /\ \A x \in B : g[x] = f[x]
    OBVIOUS
  <2> HIDE DEF g
  <2>2. SumFunctionOnSet(g, B) \in Nat
    BY <1>4, <2>1, SumType
  <2> QED
    BY <2>1, <2>2, SumAgree
<1>5. SumFunctionOnSet(f, A) \in Nat /\ SumFunctionOnSet(f, D \ A) \in Nat
  BY <1>1, <1>4
<1> QED
  BY <1>3, <1>5

(* What a set and its part agree on for no elements and for one element    *)
(* more, they agree on for all: the sums below by least counterexamples.   *)
LEMMA FiniteGrowth ==
    ASSUME NEW D, IsFiniteSet(D), NEW G, G \subseteq SUBSET D, {} \in G,
           \A s \in SUBSET D : \A a \in D : (s \in G /\ a \notin s) => s \cup {a} \in G
    PROVE  \A s \in SUBSET D : s \in G
<1> DEFINE B == {s \in SUBSET D : s \notin G}
<1> SUFFICES ASSUME B # {} PROVE FALSE
  OBVIOUS
<1>1. B \subseteq SUBSET D
  OBVIOUS
<1> HIDE DEF B
<1>2. PICK s \in B : \A t \in B : ~(t \subseteq s /\ t # s)
  BY <1>1, LeastSubset
<1>3. s \in SUBSET D /\ s \notin G /\ s # {}
  BY <1>2 DEF B
<1>4. PICK a \in s : TRUE
  BY <1>3
<1> DEFINE r == s \ {a}
<1>5. r \subseteq s /\ r # s /\ r \in SUBSET D /\ a \notin r /\ r \cup {a} = s /\ a \in D
  BY <1>3, <1>4
<1>6. r \notin B
  BY <1>2, <1>5
<1>7. r \in G
  BY <1>5, <1>6 DEF B
<1> HIDE DEF r
<1> QED
  BY <1>3, <1>5, <1>7

(* Counting as a sum of ones.                                              *)
LEMMA SumCount ==
    ASSUME NEW D, IsFiniteSet(D), NEW A \in SUBSET D, NEW f, \A x \in D : f[x] = IF x \in A THEN 1 ELSE 0
    PROVE  SumFunctionOnSet(f, D) = Cardinality(A)
<1> DEFINE g == [x \in D |-> IF x \in A THEN 1 ELSE 0]
           G == {s \in SUBSET D : SumFunctionOnSet(g, s) = Cardinality(s \cap A)}
<1>1. g \in [D -> Int] /\ \A x \in D : g[x] = f[x] /\ g[x] = IF x \in A THEN 1 ELSE 0
  OBVIOUS
<1> HIDE DEF g
<1>2. {} \in G
  <2>1. SumFunctionOnSet(g, {}) = 0
    BY FS_EmptySet, SumZero
  <2>2. {} \cap A = {} /\ Cardinality({}) = 0
    BY FS_EmptySet
  <2> QED
    BY <2>1, <2>2
<1>3. ASSUME NEW s \in SUBSET D, NEW a \in D, s \in G, a \notin s PROVE s \cup {a} \in G
  <2>1. IsFiniteSet(s) /\ IsFiniteSet(s \cap A) /\ Cardinality(s \cap A) \in Nat
    BY FS_Subset, FS_CardinalityType
  <2>2. SumFunctionOnSet(g, s \cup {a}) = SumFunctionOnSet(g, s) + g[a]
    BY <1>1, <1>3, <2>1, SumGrow
  <2>3. SumFunctionOnSet(g, s) = Cardinality(s \cap A)
    BY <1>3
  <2>4. Cardinality((s \cup {a}) \cap A) = Cardinality(s \cap A) + g[a]
    <3>1. CASE a \in A
      <4>1. (s \cup {a}) \cap A = (s \cap A) \cup {a} /\ a \notin s \cap A
        BY <1>3, <3>1
      <4>2. Cardinality((s \cap A) \cup {a}) = Cardinality(s \cap A) + 1
        BY <2>1, <4>1, FS_AddElement
      <4> QED
        BY <1>1, <3>1, <4>1, <4>2
    <3>2. CASE a \notin A
      <4>1. (s \cup {a}) \cap A = s \cap A
        BY <3>2
      <4> QED
        BY <1>1, <2>1, <3>2, <4>1
    <3> QED
      BY <3>1, <3>2
  <2>5. s \cup {a} \in SUBSET D
    OBVIOUS
  <2> QED
    BY <2>2, <2>3, <2>4, <2>5
<1>4. D \in G
  <2>1. G \subseteq SUBSET D
    OBVIOUS
  <2> HIDE DEF G
  <2> QED
    BY <1>2, <1>3, <2>1, FiniteGrowth
<1>5. SumFunctionOnSet(g, D) = Cardinality(A)
  <2>1. D \cap A = A
    OBVIOUS
  <2> QED
    BY <1>4, <2>1
<1>6. SumFunctionOnSet(g, D) = SumFunctionOnSet(f, D)
  BY <1>1, SumAgree
<1> QED
  BY <1>5, <1>6

(* The sizes of finite sets apart add up to that of their union.           *)
LEMMA SumOfSizes ==
    ASSUME NEW D, IsFiniteSet(D), NEW U, IsFiniteSet(U), NEW K \in [D -> SUBSET U],
           \A a, b \in D : a # b => K[a] \cap K[b] = {},
           NEW f, \A a \in D : f[a] = Cardinality(K[a])
    PROVE  SumFunctionOnSet(f, D) = Cardinality(UNION {K[a] : a \in D})
<1> DEFINE g == [a \in D |-> Cardinality(K[a])]
           Un(s) == UNION {K[a] : a \in s}
           G == {s \in SUBSET D : SumFunctionOnSet(g, s) = Cardinality(Un(s))}
<1>1. \A s \in SUBSET U : IsFiniteSet(s) /\ Cardinality(s) \in Nat
  BY FS_Subset, FS_CardinalityType
<1>2. g \in [D -> Int] /\ \A a \in D : g[a] = f[a] /\ g[a] = Cardinality(K[a])
  BY <1>1
<1> HIDE DEF g
<1>3. {} \in G
  <2>1. SumFunctionOnSet(g, {}) = 0
    BY FS_EmptySet, SumZero
  <2>2. Un({}) = {} /\ Cardinality({}) = 0
    BY FS_EmptySet
  <2> HIDE DEF Un
  <2> QED
    BY <2>1, <2>2
<1>4. ASSUME NEW s \in SUBSET D, NEW a \in D, s \in G, a \notin s PROVE s \cup {a} \in G
  <2>1. IsFiniteSet(s) /\ s \cup {a} \in SUBSET D
    BY FS_Subset
  <2>2. SumFunctionOnSet(g, s \cup {a}) = SumFunctionOnSet(g, s) + g[a]
    BY <1>2, <1>4, <2>1, SumGrow
  <2>3. Un(s \cup {a}) = Un(s) \cup K[a] /\ Un(s) \in SUBSET U /\ K[a] \in SUBSET U
    OBVIOUS
  <2>4. Un(s) \cap K[a] = {}
    BY <1>4
  <2>5. SumFunctionOnSet(g, s) = Cardinality(Un(s))
    BY <1>4
  <2> HIDE DEF Un
  <2>6. Cardinality(Un(s) \cup K[a]) = Cardinality(Un(s)) + Cardinality(K[a]) - Cardinality(Un(s) \cap K[a])
    BY <1>1, <2>3, FS_Union
  <2>7. Cardinality(Un(s) \cap K[a]) = 0
    BY <2>4, FS_EmptySet
  <2>8. Cardinality(Un(s \cup {a})) = Cardinality(Un(s)) + Cardinality(K[a])
    <3>1. \A p, q \in Nat : \A r : r = p + q - 0 => r = p + q
      OBVIOUS
    <3>2. Cardinality(Un(s)) \in Nat /\ Cardinality(K[a]) \in Nat
      BY <1>1, <2>3
    <3> QED
      BY <2>3, <2>6, <2>7, <3>1, <3>2
  <2> QED
    BY <1>2, <2>1, <2>2, <2>5, <2>8
<1>5. D \in G
  <2>1. G \subseteq SUBSET D
    OBVIOUS
  <2> HIDE DEF G
  <2> QED
    BY <1>3, <1>4, <2>1, FiniteGrowth
<1>6. SumFunctionOnSet(g, D) = SumFunctionOnSet(f, D)
  BY <1>2, SumAgree
<1> QED
  BY <1>5, <1>6

(* An injective image has as many elements.                                *)
LEMMA ImageSize ==
    ASSUME NEW S, IsFiniteSet(S), NEW R, NEW f \in [S -> R], \A y \in R : \E a \in S : f[a] = y,
           \A a, b \in S : f[a] = f[b] => a = b
    PROVE  IsFiniteSet(R) /\ Cardinality(R) = Cardinality(S)
<1>1. f \in Bijection(S, R)
  BY DEF Bijection, Injection, Surjection, IsInjective
<1>2. ExistsBijection(S, R)
  BY <1>1 DEF ExistsBijection
<1> QED
  BY <1>2, FS_Bijection
=============================================================================
