--------------------------- MODULE HandlersProofs ---------------------------
(***************************************************************************)
(* Snapshots answer as the parameters they were made from, for every set   *)
(* of parameters, and the handlers of nested dispatches keep their own.    *)
(*                                                                         *)
(* What a snapshot holds is said by a function of partial regions; the     *)
(* state then only has to say of which parameters a snapshot was made.     *)
(***************************************************************************)
EXTENDS Handlers, DataProofs

Param == [name : Seq(Chars) \ {<<>>}, value : Seq(Chars)]
Bytes == Chars \cup {NUL}

LEMMA ParamFields ==
    ASSUME NEW p \in Param
    PROVE  /\ p.name \in Seq(Chars) /\ p.value \in Seq(Chars)
           /\ Len(p.name) \in Nat /\ Len(p.value) \in Nat
<1>1. p.name \in Seq(Chars) /\ p.value \in Seq(Chars)
  BY DEF Param
<1> QED BY <1>1

LEMMA OneMore ==
    ASSUME NEW S, NEW q \in Seq(S), NEW e \in S
    PROVE  /\ q \o <<e>> \in Seq(S) /\ Len(q \o <<e>>) = Len(q) + 1 /\ Len(q) \in Nat
           /\ (q \o <<e>>)[Len(q) + 1] = e /\ \A j \in 1..Len(q) : (q \o <<e>>)[j] = q[j]
OBVIOUS

(* The two strings of a parameter, each with its terminator.               *)
LEMMA StringsOf ==
    ASSUME NEW p \in Param
    PROVE  /\ Strings(p) \in Seq(Bytes)
           /\ Len(Strings(p)) = Len(p.name) + 1 + Len(p.value) + 1
           /\ \A j \in 1..Len(p.name) : Strings(p)[j] = p.name[j]
           /\ Strings(p)[Len(p.name) + 1] = NUL
           /\ \A j \in 1..Len(p.value) : Strings(p)[Len(p.name) + 1 + j] = p.value[j]
           /\ Strings(p)[Len(p.name) + 1 + Len(p.value) + 1] = NUL
<1> DEFINE a == p.name
           b == p.value
           x == a \o <<NUL>>
           y == x \o b
<1>1. a \in Seq(Bytes) /\ b \in Seq(Bytes) /\ <<NUL>> \in Seq(Bytes)
  <2>1. a \in Seq(Chars) /\ b \in Seq(Chars)
    BY ParamFields
  <2> HIDE DEF a, b
  <2> QED BY <2>1 DEF Bytes
<1>2. Strings(p) = y \o <<NUL>>
  BY DEF Strings
<1> HIDE DEF a, b
<1>3. /\ x \in Seq(Bytes) /\ Len(x) = Len(a) + 1 /\ Len(a) \in Nat
      /\ x[Len(a) + 1] = NUL /\ \A j \in 1..Len(a) : x[j] = a[j]
  BY <1>1
<1> HIDE DEF x
<1>4. /\ y \in Seq(Bytes) /\ Len(y) = Len(a) + 1 + Len(b) /\ Len(b) \in Nat
      /\ \A j \in 1..Len(x) : y[j] = x[j]
      /\ \A j \in 1..Len(b) : y[Len(x) + j] = b[j]
  BY <1>1, <1>3
<1> HIDE DEF y
<1>5. /\ Strings(p) \in Seq(Bytes) /\ Len(Strings(p)) = Len(y) + 1
      /\ Strings(p)[Len(y) + 1] = NUL /\ \A j \in 1..Len(y) : Strings(p)[j] = y[j]
  BY <1>2, <1>4, OneMore DEF Bytes
<1>6. \A j \in 1..Len(a) : j \in 1..Len(x) /\ j \in 1..Len(y)
  BY <1>3, <1>4
<1>7. Len(a) + 1 \in 1..Len(x) /\ Len(a) + 1 \in 1..Len(y)
  BY <1>3, <1>4
<1>8. \A j \in 1..Len(b) : Len(a) + 1 + j \in 1..Len(y) /\ Len(x) + j = Len(a) + 1 + j
  BY <1>3, <1>4
<1>9. \A j \in 1..Len(a) : Strings(p)[j] = a[j]
  BY <1>3, <1>4, <1>5, <1>6
<1>10. Strings(p)[Len(a) + 1] = NUL
  BY <1>3, <1>4, <1>5, <1>7
<1>11. \A j \in 1..Len(b) : Strings(p)[Len(a) + 1 + j] = b[j]
  BY <1>4, <1>5, <1>8
<1> QED BY <1>4, <1>5, <1>9, <1>10, <1>11 DEF a, b

-----------------------------------------------------------------------------
(* The parameters' strings, and the partial regions R.                     *)
Parts(ps) == [i \in 1..Len(ps) |-> Strings(ps[i])]
Regions(ps, R) == Joined(Bytes, Parts(ps), R)

LEMMA PartsAreSequences ==
    ASSUME NEW ps \in Seq(Param)
    PROVE  /\ Len(ps) \in Nat /\ Parts(ps) \in Seq(Seq(Bytes)) /\ Len(Parts(ps)) = Len(ps)
           /\ \A i \in 1..Len(ps) : ps[i] \in Param /\ Parts(ps)[i] = Strings(ps[i])
<1>1. Len(ps) \in Nat /\ \A i \in 1..Len(ps) : ps[i] \in Param
  OBVIOUS
<1>2. \A i \in 1..Len(ps) : Strings(ps[i]) \in Seq(Bytes)
  BY <1>1, StringsOf
<1> DEFINE n == Len(ps)
<1> HIDE DEF n
<1>3. \A f : (n \in Nat /\ f = [i \in 1..n |-> f[i]] /\ \A i \in 1..n : f[i] \in Seq(Bytes)) =>
              f \in Seq(Seq(Bytes)) /\ Len(f) = n
  OBVIOUS
<1>4. Parts(ps) = [i \in 1..n |-> Parts(ps)[i]] /\ \A i \in 1..n : Parts(ps)[i] = Strings(ps[i])
  BY DEF Parts, n
<1> QED BY <1>1, <1>2, <1>3, <1>4 DEF n

LEMMA RegionsExist ==
    ASSUME NEW ps \in Seq(Param)
    PROVE  \E R : Regions(ps, R)
BY PartsAreSequences, JoinedExists DEF Regions

(* Where the strings of a parameter stand in the whole region.             *)
Width(p) == Len(p.name) + 1 + Len(p.value) + 1
Holds(w, o, p) ==
    /\ \A j \in 1..Len(p.name) : w[o + j] = p.name[j]
    /\ w[o + (Len(p.name) + 1)] = NUL
    /\ \A j \in 1..Len(p.value) : w[o + (Len(p.name) + 1 + j)] = p.value[j]
    /\ w[o + (Len(p.name) + 1 + Len(p.value) + 1)] = NUL

LEMMA RegionHolds ==
    ASSUME NEW ps \in Seq(Param), NEW R, Regions(ps, R), NEW i \in 1..Len(ps)
    PROVE  /\ R[i - 1] \in Seq(Bytes) /\ R[i] \in Seq(Bytes) /\ R[Len(ps)] \in Seq(Bytes)
           /\ Len(R[i]) = Len(R[i - 1]) + Width(ps[i])
           /\ Len(R[i]) <= Len(R[Len(ps)])
           /\ Holds(R[Len(ps)], Len(R[i - 1]), ps[i])
<1> DEFINE n == Len(ps)
           seqs == Parts(ps)
           s == Strings(ps[i])
           w == R[n]
           x == ps[i].name
           v == ps[i].value
           o == Len(R[i - 1])
<1>1. n \in Nat /\ seqs \in Seq(Seq(Bytes)) /\ Len(seqs) = n /\ ps[i] \in Param /\ seqs[i] = s
      /\ Joined(Bytes, seqs, R)
  BY PartsAreSequences DEF Regions
<1>2. Len(x) \in Nat /\ Len(v) \in Nat
  BY <1>1, ParamFields
<1>3. /\ s \in Seq(Bytes) /\ Len(s) = Len(x) + 1 + Len(v) + 1
      /\ \A j \in 1..Len(x) : s[j] = x[j]
      /\ s[Len(x) + 1] = NUL
      /\ \A j \in 1..Len(v) : s[Len(x) + 1 + j] = v[j]
      /\ s[Len(x) + 1 + Len(v) + 1] = NUL
  BY <1>1, StringsOf
<1> HIDE DEF n, seqs, s
<1>4. /\ o \in Nat /\ Len(R[i]) = o + Len(s) /\ Len(R[i]) <= Len(w)
      /\ \A j \in 1..Len(s) : w[o + j] = s[j]
  <2>1. i \in 1..Len(seqs) /\ Len(seqs) = n
    BY <1>1 DEF n
  <2>2. /\ R[i - 1] \in Seq(Bytes) /\ R[i] = R[i - 1] \o s /\ Len(R[i]) <= Len(R[n])
        /\ Stands(s, R[n], o)
    BY <1>1, <2>1, JoinedAt
  <2>3. \A p, q \in Seq(Bytes) : Len(p) \in Nat /\ Len(p \o q) = Len(p) + Len(q)
    OBVIOUS
  <2>4. o \in Nat /\ Len(R[i]) = o + Len(s)
    BY <1>3, <2>2, <2>3
  <2>5. \A j \in 1..Len(s) : w[o + j] = s[j]
    BY <2>2 DEF Stands
  <2> QED BY <2>2, <2>4, <2>5
<1>5. w \in Seq(Bytes)
  <2>1. n \in 0..Len(seqs)
    BY <1>1
  <2> QED BY <1>1, <2>1, JoinedSteps
<1> HIDE DEF w, x, v
<1>6. R[i - 1] \in Seq(Bytes) /\ R[i] \in Seq(Bytes) /\ o = Len(R[i - 1])
  <2>1. i - 1 \in 0..Len(seqs) /\ i \in 0..Len(seqs)
    BY <1>1 DEF n
  <2> QED BY <1>1, <2>1, JoinedSteps
<1> HIDE DEF o
<1>7. /\ \A j \in 1..Len(x) : j \in 1..Len(s)
      /\ Len(x) + 1 \in 1..Len(s)
      /\ \A j \in 1..Len(v) : Len(x) + 1 + j \in 1..Len(s)
      /\ Len(x) + 1 + Len(v) + 1 \in 1..Len(s)
  BY <1>2, <1>3
<1>8. /\ \A j \in 1..Len(x) : w[o + j] = x[j]
      /\ w[o + (Len(x) + 1)] = NUL
      /\ \A j \in 1..Len(v) : w[o + (Len(x) + 1 + j)] = v[j]
      /\ w[o + (Len(x) + 1 + Len(v) + 1)] = NUL
  BY <1>3, <1>4, <1>7
<1>9. Holds(w, o, ps[i]) /\ Len(s) = Width(ps[i])
  BY <1>3, <1>8 DEF Holds, Width, x, v
<1> QED BY <1>4, <1>5, <1>6, <1>9 DEF w, n
LEMMA RegionSteps ==
    ASSUME NEW ps \in Seq(Param), NEW R, Regions(ps, R)
    PROVE  Len(R[0]) = 0 /\ R[Len(ps)] \in Seq(Bytes)
<1> DEFINE seqs == Parts(ps)
<1>1. Len(ps) \in Nat /\ seqs \in Seq(Seq(Bytes)) /\ Len(seqs) = Len(ps) /\ Joined(Bytes, seqs, R)
  BY PartsAreSequences DEF Regions
<1> HIDE DEF seqs
<1>2. R[0] = <<>> /\ \A i \in 0..Len(seqs) : R[i] \in Seq(Bytes)
  BY <1>1, JoinedSteps
<1> QED BY <1>1, <1>2

-----------------------------------------------------------------------------
(* The sizes are those of the partial regions, up to the first that fails. *)
Added(p, size) ==
    IF size = FAILED THEN FAILED
    ELSE LET named == Grow(size, Len(p.name) + 1)
         IN  IF named = FAILED THEN FAILED ELSE Grow(named, Len(p.value) + 1)
SizesOf(ps, g) == g = [i \in 0..Len(ps) |-> IF i = 0 THEN 0 ELSE Added(ps[i], g[i - 1])]

LEMMA GrowFits ==
    ASSUME NEW size \in Nat, NEW n \in Nat
    PROVE  /\ Grow(size, n) \in Nat
           /\ size <= MaxSize => Grow(size, n) = FAILED \/ (Grow(size, n) = size + n /\ size + n <= MaxSize)
<1>1. MaxSize \in Nat /\ SizeMod \in Nat /\ MaxSize < SizeMod
  BY HandlersAssumption
<1>2. \A a, m \in Nat : a < m => a % m = a
  OBVIOUS
<1>3. Grow(size, n) = FAILED \/ (Grow(size, n) = size + n /\ ~(n > (MaxSize - size) % SizeMod))
  BY DEF Grow
<1>4. ASSUME size <= MaxSize PROVE (MaxSize - size) % SizeMod = MaxSize - size
  <2>1. MaxSize - size \in Nat /\ MaxSize - size < SizeMod
    BY <1>1, <1>4
  <2> QED BY <1>1, <1>2, <2>1
<1>5. ASSUME size <= MaxSize, ~(n > (MaxSize - size) % SizeMod) PROVE size + n <= MaxSize
  <2>1. ~(n > MaxSize - size)
    BY <1>4, <1>5
  <2> QED BY <1>1, <1>5, <2>1
<1>6. FAILED \in Nat /\ size + n \in Nat
  BY <1>1 DEF FAILED
<1> QED BY <1>3, <1>5, <1>6

LEMMA AddedFits ==
    ASSUME NEW p \in Param, NEW size \in Nat
    PROVE  /\ Added(p, size) \in Nat
           /\ size = FAILED => Added(p, size) = FAILED
           /\ size <= MaxSize =>
                 \/ Added(p, size) = FAILED
                 \/ /\ Added(p, size) = size + (Len(p.name) + 1 + Len(p.value) + 1)
                    /\ Added(p, size) <= MaxSize
<1> DEFINE a == Len(p.name) + 1
           b == Len(p.value) + 1
           named == Grow(size, a)
<1>1. a \in Nat /\ b \in Nat /\ a + b = Len(p.name) + 1 + Len(p.value) + 1
  <2>1. Len(p.name) \in Nat /\ Len(p.value) \in Nat
    BY ParamFields
  <2>2. \A x, y \in Nat : x + 1 \in Nat /\ y + 1 \in Nat /\ (x + 1) + (y + 1) = x + 1 + y + 1
    OBVIOUS
  <2> QED BY <2>1, <2>2
<1>2. Added(p, size) = IF size = FAILED THEN FAILED ELSE IF named = FAILED THEN FAILED ELSE Grow(named, b)
  BY DEF Added
<1> HIDE DEF a, b
<1>3. /\ named \in Nat
      /\ size <= MaxSize => named = FAILED \/ (named = size + a /\ size + a <= MaxSize)
  BY <1>1, GrowFits
<1> HIDE DEF named
<1>4. /\ Grow(named, b) \in Nat
      /\ named <= MaxSize => Grow(named, b) = FAILED \/ (Grow(named, b) = named + b /\ named + b <= MaxSize)
  BY <1>1, <1>3, GrowFits
<1>5. FAILED \in Nat
  BY HandlersAssumption DEF FAILED
<1>6. ASSUME size <= MaxSize, Added(p, size) # FAILED
      PROVE  Added(p, size) = size + (a + b) /\ Added(p, size) <= MaxSize
  <2>1. named # FAILED /\ Added(p, size) = Grow(named, b)
    BY <1>2, <1>6
  <2>2. named = size + a /\ named <= MaxSize
    BY <1>3, <1>6, <2>1
  <2>3. Grow(named, b) = named + b /\ named + b <= MaxSize
    BY <1>4, <1>6, <2>1, <2>2
  <2> QED BY <1>1, <2>1, <2>2, <2>3
<1>7. Added(p, size) \in Nat /\ (size = FAILED => Added(p, size) = FAILED)
  BY <1>2, <1>4, <1>5
<1> QED BY <1>1, <1>6, <1>7

LEMMA SizesExist ==
    ASSUME NEW ps \in Seq(Param)
    PROVE  \E g : SizesOf(ps, g)
<1> DEFINE n == Len(ps)
           step == [q \in Nat \X Nat |-> IF q[1] + 1 \in 1..n THEN Added(ps[q[1] + 1], q[2]) ELSE 0]
<1>1. n \in Nat /\ \A i \in 1..n : ps[i] \in Param
  OBVIOUS
<1>2. \A k, x \in Nat : step[<<k, x>>] = IF k + 1 \in 1..n THEN Added(ps[k + 1], x) ELSE 0
  OBVIOUS
<1>3. step \in [Nat \X Nat -> Nat]
  <2>1. ASSUME NEW k \in Nat, NEW x \in Nat PROVE step[<<k, x>>] \in Nat
    <3> HIDE DEF step, n
    <3>1. CASE k + 1 \in 1..n
      BY <1>1, <1>2, <3>1, AddedFits
    <3>2. CASE k + 1 \notin 1..n
      BY <1>2, <3>2
    <3> QED BY <3>1, <3>2
  <2> QED BY <2>1
<1> HIDE DEF step, n
<1>4. PICK F \in [Nat -> Nat] : Recurs(F, 0, step)
  BY <1>3, RecursionExists
<1> DEFINE g == [i \in 0..n |-> F[i]]
<1>5. \A i \in 0..n : g[i] = IF i = 0 THEN 0 ELSE Added(ps[i], g[i - 1])
  <2>1. F[0] = 0 /\ \A k \in Nat : F[k + 1] = step[<<k, F[k]>>]
    BY <1>4 DEF Recurs
  <2>2. g[0] = 0
    BY <1>1, <2>1
  <2>3. ASSUME NEW i \in 1..n PROVE g[i] = Added(ps[i], g[i - 1])
    <3>1. i - 1 \in Nat /\ i - 1 \in 0..n /\ i \in 0..n /\ (i - 1) + 1 = i
      BY <1>1
    <3>2. F[i] = step[<<i - 1, F[i - 1]>>] /\ F[i - 1] \in Nat
      BY <1>4, <2>1, <3>1
    <3>3. step[<<i - 1, F[i - 1]>>] = Added(ps[i], F[i - 1])
      BY <1>2, <3>1, <3>2
    <3> QED BY <3>1, <3>2, <3>3
  <2> HIDE DEF g
  <2> QED BY <1>1, <2>2, <2>3
<1>6. g = [i \in 0..n |-> g[i]]
  OBVIOUS
<1> HIDE DEF g
<1>7. g = [i \in 0..n |-> IF i = 0 THEN 0 ELSE Added(ps[i], g[i - 1])]
  BY <1>5, <1>6
<1> QED BY <1>7 DEF SizesOf, n

(* A size that does not fail is the region's, and within the limit.        *)
LEMMA RegionSizeIs ==
    ASSUME NEW ps \in Seq(Param), NEW R, Regions(ps, R), RegionSize(ps) # FAILED
    PROVE  RegionSize(ps) = Len(R[Len(ps)]) /\ RegionSize(ps) <= MaxSize
<1> DEFINE n == Len(ps)
           c == CHOOSE g : SizesOf(ps, g)
           Right(k) == c[k] \in Nat /\ (c[k] = FAILED \/ (c[k] = Len(R[k]) /\ c[k] <= MaxSize))
           S == {k \in Nat : k <= n => Right(k)}
<1>1. RegionSize(ps) = c[n]
  BY Zenon DEF RegionSize, SizesOf, Added
<1>2. SizesOf(ps, c)
  BY SizesExist
<1>3. n \in Nat /\ \A i \in 1..n : ps[i] \in Param
  OBVIOUS
<1> HIDE DEF c
<1>4. c[0] = 0 /\ \A i \in 1..n : c[i] = Added(ps[i], c[i - 1])
  <2>1. \A i \in 0..n : c[i] = IF i = 0 THEN 0 ELSE Added(ps[i], c[i - 1])
    BY <1>2 DEF SizesOf
  <2> HIDE DEF n
  <2> QED BY <1>3, <2>1
<1>5. Len(R[0]) = 0
  BY RegionSteps
<1>6. 0 \in S
  BY <1>4, <1>5, HandlersAssumption
<1>7. ASSUME NEW k \in S PROVE k + 1 \in S
  <2> SUFFICES ASSUME k + 1 <= n PROVE Right(k + 1)
    OBVIOUS
  <2>1. k \in Nat /\ k + 1 \in 1..n /\ (k + 1) - 1 = k /\ Right(k)
    BY <1>3
  <2> HIDE DEF n, S
  <2>2. c[k + 1] = Added(ps[k + 1], c[k]) /\ ps[k + 1] \in Param
    BY <1>3, <1>4, <2>1
  <2>3. Len(R[k + 1]) = Len(R[k]) + (Len(ps[k + 1].name) + 1 + Len(ps[k + 1].value) + 1)
    <3>1. Len(R[k + 1]) = Len(R[(k + 1) - 1]) + Width(ps[k + 1])
      BY <2>1, RegionHolds DEF n
    <3> QED BY <2>1, <3>1 DEF Width
  <2> QED BY <2>1, <2>2, <2>3, AddedFits
<1>8. S = Nat
  <2>1. S \subseteq Nat
    OBVIOUS
  <2> HIDE DEF S
  <2> QED BY <1>6, <1>7, <2>1, Induction
<1>9. Right(n)
  BY <1>3, <1>8
<1> QED BY <1>1, <1>9
-----------------------------------------------------------------------------
(* A snapshot's region is the whole of the regions, and its base the       *)
(* places where they join.                                                 *)
Base(ps, R) == [i \in DOMAIN ps |-> [name  |-> Len(R[i - 1]) + 1,
                                     value |-> Len(R[i - 1]) + 1 + Len(ps[i].name) + 1]]

LEMMA PrefixIsRegion ==
    ASSUME NEW ps \in Seq(Param), NEW R, Regions(ps, R), NEW m \in 0..Len(ps)
    PROVE  FlattenSeq([j \in 1..m |-> Strings(ps[j])]) = R[m]
<1> DEFINE seqs == Parts(ps)
<1>1. Len(ps) \in Nat /\ seqs \in Seq(Seq(Bytes)) /\ Len(seqs) = Len(ps) /\ Joined(Bytes, seqs, R)
  BY PartsAreSequences DEF Regions
<1>2. [j \in 1..m |-> Strings(ps[j])] = [j \in 1..m |-> seqs[j]]
  <2>1. \A j \in 1..m : j \in 1..Len(ps)
    BY <1>1
  <2>2. \A j \in 1..m : Strings(ps[j]) = seqs[j]
    BY <2>1, PartsAreSequences
  <2> HIDE DEF seqs
  <2> QED BY <2>2
<1> HIDE DEF seqs
<1>3. FlattenSeq([j \in 1..m |-> seqs[j]]) = R[m]
  BY <1>1, FlattenIsJoined
<1> QED BY <1>2, <1>3

LEMMA SnapshotIs ==
    ASSUME NEW ps \in Seq(Param), NEW R, Regions(ps, R), RegionSize(ps) # FAILED
    PROVE  /\ FlattenSeq([i \in DOMAIN ps |-> Strings(ps[i])]) = R[Len(ps)]
           /\ Snapshot(ps).region = R[Len(ps)]
           /\ Snapshot(ps).base = Base(ps, R)
<1> DEFINE bytes == FlattenSeq([i \in DOMAIN ps |-> Strings(ps[i])])
           w == R[Len(ps)]
           pad == IF RegionSize(ps) > Len(bytes) THEN RegionSize(ps) - Len(bytes) ELSE 0
           offset(i) == Len(FlattenSeq([j \in 1..(i - 1) |-> Strings(ps[j])])) + 1
           base == [i \in DOMAIN ps |-> [name |-> offset(i), value |-> offset(i) + Len(ps[i].name) + 1]]
<1>1. Len(ps) \in Nat /\ DOMAIN ps = 1..Len(ps) /\ Len(ps) \in 0..Len(ps)
  OBVIOUS
<1>2. bytes = w
  <2>1. FlattenSeq([i \in 1..Len(ps) |-> Strings(ps[i])]) = R[Len(ps)]
    BY <1>1, PrefixIsRegion
  <2> QED BY <1>1, <2>1
<1>3. w \in Seq(Bytes) /\ Len(w) \in Nat /\ RegionSize(ps) = Len(w)
  <2>1. w \in Seq(Bytes)
    BY RegionSteps
  <2>2. \A q \in Seq(Bytes) : Len(q) \in Nat
    OBVIOUS
  <2> QED BY <2>1, <2>2, RegionSizeIs
<1>4. \A i \in DOMAIN ps : offset(i) = Len(R[i - 1]) + 1
  <2>1. \A i \in DOMAIN ps : i - 1 \in 0..Len(ps)
    BY <1>1
  <2>2. \A i \in DOMAIN ps : FlattenSeq([j \in 1..(i - 1) |-> Strings(ps[j])]) = R[i - 1]
    BY <2>1, PrefixIsRegion
  <2> QED BY <2>2
<1>5. Snapshot(ps) = [region |-> bytes \o [i \in 1..pad |-> NUL], base |-> base]
  BY Zenon DEF Snapshot
<1>6. base = Base(ps, R)
  <2> HIDE DEF offset
  <2> QED BY <1>4 DEF Base
<1> HIDE DEF bytes, w, base
<1>7. pad = 0
  BY <1>2, <1>3
<1> HIDE DEF pad
<1>8. \A q \in Seq(Bytes) : q \o [i \in 1..0 |-> NUL] = q
  OBVIOUS
<1>9. bytes \o [i \in 1..pad |-> NUL] = w
  BY <1>2, <1>3, <1>7, <1>8
<1>10. Snapshot(ps).region = w /\ Snapshot(ps).base = Base(ps, R)
  <2> DEFINE region == bytes \o [i \in 1..pad |-> NUL]
  <2>1. region = w /\ Snapshot(ps) = [region |-> region, base |-> base]
    BY <1>5, <1>9
  <2> HIDE DEF region
  <2> QED BY <1>6, <2>1
<1> QED BY <1>2, <1>10, Zenon DEF w, bytes
-----------------------------------------------------------------------------
(* A string is read up to the first NUL.                                   *)
LEMMA MinIs ==
    ASSUME NEW S \in SUBSET Nat, NEW m \in S, \A y \in S : m <= y
    PROVE  Min(S) = m
<1>1. \A x \in S : (\A y \in S : x <= y) => x = m
  OBVIOUS
<1> QED BY <1>1 DEF Min

LEMMA StringFound ==
    ASSUME NEW s, s.region \in Seq(Bytes), NEW p \in Nat, NEW q \in Seq(Chars),
           p + (Len(q) + 1) <= Len(s.region),
           \A j \in 1..Len(q) : s.region[p + j] = q[j],
           s.region[p + (Len(q) + 1)] = NUL
    PROVE  StringAt(s, p + 1) = q
<1> DEFINE w == s.region
           n == Len(q)
           S == {i \in (p + 1)..Len(w) : w[i] = NUL}
<1>1. n \in Nat /\ Len(w) \in Nat /\ w \in Seq(Bytes) /\ p + (n + 1) <= Len(w) /\ w[p + (n + 1)] = NUL
      /\ (\A j \in 1..n : w[p + j] = q[j])
  OBVIOUS
<1>2. \A j \in 1..n : q[j] # NUL
  <2>1. \A j \in 1..n : q[j] \in Chars
    OBVIOUS
  <2> QED BY <2>1, HandlersAssumption
<1>3. StringAt(s, p + 1) = SubSeq(w, p + 1, Min(S) - 1)
  BY Zenon DEF StringAt
<1> HIDE DEF w, n
<1>4. Min(S) = p + (n + 1)
  <2>1. p + (n + 1) \in S /\ S \in SUBSET Nat
    BY <1>1
  <2>2. ASSUME NEW i \in S PROVE p + (n + 1) <= i
    <3> SUFFICES ASSUME i < p + (n + 1) PROVE FALSE
      BY <1>1
    <3>1. i - p \in 1..n /\ p + (i - p) = i /\ w[i] = NUL
      BY <1>1
    <3> QED BY <1>1, <1>2, <3>1
  <2> HIDE DEF S
  <2> QED BY <2>1, <2>2, MinIs
<1> HIDE DEF S
<1>5. StringAt(s, p + 1) = SubSeq(w, p + 1, p + n)
  <2>1. Min(S) - 1 = p + n
    BY <1>1, <1>4
  <2> QED BY <1>3, <2>1, Zenon
<1> DEFINE t == SubSeq(w, p + 1, p + n)
<1>6. t \in Seq(Bytes) /\ Len(t) = n /\ \A j \in 1..n : t[j] = w[p + j]
  BY <1>1
<1>7. q \in Seq(Bytes) /\ Len(q) = n
  BY DEF Bytes, n
<1> HIDE DEF t
<1>8. t = q
  <2>1. \A u, v \in Seq(Bytes) : Len(u) = Len(v) /\ (\A j \in 1..Len(u) : u[j] = v[j]) => u = v
    OBVIOUS
  <2> QED BY <1>1, <1>6, <1>7, <2>1
<1> QED BY <1>5, <1>8 DEF t

(* A snapshot's strings are those of the parameters, and so are its        *)
(* answers to any index and any name.                                      *)
LEMMA StringsOfSnapshot ==
    ASSUME NEW ps \in Seq(Param), RegionSize(ps) # FAILED, NEW i \in DOMAIN ps
    PROVE  /\ StringAt(Snapshot(ps), Snapshot(ps).base[i].name) = ps[i].name
           /\ StringAt(Snapshot(ps), Snapshot(ps).base[i].value) = ps[i].value
<1> DEFINE s == Snapshot(ps)
           x == ps[i].name
           v == ps[i].value
<1>1. PICK R : Regions(ps, R)
  BY RegionsExist
<1> DEFINE w == R[Len(ps)]
           o == Len(R[i - 1])
<1>2. i \in 1..Len(ps) /\ ps[i] \in Param
  OBVIOUS
<1>3. s.region = w /\ s.base = Base(ps, R)
  BY <1>1, SnapshotIs
<1>4. s.base[i].name = o + 1 /\ s.base[i].value = o + 1 + Len(x) + 1
  <2>1. Base(ps, R)[i] = [name |-> o + 1, value |-> o + 1 + Len(x) + 1]
    BY Zenon DEF Base
  <2>2. s.base[i] = [name |-> o + 1, value |-> o + 1 + Len(x) + 1]
    BY <1>3, <2>1, Zenon
  <2> HIDE DEF s, o
  <2> QED BY <2>2
<1>5. x \in Seq(Chars) /\ v \in Seq(Chars) /\ Len(x) \in Nat /\ Len(v) \in Nat
  BY <1>2, ParamFields
<1>6. /\ R[i - 1] \in Seq(Bytes) /\ R[i] \in Seq(Bytes) /\ w \in Seq(Bytes)
      /\ Len(R[i]) = o + Width(ps[i]) /\ Len(R[i]) <= Len(w) /\ Holds(w, o, ps[i])
  BY <1>1, <1>2, RegionHolds
<1>7. o \in Nat /\ Len(w) \in Nat /\ o + (Len(x) + 1 + Len(v) + 1) <= Len(w)
  <2>1. \A q \in Seq(Bytes) : Len(q) \in Nat
    OBVIOUS
  <2> QED BY <1>6, <2>1 DEF Width
<1>8. /\ \A j \in 1..Len(x) : w[o + j] = x[j]
      /\ w[o + (Len(x) + 1)] = NUL
      /\ \A j \in 1..Len(v) : w[o + (Len(x) + 1 + j)] = v[j]
      /\ w[o + (Len(x) + 1 + Len(v) + 1)] = NUL
  BY <1>6 DEF Holds
<1> HIDE DEF s, x, v, w, o
<1>9. StringAt(s, o + 1) = x
  <2>1. o + (Len(x) + 1) <= Len(w)
    BY <1>5, <1>7
  <2> QED BY <1>3, <1>5, <1>6, <1>7, <1>8, <2>1, StringFound
<1>10. StringAt(s, o + 1 + Len(x) + 1) = v
  <2> DEFINE p == o + (Len(x) + 1)
  <2>1. /\ p \in Nat /\ p + (Len(v) + 1) <= Len(w) /\ p + 1 = o + 1 + Len(x) + 1
        /\ p + (Len(v) + 1) = o + (Len(x) + 1 + Len(v) + 1)
        /\ \A j \in 1..Len(v) : p + j = o + (Len(x) + 1 + j)
    BY <1>5, <1>7
  <2> HIDE DEF p
  <2>2. w[p + (Len(v) + 1)] = NUL /\ \A j \in 1..Len(v) : w[p + j] = v[j]
    BY <1>8, <2>1
  <2>3. StringAt(s, p + 1) = v
    BY <1>3, <1>5, <1>6, <2>1, <2>2, StringFound
  <2> QED BY <2>1, <2>3
<1> QED BY <1>4, <1>9, <1>10 DEF s, x, v

LEMMA SnapshotAnswers ==
    ASSUME NEW ps \in Seq(Param), RegionSize(ps) # FAILED
    PROVE  /\ \A i : Params_at(Snapshot(ps), i) = wrouter_iparam(ps, i)
           /\ \A n : Params_get(Snapshot(ps), n) = wrouter_param(ps, n)
<1> DEFINE s == Snapshot(ps)
<1>1. DOMAIN s.base = DOMAIN ps /\ Len(s.base) = Len(ps)
  <2>1. PICK R : Regions(ps, R)
    BY RegionsExist
  <2>2. s.base = Base(ps, R)
    BY <2>1, SnapshotIs
  <2> HIDE DEF s
  <2>3. DOMAIN s.base = DOMAIN ps /\ DOMAIN s.base = 1..Len(ps) /\ Len(ps) \in Nat
    BY <2>2 DEF Base
  <2>4. s.base = [i \in DOMAIN s.base |-> s.base[i]]
    BY <2>2, Zenon DEF Base
  <2>5. \A f, n : n \in Nat /\ DOMAIN f = 1..n /\ f = [i \in DOMAIN f |-> f[i]] => Len(f) = n
    OBVIOUS
  <2> QED BY <2>3, <2>4, <2>5
<1>2. \A i \in DOMAIN ps : StringAt(s, s.base[i].name) = ps[i].name /\ StringAt(s, s.base[i].value) = ps[i].value
  BY StringsOfSnapshot
<1> HIDE DEF s
<1>3. \A i : Params_at(s, i) = wrouter_iparam(ps, i)
  BY <1>1, <1>2 DEF Params_at, wrouter_iparam
<1>4. ASSUME NEW n PROVE Params_get(s, n) = wrouter_param(ps, n)
  <2>1. {i \in DOMAIN s.base : StringAt(s, s.base[i].name) = n} = {i \in DOMAIN ps : ps[i].name = n}
    BY <1>1, <1>2
  <2> DEFINE named == {i \in DOMAIN ps : ps[i].name = n}
  <2>2. Params_get(s, n) = Params_at(s, Min(named \cup {Len(ps) + 1}))
    BY <1>1, <2>1, Zenon DEF Params_get
  <2>3. wrouter_param(ps, n) = wrouter_iparam(ps, Min(named \cup {Len(ps) + 1}))
    BY Zenon DEF wrouter_param
  <2> QED BY <1>3, <2>2, <2>3, Zenon
<1> QED BY <1>3, <1>4 DEF s
-----------------------------------------------------------------------------
(* The invariant.  A snapshot, kept or held by a handler, is a copy of     *)
(* some request's parameters, and those a handler holds are of its own     *)
(* request: it was entered with what the dispatcher held, and until a      *)
(* handler makes a call it is the innermost one, with its parameters and   *)
(* its text in place.                                                      *)
FrameType == [request : Requests, cpp : BOOLEAN,
              own : {NULL} \cup {Snapshot(Bindings[r]) : r \in Requests},
              entered : BOOLEAN, disturbed : BOOLEAN]
Bound == {<<>>} \cup {Bindings[r] : r \in Requests}
CopyOf(snapshot, ps) == snapshot = Snapshot(ps) /\ RegionSize(ps) # FAILED
OwnCopied(f) ==
    /\ f.own # NULL => CopyOf(f.own, Bindings[f.request])
    /\ f.cpp /\ f.own = NULL => ~f.entered
    /\ ~f.entered => ~f.disturbed
InPlace(f, d, depth, ps, ts) ==
    d = depth /\ ps = [bound |-> Bindings[f.request], text |-> d] /\ d \in ts
HInv ==
    /\ frames \in Seq(FrameType) /\ params.bound \in Bound
    /\ \A k \in kept : k.of \in Bound /\ CopyOf(k.snapshot, k.of)
    /\ \A d \in DOMAIN frames :
          /\ OwnCopied(frames[d])
          /\ ~frames[d].disturbed => InPlace(frames[d], d, Depth, params, texts)

LEMMA BoundParams ==
    /\ Bound \subseteq Seq(Param)
    /\ \A r \in Requests : Bindings[r] \in Bound
<1>1. <<>> \in Seq(Param)
  OBVIOUS
<1>2. \A r \in Requests : Bindings[r] \in Seq(Param)
  BY HandlersAssumption DEF Param
<1> QED BY <1>1, <1>2 DEF Bound

LEMMA FrameMade ==
    ASSUME NEW r \in Requests, NEW cpp \in BOOLEAN
    PROVE  /\ Frame(r, cpp) \in FrameType /\ OwnCopied(Frame(r, cpp))
           /\ Frame(r, cpp).request = r /\ ~Frame(r, cpp).disturbed
<1>1. PICK no : no = FALSE
  OBVIOUS
<1> DEFINE e == ~cpp
           f == Frame(r, cpp)
<1>2. f = [request |-> r, cpp |-> cpp, own |-> NULL, entered |-> e, disturbed |-> no]
  BY <1>1, Zenon DEF Frame
<1>3. e \in BOOLEAN /\ no \in BOOLEAN /\ (e <=> ~cpp)
  BY <1>1
<1> HIDE DEF e, f
<1>4. /\ f \in FrameType /\ f.request = r /\ f.cpp = cpp /\ f.own = NULL
      /\ f.entered = e /\ f.disturbed = no
  BY <1>2, <1>3 DEF FrameType
<1>5. OwnCopied(f) /\ ~f.disturbed
  BY <1>1, <1>3, <1>4 DEF OwnCopied
<1> QED BY <1>4, <1>5 DEF f

(* A call disturbs the handler that makes it, so that it is none that is   *)
(* still waiting to be entered.                                            *)
LEMMA CallDisturbs ==
    ASSUME HInv, Entered
    PROVE  /\ Disturbed \in Seq(FrameType) /\ Len(Disturbed) = Depth
           /\ \A d \in DOMAIN Disturbed : OwnCopied(Disturbed[d]) /\ Disturbed[d].disturbed
<1>1. frames \in Seq(FrameType) /\ Depth \in Nat /\ DOMAIN frames = 1..Depth
  BY DEF HInv, Depth
<1>2. \A d \in 1..Depth : frames[d] \in FrameType /\ OwnCopied(frames[d]) /\ frames[d].entered
                          /\ (d # Depth => frames[d].disturbed)
  BY <1>1 DEF HInv, InPlace, Entered, ToSet
<1>3. CASE frames = <<>>
  BY <1>1, <1>3 DEF Disturbed, Depth
<1>4. CASE frames # <<>>
  <2>1. PICK yes : yes = TRUE
    OBVIOUS
  <2> DEFINE D == Depth
             b == frames[D]
             g == [b EXCEPT !.disturbed = yes]
             G == [frames EXCEPT ![D] = g]
  <2>2. Disturbed = G
    BY <1>4, <2>1, Zenon DEF Disturbed
  <2>3. D \in 1..D /\ b \in FrameType /\ OwnCopied(b) /\ b.entered
    <3>1. D \in 1..D
      BY <1>1, <1>4 DEF Depth
    <3> QED BY <1>2, <3>1
  <2> HIDE DEF b
  <2>4. /\ g \in FrameType /\ g.request = b.request /\ g.cpp = b.cpp /\ g.own = b.own
        /\ g.entered = b.entered /\ g.disturbed = yes
    BY <2>1, <2>3 DEF FrameType
  <2> HIDE DEF g
  <2>5. OwnCopied(g) /\ g.disturbed
    BY <2>1, <2>3, <2>4 DEF OwnCopied
  <2>6. G \in Seq(FrameType) /\ Len(G) = D /\ G[D] = g /\ \A d \in 1..D : d # D => G[d] = frames[d]
    <3>1. \A q \in Seq(FrameType), e \in FrameType : \A k \in 1..Len(q) :
             /\ [q EXCEPT ![k] = e] \in Seq(FrameType) /\ Len([q EXCEPT ![k] = e]) = Len(q)
             /\ [q EXCEPT ![k] = e][k] = e
             /\ \A d \in 1..Len(q) : d # k => [q EXCEPT ![k] = e][d] = q[d]
      OBVIOUS
    <3>2. D = Len(frames)
      BY DEF Depth
    <3> HIDE DEF D
    <3> QED BY <1>1, <2>3, <2>4, <3>1, <3>2
  <2> HIDE DEF G, D
  <2>7. DOMAIN G = 1..D
    BY <2>6
  <2>8. ASSUME NEW d \in 1..D PROVE OwnCopied(G[d]) /\ G[d].disturbed
    BY <1>2, <2>5, <2>6 DEF D
  <2> QED BY <2>2, <2>6, <2>7, <2>8 DEF D
<1> QED BY <1>3, <1>4

LEMMA InitHolds == HandlersInit => HInv
<1>1. ASSUME HandlersInit
      PROVE  /\ frames \in Seq(FrameType) /\ params.bound \in Bound
             /\ kept = {} /\ DOMAIN frames = {}
  BY <1>1 DEF HandlersInit, Start, Bound
<1> QED BY <1>1 DEF HInv

LEMMA ResolveKeeps ==
    ASSUME HInv, NEW r \in Requests, Resolve(r)
    PROVE  HInv'
<1>1. /\ Entered /\ frames' = Disturbed /\ kept' = kept
      /\ params' = [bound |-> Bindings[r], text |-> Depth + 1]
  BY DEF Resolve
<1>2. params'.bound \in Bound
  BY <1>1, BoundParams
<1>3. /\ frames' \in Seq(FrameType)
      /\ \A d \in DOMAIN frames' : OwnCopied(frames'[d]) /\ frames'[d].disturbed
  BY <1>1, CallDisturbs
<1> QED BY <1>1, <1>2, <1>3 DEF HInv, OwnCopied, CopyOf

LEMMA DispatchKeeps ==
    ASSUME HInv, NEW r \in Requests, NEW cpp \in BOOLEAN, Dispatch(r, cpp)
    PROVE  HInv'
<1> DEFINE f == Frame(r, cpp)
           D == Depth + 1
<1>1. /\ Entered /\ frames' = Append(Disturbed, f) /\ kept' = kept
      /\ params' = [bound |-> Bindings[r], text |-> D] /\ D \in texts'
  BY DEF Dispatch
<1>2. params'.bound \in Bound
  BY <1>1, BoundParams
<1>3. /\ Disturbed \in Seq(FrameType) /\ Len(Disturbed) = Depth
      /\ \A d \in DOMAIN Disturbed : OwnCopied(Disturbed[d]) /\ Disturbed[d].disturbed
  BY <1>1, CallDisturbs
<1>4. f \in FrameType /\ OwnCopied(f) /\ f.request = r
  BY FrameMade
<1> HIDE DEF f
<1>5. /\ frames' \in Seq(FrameType) /\ Len(frames') = D /\ DOMAIN frames' = 1..D /\ Depth \in Nat
      /\ DOMAIN Disturbed = 1..Depth
      /\ frames'[D] = f /\ \A d \in 1..Depth : frames'[d] = Disturbed[d]
  BY <1>1, <1>3, <1>4
<1>6. ASSUME NEW d \in DOMAIN frames'
      PROVE  OwnCopied(frames'[d]) /\ (~frames'[d].disturbed => InPlace(frames'[d], d, Depth', params', texts'))
  <2>1. CASE d = D
    <3>1. OwnCopied(frames'[d]) /\ frames'[d] = f
      BY <1>4, <1>5, <2>1
    <3>2. d = Depth' /\ params' = [bound |-> Bindings[frames'[d].request], text |-> d] /\ d \in texts'
      BY <1>1, <1>4, <1>5, <2>1, <3>1 DEF Depth
    <3>3. InPlace(frames'[d], d, Depth', params', texts')
      BY <3>2 DEF InPlace
    <3> QED BY <3>1, <3>3
  <2>2. CASE d # D
    <3>1. d \in 1..Depth /\ d \in DOMAIN Disturbed
      BY <1>5, <2>2
    <3> QED BY <1>3, <1>5, <3>1
  <2> QED BY <2>1, <2>2
<1> QED BY <1>1, <1>2, <1>5, <1>6 DEF HInv, OwnCopied, CopyOf

LEMMA CopiesAreCopies ==
    ASSUME NEW ps, NEW s \in Copies(ps) \ {NULL}
    PROVE  CopyOf(s, ps)
BY DEF Copies, CopyOf

LEMMA EnterKeeps ==
    ASSUME HInv, Enter
    PROVE  HInv'
<1> DEFINE D == Depth
           b == frames[D]
<1>1. PICK s \in Copies(params.bound) \ {NULL} :
          frames' = [frames EXCEPT ![Depth].own = s, ![Depth].entered = TRUE]
  BY DEF Enter
<1>2. frames # <<>> /\ b.cpp /\ b.own = NULL /\ params' = params /\ texts' = texts /\ kept' = kept
  BY DEF Enter, Last, Depth
<1>3. PICK yes : yes = TRUE
  OBVIOUS
<1> DEFINE g == [b EXCEPT !.own = s, !.entered = yes]
<1>4. frames' = [frames EXCEPT ![D] = g]
  BY <1>1, <1>3, Zenon
<1>5. frames \in Seq(FrameType) /\ D = Len(frames) /\ D \in 1..D /\ DOMAIN frames = 1..D
  BY <1>2 DEF HInv, Depth
<1>6. b \in FrameType /\ ~b.disturbed /\ InPlace(b, D, D, params, texts)
  <2>1. D \in DOMAIN frames /\ b \in FrameType
    BY <1>5
  <2> QED BY <1>2, <2>1 DEF HInv, OwnCopied
<1>7. CopyOf(s, Bindings[b.request]) /\ s \in {Snapshot(Bindings[r]) : r \in Requests} /\ s # NULL
  <2>1. params.bound = Bindings[b.request] /\ b.request \in Requests
    BY <1>6 DEF InPlace, FrameType
  <2>2. CopyOf(s, Bindings[b.request])
    BY <2>1, CopiesAreCopies
  <2> QED BY <2>1, <2>2 DEF CopyOf
<1> HIDE DEF b
<1>8. /\ g \in FrameType /\ g.request = b.request /\ g.own = s /\ g.entered = yes
      /\ g.disturbed = b.disturbed
  BY <1>3, <1>6, <1>7 DEF FrameType
<1> HIDE DEF g, D
<1>9. OwnCopied(g)
  BY <1>3, <1>7, <1>8 DEF OwnCopied
<1>10. /\ frames' \in Seq(FrameType) /\ Len(frames') = D /\ DOMAIN frames' = 1..D
       /\ frames'[D] = g /\ \A d \in 1..D : d # D => frames'[d] = frames[d]
  BY <1>4, <1>5, <1>8
<1>11. ASSUME NEW d \in DOMAIN frames'
       PROVE  OwnCopied(frames'[d]) /\ (~frames'[d].disturbed => InPlace(frames'[d], d, Depth', params', texts'))
  <2>1. CASE d = D
    <3>1. InPlace(g, D, D, params, texts)
      BY <1>6, <1>8 DEF InPlace
    <3>2. Depth' = D
      BY <1>10 DEF Depth
    <3> QED BY <1>2, <1>9, <1>10, <2>1, <3>1, <3>2
  <2>2. CASE d # D
    <3>1. d \in 1..D /\ d \in DOMAIN frames /\ frames'[d] = frames[d]
      BY <1>5, <1>10, <2>2
    <3>2. OwnCopied(frames[d]) /\ frames[d].disturbed
      BY <2>2, <3>1 DEF HInv, InPlace, D
    <3> QED BY <3>1, <3>2
  <2> QED BY <2>1, <2>2
<1>12. params'.bound \in Bound
  BY <1>2 DEF HInv
<1> QED BY <1>2, <1>10, <1>11, <1>12 DEF HInv, OwnCopied, CopyOf

LEMMA ReturnKeeps ==
    ASSUME HInv, Return
    PROVE  HInv'
<1>1. /\ frames # <<>> /\ frames' = SubSeq(frames, 1, Len(frames) - 1)
      /\ params' = params /\ texts' = texts /\ kept' = kept
  BY DEF Return, Front
<1>2. frames \in Seq(FrameType) /\ Depth = Len(frames) /\ Depth \in Nat
  BY DEF HInv, Depth
<1>3. /\ frames' \in Seq(FrameType) /\ DOMAIN frames' = 1..(Depth - 1)
      /\ \A d \in 1..(Depth - 1) : frames'[d] = frames[d] /\ d \in DOMAIN frames /\ d # Depth
  <2>1. \A q \in Seq(FrameType) : \A m \in Nat : m <= Len(q) =>
           /\ SubSeq(q, 1, m) \in Seq(FrameType) /\ Len(SubSeq(q, 1, m)) = m
           /\ \A d \in 1..m : SubSeq(q, 1, m)[d] = q[d]
    OBVIOUS
  <2>2. Depth - 1 \in Nat /\ Depth - 1 <= Len(frames) /\ DOMAIN frames = 1..Depth
    BY <1>1, <1>2
  <2>3. /\ frames' \in Seq(FrameType) /\ Len(frames') = Depth - 1
        /\ \A d \in 1..(Depth - 1) : frames'[d] = frames[d]
    BY <1>1, <1>2, <2>1, <2>2
  <2>4. DOMAIN frames' = 1..(Depth - 1)
    BY <2>3
  <2>5. \A d \in 1..(Depth - 1) : d \in DOMAIN frames /\ d # Depth
    BY <1>2, <2>2
  <2> QED BY <2>3, <2>4, <2>5
<1>4. \A d \in 1..(Depth - 1) : OwnCopied(frames[d]) /\ frames[d].disturbed
  BY <1>3 DEF HInv, InPlace
<1>5. params'.bound \in Bound
  BY <1>1 DEF HInv
<1> QED BY <1>1, <1>3, <1>4, <1>5 DEF HInv, OwnCopied, CopyOf

LEMMA FreeTextKeeps ==
    ASSUME HInv, NEW t \in texts, FreeText(t)
    PROVE  HInv'
<1>1. /\ t > Depth /\ texts' = texts \ {t}
      /\ params' = params /\ frames' = frames /\ kept' = kept
  BY DEF FreeText
<1>2. Depth' = Depth /\ Depth \in Nat
  BY <1>1 DEF HInv, Depth
<1>3. ASSUME NEW d \in DOMAIN frames, InPlace(frames[d], d, Depth, params, texts)
      PROVE  InPlace(frames'[d], d, Depth', params', texts')
  BY <1>1, <1>2, <1>3 DEF InPlace
<1>4. frames' \in Seq(FrameType) /\ params'.bound \in Bound
  BY <1>1 DEF HInv
<1>5. \A d \in DOMAIN frames' :
         /\ OwnCopied(frames'[d])
         /\ ~frames'[d].disturbed => InPlace(frames'[d], d, Depth', params', texts')
  BY <1>1, <1>3 DEF HInv
<1> QED BY <1>1, <1>4, <1>5 DEF HInv, OwnCopied, CopyOf

(* What leaves the dispatcher, its handlers and their texts alone.         *)
LEMMA KeptKeeps ==
    ASSUME HInv, UNCHANGED <<params, frames, texts>>,
           \A k \in kept' : k.of \in Bound /\ CopyOf(k.snapshot, k.of)
    PROVE  HInv'
<1>1. Depth' = Depth /\ params' = params /\ frames' = frames /\ texts' = texts
  BY DEF Depth
<1>2. frames' \in Seq(FrameType) /\ params'.bound \in Bound
  BY <1>1 DEF HInv
<1>3. \A d \in DOMAIN frames' :
         /\ OwnCopied(frames'[d])
         /\ ~frames'[d].disturbed => InPlace(frames'[d], d, Depth', params', texts')
  BY <1>1 DEF HInv
<1> QED BY <1>2, <1>3 DEF HInv, OwnCopied, CopyOf

LEMMA KeepKeeps ==
    ASSUME HInv, Keep
    PROVE  HInv'
<1> DEFINE FromParams == {[of |-> params.bound, snapshot |-> s] :
                             s \in IF params.text \in texts THEN Copies(params.bound) \ {NULL} ELSE {}}
           Holders == {g \in ToSet(frames) : g.own # NULL}
           FromFrames == {[of |-> Bindings[f.request], snapshot |-> f.own] : f \in Holders}
<1>1. PICK k \in FromParams \cup FromFrames : kept' = kept \cup {k}
  BY DEF Keep
<1>2. k.of \in Bound /\ CopyOf(k.snapshot, k.of)
  <2>1. CASE k \in FromParams
    <3>1. PICK s \in Copies(params.bound) \ {NULL} : k = [of |-> params.bound, snapshot |-> s]
      BY <2>1
    <3>2. k.of = params.bound /\ k.snapshot = s
      BY <3>1
    <3> QED BY <3>1, <3>2, CopiesAreCopies DEF HInv
  <2>2. CASE k \in FromFrames
    <3>1. PICK f \in Holders : k = [of |-> Bindings[f.request], snapshot |-> f.own]
      BY <2>2
    <3>2. k.of = Bindings[f.request] /\ k.snapshot = f.own
      BY <3>1
    <3>3. f.own # NULL /\ f.request \in Requests /\ OwnCopied(f)
      <4>1. PICK d \in DOMAIN frames : f = frames[d] /\ f.own # NULL
        BY DEF ToSet
      <4>2. frames[d] \in FrameType /\ OwnCopied(frames[d])
        BY DEF HInv
      <4> QED BY <4>1, <4>2 DEF FrameType
    <3> QED BY <3>2, <3>3, BoundParams DEF OwnCopied
  <2> QED BY <1>1, <2>1, <2>2
<1>3. \A j \in kept' : j.of \in Bound /\ CopyOf(j.snapshot, j.of)
  BY <1>1, <1>2 DEF HInv
<1> QED BY <1>3, KeptKeeps DEF Keep

LEMMA FreeSnapshotKeeps ==
    ASSUME HInv, FreeSnapshot
    PROVE  HInv'
<1>1. \A k \in kept' : k.of \in Bound /\ CopyOf(k.snapshot, k.of)
  BY DEF FreeSnapshot, HInv
<1> QED BY <1>1, KeptKeeps DEF FreeSnapshot

LEMMA StutterKeeps ==
    ASSUME HInv, UNCHANGED handlerVars
    PROVE  HInv'
<1>1. UNCHANGED <<params, frames, texts>> /\ kept' = kept
  BY DEF handlerVars
<1>2. \A k \in kept' : k.of \in Bound /\ CopyOf(k.snapshot, k.of)
  BY <1>1 DEF HInv
<1> QED BY <1>1, <1>2, KeptKeeps

(* Snapshots are copies of what some request bound, in every reachable     *)
(* state.                                                                  *)
THEOREM CopiesKept == HandlersSpec => []HInv
<1>1. HandlersInit => HInv
  BY InitHolds
<1>2. HInv /\ [HandlersNext]_handlerVars => HInv'
  <2> SUFFICES ASSUME HInv, [HandlersNext]_handlerVars PROVE HInv'
    OBVIOUS
  <2>1. ASSUME NEW r \in Requests, Resolve(r) PROVE HInv'
    BY <2>1, ResolveKeeps
  <2>2. ASSUME NEW r \in Requests, NEW cpp \in BOOLEAN, Dispatch(r, cpp) PROVE HInv'
    BY <2>2, DispatchKeeps
  <2>3. CASE Enter
    BY <2>3, EnterKeeps
  <2>4. CASE Return
    BY <2>4, ReturnKeeps
  <2>5. CASE Keep
    BY <2>5, KeepKeeps
  <2>6. CASE FreeSnapshot
    BY <2>6, FreeSnapshotKeeps
  <2>7. ASSUME NEW t \in texts, FreeText(t) PROVE HInv'
    BY <2>7, FreeTextKeeps
  <2>8. CASE UNCHANGED handlerVars
    BY <2>8, StutterKeeps
  <2> QED BY <2>1, <2>2, <2>3, <2>4, <2>5, <2>6, <2>7, <2>8 DEF HandlersNext
<1> QED BY <1>1, <1>2, PTL DEF HandlersSpec

-----------------------------------------------------------------------------
(* A kept snapshot answers any lookup, by index and by name, as the        *)
(* parameters it was copied from, whatever has been matched or freed since *)
(* (wrouter_params_copy, Params::at, Params::get).                         *)
THEOREM KeptAnswersFaithful == HandlersSpec => []SnapshotsFaithful
<1>1. HInv => SnapshotsFaithful
  <2> SUFFICES ASSUME HInv, NEW k \in kept
               PROVE  /\ \A i : Params_at(k.snapshot, i) = wrouter_iparam(k.of, i)
                      /\ \A n : Params_get(k.snapshot, n) = wrouter_param(k.of, n)
    BY DEF SnapshotsFaithful
  <2>1. k.of \in Seq(Param) /\ k.snapshot = Snapshot(k.of) /\ RegionSize(k.of) # FAILED
    BY BoundParams DEF HInv, CopyOf
  <2> QED BY <2>1, SnapshotAnswers
<1> QED BY <1>1, CopiesKept, PTL

(* A kept snapshot's region has the length of its strings, and that is at  *)
(* most MaxSize: the comparisons of wrouter_params_copy do not wrap round. *)
THEOREM KeptWithinLimit == HandlersSpec => []SnapshotsWithinLimit
<1>1. HInv => SnapshotsWithinLimit
  <2> SUFFICES ASSUME HInv, NEW k \in kept
               PROVE  /\ Len(k.snapshot.region) <= MaxSize
                      /\ Len(k.snapshot.region) = Len(FlattenSeq([i \in DOMAIN k.of |-> Strings(k.of[i])]))
    BY DEF SnapshotsWithinLimit
  <2> DEFINE ps == k.of
  <2>1. ps \in Seq(Param) /\ k.snapshot = Snapshot(ps) /\ RegionSize(ps) # FAILED
    BY BoundParams DEF HInv, CopyOf
  <2> HIDE DEF ps
  <2>2. PICK R : Regions(ps, R)
    BY <2>1, RegionsExist
  <2>3. /\ FlattenSeq([i \in DOMAIN ps |-> Strings(ps[i])]) = R[Len(ps)]
        /\ Snapshot(ps).region = R[Len(ps)]
    BY <2>1, <2>2, SnapshotIs
  <2>4. Len(R[Len(ps)]) <= MaxSize
    BY <2>1, <2>2, RegionSizeIs
  <2>5. Len(k.snapshot.region) <= MaxSize
    BY <2>1, <2>3, <2>4
  <2>6. Len(k.snapshot.region) = Len(FlattenSeq([i \in DOMAIN ps |-> Strings(ps[i])]))
    BY <2>1, <2>3, Zenon
  <2> QED BY <2>5, <2>6, Zenon DEF ps
<1> QED BY <1>1, CopiesKept, PTL

(* A callable behind handler_trampoline sees its own request's values      *)
(* through any nesting of dispatches, and a C handler its parameters and   *)
(* their text until it dispatches or resolves.                             *)
THEOREM HandlersKeepTheirOwn == HandlersSpec => []HandlersSeeTheirOwn
<1>1. HInv => HandlersSeeTheirOwn
  <2> SUFFICES ASSUME HInv, NEW d \in DOMAIN frames
               PROVE  LET f == frames[d]
                          ps == Bindings[f.request]
                      IN  IF f.cpp THEN f.own # NULL => \A i \in 1..(Len(ps) + 1) : Params_at(f.own, i) = wrouter_iparam(ps, i)
                          ELSE ~f.disturbed => params = [bound |-> ps, text |-> d] /\ d \in texts
    BY Zenon DEF HandlersSeeTheirOwn
  <2> DEFINE f == frames[d]
             ps == Bindings[f.request]
  <2>1. f.request \in Requests /\ OwnCopied(f) /\ (~f.disturbed => InPlace(f, d, Depth, params, texts))
    <3>1. f \in FrameType
      BY DEF HInv
    <3> QED BY <3>1 DEF HInv, FrameType
  <2>2. ps \in Seq(Param)
    BY <2>1, BoundParams
  <2> HIDE DEF f
  <2>3. ASSUME f.own # NULL PROVE \A i : Params_at(f.own, i) = wrouter_iparam(ps, i)
    <3>1. f.own = Snapshot(ps) /\ RegionSize(ps) # FAILED
      BY <2>1, <2>3 DEF OwnCopied, CopyOf
    <3> QED BY <2>2, <3>1, SnapshotAnswers
  <2>4. ~f.disturbed => params = [bound |-> ps, text |-> d] /\ d \in texts
    BY <2>1 DEF InPlace
  <2> QED BY <2>3, <2>4 DEF f
<1> QED BY <1>1, CopiesKept, PTL
=============================================================================
