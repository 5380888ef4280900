--------------------------- MODULE StringsProofs ----------------------------
(***************************************************************************)
(* Theorems about the modules of the library that read and keep strings: the*)
(* two lexers, for all texts and limits, and the arena and the symbol tables*)
(* built over one, whatever is asked of them and whenever malloc fails.    *)
(*                                                                         *)
(* Part 1: what searching and cutting a text finds, and how token after    *)
(*   token is written out again.                                           *)
(* Part 2: lexer_next.  The tokens found are literals which, written out,  *)
(*   are the path up to the cursor, nothing of which is illegal; behind    *)
(*   them is, over and over, what is returned at that cursor.              *)
(* Part 3: prelexer_next.  The same of a pattern: segment by segment, what *)
(*   is before the cursor is legal and is what the tokens are written as.  *)
(* Part 4: on a text that is pattern and request, both return the same.    *)
(* Part 5: what an arena returns is aligned and apart; the slots of a symbol*)
(*   table that are read are filled.                                       *)
(* Part 6: strcmp orders the strings strictly, the list of symbol_compile  *)
(*   ascends, bsearch finds in it what is there, and what is read back from*)
(*   the region is what was written.                                       *)
(* Part 7: the arena holds the strings of its table and nothing else, so   *)
(*   the region is filled exactly, and what was appended is found in it.   *)
(***************************************************************************)
EXTENDS Lexer, Symbols, SequenceTheorems, DataProofs

-----------------------------------------------------------------------------
(* Part 1.                                                                 *)
-----------------------------------------------------------------------------

(* What the proofs use of a text: it is a sequence, with no NUL in it.     *)
TextOK == text \in Seq(ToSet(text)) /\ NUL \notin ToSet(text)

(* A text ends where the NUL is read, and nowhere before.                  *)
LEMMA TextLength ==
    ASSUME TextOK
    PROVE  /\ Len(text) \in Nat /\ DOMAIN text = 1..Len(text)
           /\ \A i \in Nat : (Char(i) = NUL) <=> (i \notin 1..Len(text))
           /\ \A i \in 1..Len(text) : Char(i) = text[i]
<1>1. Len(text) \in Nat /\ DOMAIN text = 1..Len(text)
  BY DEF TextOK
<1>2. \A i \in 1..Len(text) : text[i] # NUL
  BY <1>1 DEF TextOK, ToSet
<1> QED BY <1>1, <1>2 DEF Char

(* The least number of a set that has one.                                 *)
LEMMA MinIs ==
    ASSUME NEW S \in SUBSET Nat, S # {}
    PROVE  Min(S) \in S /\ \A y \in S : Min(S) <= y
<1>1. \E m \in S : \A y \in S : m <= y
  BY LeastNat
<1> QED BY <1>1, Zenon DEF Min

(* The two searches stop where their comment says.                         *)
Finds(j, i, set) ==
    /\ j \in Nat /\ i <= j /\ j <= Len(text) + 1
    /\ j <= Len(text) => text[j] \in set
    /\ \A k \in Nat : (i <= k /\ k < j) => text[k] \notin set

(* Find stops at the first character of the set, or at the end.            *)
LEMMA FindIs ==
    ASSUME TextOK, NEW i \in 1..(Len(text) + 1), NEW set
    PROVE  Finds(Find(i, set), i, set)
<1> DEFINE n == Len(text)
           S == {j \in i..(n + 1) : j > n \/ Char(j) \in set}
<1>1. n \in Nat /\ \A k \in 1..n : Char(k) = text[k]
  BY TextLength
<1>2. i \in Nat /\ i <= n + 1 /\ 1 <= i
  BY <1>1
<1>3. S \subseteq Nat /\ n + 1 \in S
  BY <1>1, <1>2
<1>4. Find(i, set) = Min(S)
  BY DEF Find
<1> DEFINE m == Min(S)
<1>5. m \in S /\ \A y \in S : m <= y
  <2> HIDE DEF S
  <2> QED BY <1>3, MinIs
<1> HIDE DEF m
<1>6. m \in Nat /\ i <= m /\ m <= n + 1 /\ (m > n \/ Char(m) \in set)
  BY <1>1, <1>2, <1>5
<1>7. ASSUME NEW k \in Nat, i <= k, k < m PROVE text[k] \notin set
  <2>1. k \in i..(n + 1) /\ k \in 1..n /\ ~(m <= k)
    BY <1>1, <1>2, <1>6, <1>7
  <2>2. k \notin S
    <3> HIDE DEF S
    <3> QED BY <1>5, <2>1
  <2> QED BY <1>1, <2>1, <2>2
<1> HIDE DEF S
<1>8. m <= n => text[m] \in set
  BY <1>1, <1>2, <1>6
<1> QED BY <1>4, <1>6, <1>7, <1>8 DEF Finds, m

(* FindOther stops at the first character that is not in the set.          *)
LEMMA FindOtherIs ==
    ASSUME TextOK, NEW i \in 1..(Len(text) + 1), NEW set, NUL \notin set
    PROVE  /\ Finds(FindOther(i, set), i, (ToSet(text) \cup {NUL}) \ set)
<1> DEFINE n == Len(text)
           S == {j \in i..(n + 1) : Char(j) \notin set}
           others == (ToSet(text) \cup {NUL}) \ set
<1>1. n \in Nat /\ (\A k \in 1..n : Char(k) = text[k] /\ text[k] \in ToSet(text)) /\ Char(n + 1) = NUL
  <2>1. n + 1 \in Nat /\ n + 1 \notin 1..n
    BY TextLength
  <2> QED BY <2>1, TextLength DEF ToSet
<1>2. i \in Nat /\ i <= n + 1 /\ 1 <= i
  BY <1>1
<1>3. S \subseteq Nat /\ n + 1 \in S
  BY <1>1, <1>2
<1>4. FindOther(i, set) = Min(S)
  BY DEF FindOther
<1> DEFINE m == Min(S)
<1>5. m \in S /\ \A y \in S : m <= y
  <2> HIDE DEF S
  <2> QED BY <1>3, MinIs
<1> HIDE DEF m
<1>6. m \in Nat /\ i <= m /\ m <= n + 1 /\ Char(m) \notin set
  BY <1>1, <1>2, <1>5
<1>7. ASSUME NEW k \in Nat, i <= k, k < m PROVE text[k] \notin others
  <2>1. k \in i..(n + 1) /\ k \in 1..n /\ ~(m <= k)
    BY <1>1, <1>2, <1>6, <1>7
  <2>2. k \notin S
    <3> HIDE DEF S
    <3> QED BY <1>5, <2>1
  <2> QED BY <1>1, <2>1, <2>2
<1> HIDE DEF S
<1>8. m <= n => text[m] \in others
  BY <1>1, <1>2, <1>6
<1> QED BY <1>4, <1>6, <1>7, <1>8 DEF Finds, m

-----------------------------------------------------------------------------
(* Parts of a sequence.                                                    *)
LEMMA PartIs ==
    ASSUME NEW T, NEW s \in Seq(T), NEW a \in Nat, NEW b \in Nat, 1 <= a, a <= b, b <= Len(s) + 1
    PROVE  /\ SubSeq(s, a, b - 1) \in Seq(T) /\ Len(SubSeq(s, a, b - 1)) = b - a
           /\ \A i \in 1..(b - a) : SubSeq(s, a, b - 1)[i] = s[a + i - 1]
OBVIOUS

(* Two parts of a sequence, one behind the other.                          *)
LEMMA SubSeqJoins ==
    ASSUME NEW T, NEW s \in Seq(T), NEW a \in Nat, NEW b \in Nat, NEW c \in Nat,
           1 <= a, a <= b, b <= c, c <= Len(s) + 1
    PROVE  SubSeq(s, a, b - 1) \o SubSeq(s, b, c - 1) = SubSeq(s, a, c - 1)
<1> DEFINE x == SubSeq(s, a, b - 1)
           y == SubSeq(s, b, c - 1)
           z == SubSeq(s, a, c - 1)
<1>0. Len(s) \in Nat /\ b <= Len(s) + 1 /\ 1 <= b /\ a <= c
  OBVIOUS
<1>1. x \in Seq(T) /\ Len(x) = b - a /\ \A i \in 1..(b - a) : x[i] = s[a + i - 1]
  BY <1>0, PartIs
<1>2. y \in Seq(T) /\ Len(y) = c - b /\ \A i \in 1..(c - b) : y[i] = s[b + i - 1]
  BY <1>0, PartIs
<1>3. z \in Seq(T) /\ Len(z) = c - a /\ \A i \in 1..(c - a) : z[i] = s[a + i - 1]
  BY <1>0, PartIs
<1> HIDE DEF x, y, z
<1>4. x \o y \in Seq(T) /\ Len(x \o y) = c - a
  <2>1. \A u, v \in Seq(T) : u \o v \in Seq(T) /\ Len(u \o v) = Len(u) + Len(v)
    OBVIOUS
  <2>2. (b - a) + (c - b) = c - a
    OBVIOUS
  <2> QED BY <1>1, <1>2, <2>1, <2>2
<1>6. \A u, v \in Seq(T) : \A j \in 1..(Len(u) + Len(v)) :
          (u \o v)[j] = IF j <= Len(u) THEN u[j] ELSE v[j - Len(u)]
  BY ONLY TRUE
<1>5. ASSUME NEW i \in 1..(c - a) PROVE (x \o y)[i] = z[i]
  <2>1. i \in 1..(Len(x) + Len(y))
    BY <1>1, <1>2
  <2>2. (x \o y)[i] = IF i <= Len(x) THEN x[i] ELSE y[i - Len(x)]
    BY ONLY <1>1, <1>2, <1>6, <2>1, Zenon
  <2>3. CASE i <= b - a
    <3>1. (x \o y)[i] = x[i] /\ i \in 1..(b - a)
      BY <1>1, <2>2, <2>3
    <3> QED BY <1>1, <1>3, <3>1
  <2>4. CASE i > b - a
    <3>1. i - (b - a) \in 1..(c - b) /\ b + (i - (b - a)) - 1 = a + i - 1
      BY <2>4
    <3>2. ~(i <= Len(x)) /\ i - Len(x) = i - (b - a)
      BY <1>1, <2>4
    <3>3. (x \o y)[i] = y[i - (b - a)]
      BY ONLY <2>2, <3>2
    <3> QED BY <1>2, <1>3, <3>1, <3>3
  <2>5. i <= b - a \/ i > b - a
    OBVIOUS
  <2> QED BY <2>3, <2>4, <2>5
<1> QED BY <1>3, <1>4, <1>5 DEF x, y, z

(* A part of one element.                                                  *)
LEMMA SubSeqOfOne ==
    ASSUME NEW T, NEW s \in Seq(T), NEW a \in Nat, 1 <= a, a <= Len(s)
    PROVE  SubSeq(s, a, a) = <<s[a]>>
<1> DEFINE x == SubSeq(s, a, a)
<1>1. x \in Seq(T) /\ Len(x) = 1 /\ x[1] = s[a]
  OBVIOUS
<1> HIDE DEF x
<1>2. x = <<x[1]>>
  BY <1>1
<1> QED BY <1>1, <1>2 DEF x

(* A part of two elements.                                                 *)
LEMMA SubSeqOfTwo ==
    ASSUME NEW T, NEW s \in Seq(T), NEW a \in Nat, 1 <= a, a + 1 <= Len(s)
    PROVE  SubSeq(s, a, a + 1) = <<s[a], s[a + 1]>>
<1> DEFINE x == SubSeq(s, a, a + 1)
<1>1. x \in Seq(T) /\ Len(x) = 2 /\ x[1] = s[a] /\ x[2] = s[a + 1]
  OBVIOUS
<1> HIDE DEF x
<1>2. x = <<x[1], x[2]>>
  BY <1>1
<1> QED BY <1>1, <1>2 DEF x

(* What is appended changes nothing before it.                             *)
LEMMA PrefixKept ==
    ASSUME NEW T, NEW s \in Seq(T), NEW t \in T
    PROVE  /\ Len(s) \in Nat /\ Append(s, t) \in Seq(T) /\ Len(Append(s, t)) = Len(s) + 1
           /\ Append(s, t)[Len(s) + 1] = t /\ \A i \in 1..Len(s) : Append(s, t)[i] = s[i]
           /\ \A m \in 0..Len(s) : SubSeq(Append(s, t), 1, m) = SubSeq(s, 1, m)
           /\ SubSeq(Append(s, t), 1, Len(s) + 1) = Append(s, t) /\ SubSeq(s, 1, Len(s)) = s
<1> DEFINE n == Len(s)
           a == Append(s, t)
<1>1. n \in Nat /\ a \in Seq(T) /\ Len(a) = n + 1 /\ a[n + 1] = t /\ \A i \in 1..n : a[i] = s[i]
  OBVIOUS
<1> HIDE DEF a
<1>2. ASSUME NEW m \in 0..n PROVE SubSeq(a, 1, m) = SubSeq(s, 1, m)
  <2> DEFINE x == SubSeq(a, 1, m)
             y == SubSeq(s, 1, m)
  <2>1. x \in Seq(T) /\ Len(x) = m /\ \A i \in 1..m : x[i] = a[i]
    BY <1>1
  <2>2. y \in Seq(T) /\ Len(y) = m /\ \A i \in 1..m : y[i] = s[i]
    BY <1>1
  <2> HIDE DEF x, y
  <2>3. \A i \in 1..m : x[i] = y[i]
    BY <1>1, <2>1, <2>2
  <2>4. x = y
    BY <2>1, <2>2, <2>3
  <2> QED BY <2>4 DEF x, y
<1>3. SubSeq(a, 1, n + 1) = a /\ SubSeq(s, 1, n) = s
  BY <1>1
<1> QED BY <1>1, <1>2, <1>3 DEF a

-----------------------------------------------------------------------------
(* FlattenSeq, a sequence at a time.                                       *)
LEMMA FlattenAppend ==
    ASSUME NEW T, NEW seqs \in Seq(Seq(T)), NEW s \in Seq(T)
    PROVE  /\ FlattenSeq(seqs) \in Seq(T)
           /\ FlattenSeq(Append(seqs, s)) = FlattenSeq(seqs) \o s
<1> DEFINE n == Len(seqs)
           all == Append(seqs, s)
<1>1. n \in Nat /\ all \in Seq(Seq(T)) /\ Len(all) = n + 1 /\ all[n + 1] = s
      /\ \A j \in 1..n : all[j] = seqs[j]
  OBVIOUS
<1>2. seqs = [j \in 1..n |-> seqs[j]]
  OBVIOUS
<1>3. all = [j \in 1..(n + 1) |-> all[j]]
  <2> HIDE DEF all
  <2> QED BY <1>1
<1> HIDE DEF all, n
<1>4. seqs = [j \in 1..n |-> all[j]]
  BY <1>1, <1>2
<1>5. PICK F : Joined(T, all, F)
  BY <1>1, JoinedExists
<1>6. n \in 0..Len(all) /\ n + 1 \in 0..Len(all) /\ n + 1 \in 1..Len(all) /\ (n + 1) - 1 = n
  BY <1>1
<1>7. F[n] \in Seq(T) /\ F[n + 1] = F[n] \o s
  <2>1. F[n] \in Seq(T)
    BY <1>1, <1>5, <1>6, JoinedSteps
  <2>2. F[n + 1] = F[(n + 1) - 1] \o all[n + 1]
    BY <1>1, <1>5, <1>6, JoinedSteps
  <2> QED BY <1>1, <1>6, <2>1, <2>2
<1>8. ASSUME NEW k \in 0..Len(all) PROVE FlattenSeq([j \in 1..k |-> all[j]]) = F[k]
  BY <1>1, <1>5, FlattenIsJoined
<1>9. /\ FlattenSeq([j \in 1..n |-> all[j]]) = F[n]
      /\ FlattenSeq([j \in 1..(n + 1) |-> all[j]]) = F[n + 1]
  BY <1>6, <1>8, Zenon
<1>10. FlattenSeq(seqs) = F[n] /\ FlattenSeq(all) = F[n + 1]
  BY <1>3, <1>4, <1>9, Zenon
<1> QED BY <1>7, <1>10 DEF all

(* Nothing, concatenated.                                                  *)
LEMMA FlattenEmpty == FlattenSeq(<<>>) = <<>>
<1>1. Len(<<>>) = 0
  OBVIOUS
<1> QED BY <1>1, Zenon DEF FlattenSeq

-----------------------------------------------------------------------------
Signs == {"/", "*", ":", "{", "}", "<", ">"}
Glyphs == ToSet(text) \cup Signs
Token == [type : Stop \cup {"LITERAL", "PARAM", "WILDCARD"}, name : Seq(ToSet(text))]
SyntaxOK == syntax \in {COLON, BRACE, ANGLE}

(* What the tokens are written as, one behind the other.                   *)
Flat(toks) == FlattenSeq([i \in DOMAIN toks |-> Spelling(toks[i])])

(* The closing bracket is one character, or there is none.                 *)
LEMMA ClosingIs ==
    ASSUME SyntaxOK
    PROVE  /\ SetToSeq(Closing) \in Seq(Glyphs)
           /\ syntax = COLON => SetToSeq(Closing) = <<>>
<1>1. CASE syntax = COLON
  <2>1. Closing = {}
    BY <1>1 DEF Closing, COLON, BRACE, ANGLE
  <2>2. Cardinality(Closing) = 0
    BY <2>1, FS_EmptySet
  <2>3. <<>> \in [1..0 -> Closing] /\ \A f \in [1..0 -> Closing] : f = <<>>
    OBVIOUS
  <2>4. IsInjective(<<>>)
    BY DEF IsInjective
  <2>5. SetToSeq(Closing) = CHOOSE f \in [1..0 -> Closing] : IsInjective(f)
    BY <2>2, Zenon DEF SetToSeq
  <2>6. SetToSeq(Closing) = <<>>
    BY <2>3, <2>4, <2>5
  <2>7. <<>> \in Seq(Glyphs)
    OBVIOUS
  <2> QED BY <2>6, <2>7
<1>2. CASE syntax # COLON
  <2>1. PICK c \in Signs : Closing = {c}
    BY <1>2 DEF Closing, SyntaxOK, COLON, BRACE, ANGLE, Signs
  <2>2. Cardinality(Closing) = 1
    BY <2>1, FS_Singleton
  <2>3. <<c>> \in [1..1 -> Closing] /\ IsInjective(<<c>>)
    BY <2>1 DEF IsInjective
  <2>4. SetToSeq(Closing) = CHOOSE f \in [1..1 -> Closing] : IsInjective(f)
    BY <2>2, Zenon DEF SetToSeq
  <2>5. SetToSeq(Closing) \in [1..1 -> Closing]
    BY <2>3, <2>4
  <2>6. \A f \in [1..1 -> Closing] : f \in Seq(Glyphs)
    <3>1. Closing \subseteq Glyphs
      BY <2>1 DEF Glyphs
    <3>2. \A f \in [1..1 -> Closing] : f = <<f[1]>> /\ f[1] \in Glyphs
      BY <3>1
    <3>3. \A g \in Glyphs : <<g>> \in Seq(Glyphs)
      OBVIOUS
    <3> QED BY <3>2, <3>3, Zenon
  <2> QED BY <1>2, <2>5, <2>6
<1> QED BY <1>1, <1>2

(* A token is written in the characters of texts and patterns.             *)
LEMMA SpellingType ==
    ASSUME SyntaxOK, NEW tok \in Token
    PROVE  Spelling(tok) \in Seq(Glyphs)
<1>1. tok.name \in Seq(Glyphs)
  BY DEF Token, Glyphs
<1>2. SetToSeq(Closing) \in Seq(Glyphs)
  BY ClosingIs
<1>3. Opening \in Glyphs /\ "/" \in Glyphs /\ "*" \in Glyphs
  BY DEF Opening, SyntaxOK, Glyphs, Signs
<1>4. <<"/">> \in Seq(Glyphs) /\ <<"/", Opening>> \in Seq(Glyphs) /\ <<"/", "*">> \in Seq(Glyphs)
      /\ <<>> \in Seq(Glyphs)
  BY <1>3
<1>5. /\ <<"/">> \o tok.name \in Seq(Glyphs)
      /\ <<"/", Opening>> \o tok.name \o SetToSeq(Closing) \in Seq(Glyphs)
  BY <1>1, <1>2, <1>4
<1> QED BY <1>4, <1>5 DEF Spelling

(* One more token is written behind the others.                            *)
LEMMA FlatAppend ==
    ASSUME SyntaxOK, NEW toks \in Seq(Token), NEW tok \in Token
    PROVE  /\ Flat(toks) \in Seq(Glyphs) /\ Spelling(tok) \in Seq(Glyphs)
           /\ Flat(Append(toks, tok)) = Flat(toks) \o Spelling(tok)
<1> DEFINE n == Len(toks)
           seqs == [i \in DOMAIN toks |-> Spelling(toks[i])]
           all == Append(toks, tok)
           s == Spelling(tok)
<1>1. n \in Nat /\ DOMAIN toks = 1..n /\ (\A i \in 1..n : toks[i] \in Token)
      /\ DOMAIN all = 1..(n + 1) /\ all[n + 1] = tok /\ \A i \in 1..n : all[i] = toks[i]
  OBVIOUS
<1>2. \A i \in 1..n : Spelling(toks[i]) \in Seq(Glyphs)
  BY <1>1, SpellingType
<1>3. s \in Seq(Glyphs)
  BY SpellingType
<1> HIDE DEF n, s
<1>4. seqs \in Seq(Seq(Glyphs)) /\ Len(seqs) = n /\ \A i \in 1..n : seqs[i] = Spelling(toks[i])
  BY <1>1, <1>2
<1> HIDE DEF all
<1> DEFINE more == [i \in DOMAIN all |-> Spelling(all[i])]
<1>5. /\ Append(seqs, s) = [i \in 1..(n + 1) |-> IF i \in 1..n THEN Spelling(toks[i]) ELSE s]
  <2> DEFINE g == Append(seqs, s)
  <2> HIDE DEF seqs
  <2>1. /\ g \in Seq(Seq(Glyphs)) /\ Len(g) = n + 1 /\ g[n + 1] = s
        /\ \A i \in 1..n : g[i] = Spelling(toks[i])
    BY <1>1, <1>3, <1>4
  <2> HIDE DEF g
  <2>2. g = [i \in 1..(n + 1) |-> g[i]]
    BY <2>1
  <2>3. \A i \in 1..(n + 1) : g[i] = IF i \in 1..n THEN Spelling(toks[i]) ELSE s
    BY <1>1, <2>1
  <2> QED BY <2>2, <2>3 DEF g
<1>6. \A i \in 1..(n + 1) : Spelling(all[i]) = IF i \in 1..n THEN Spelling(toks[i]) ELSE s
  <2>1. \A i \in 1..(n + 1) : i \in 1..n \/ i = n + 1
    BY <1>1
  <2>2. n + 1 \notin 1..n
    BY <1>1
  <2> QED BY <1>1, <2>1, <2>2, Zenon DEF s
<1>7. more = Append(seqs, s)
  BY <1>1, <1>5, <1>6
<1> HIDE DEF seqs, more
<1>8. FlattenSeq(seqs) \in Seq(Glyphs) /\ FlattenSeq(Append(seqs, s)) = FlattenSeq(seqs) \o s
  BY <1>3, <1>4, FlattenAppend
<1> QED BY <1>3, <1>7, <1>8 DEF Flat, seqs, more, all, s

(* No tokens are written as nothing.                                       *)
LEMMA FlatEmpty == Flat(<<>>) = <<>>
<1>1. [i \in DOMAIN <<>> |-> Spelling(<<>>[i])] = <<>>
  OBVIOUS
<1> QED BY <1>1, FlattenEmpty, Zenon DEF Flat

-----------------------------------------------------------------------------
(* Part 2.                                                                 *)
-----------------------------------------------------------------------------
(* What lexer_next returns at a cursor, and where it leaves the cursor.    *)
LastCharacter(p) == p = Len(text) /\ Char(p) = "/"
SegmentStop(p) == Find(p + 1, {"/"} \cup Illegals)
IllegalAt(p) == Char(p + 1) = "/" \/ Char(SegmentStop(p)) \in Illegals
LiteralAt(p) == p \in 1..Len(text) /\ ~LastCharacter(p) /\ ~IllegalAt(p)
Tok(type, name) == [type |-> type, name |-> name]

Returns(p, tok, q) ==
    \/ p = 0 /\ tok = Tok("ILLEGAL", <<>>) /\ q = p
    \/ p = Len(text) + 1 /\ tok = Tok("END", <<>>) /\ q = p
    \/ p \in 1..Len(text) /\ LastCharacter(p) /\ p = 1 /\ tok = Tok("END", <<>>) /\ q = p
    \/ p \in 1..Len(text) /\ LastCharacter(p) /\ p # 1 /\ tok = Tok("TRAILING", <<>>) /\ q = p
    \/ p \in 1..Len(text) /\ ~LastCharacter(p) /\ IllegalAt(p) /\ tok = Tok("ILLEGAL", <<>>) /\ q = p
    \/ LiteralAt(p) /\ tok = Tok("LITERAL", Slice(p + 1, SegmentStop(p))) /\ q = SegmentStop(p)

(* Each action of lexer_next is one case of Returns.                       *)
LEMMA LexerReturns ==
    ASSUME TextOK, at \in 0..(Len(text) + 1), LexNext
    PROVE  /\ \E tok : Returns(at, tok, at') /\ found' = Append(found, tok)
           /\ UNCHANGED preVars
<1>1. Len(text) \in Nat
  BY TextLength
<1>2. CASE NullRequest
  BY <1>2 DEF NullRequest, Return, Returns, Tok
<1>3. CASE EndOfPath
  BY <1>3 DEF EndOfPath, Return, Returns, Tok
<1>4. CASE SlashAtEnd
  <2>1. at \in 1..Len(text) /\ LastCharacter(at)
    <3>1. at # 0
      BY <1>4, <1>1, TextLength DEF SlashAtEnd, Char, NUL
    <3> QED BY <1>1, <1>4, <3>1 DEF SlashAtEnd, LastCharacter
  <2> QED BY <1>4, <2>1 DEF SlashAtEnd, Return, Returns, Tok
<1>5. CASE IllegalSegment
  <2>1. at \in 1..Len(text) /\ ~LastCharacter(at) /\ IllegalAt(at)
    BY <1>5 DEF IllegalSegment, AtSegment, LastCharacter, IllegalAt, SegmentEnd, SegmentStop
  <2> QED BY <1>5, <2>1 DEF IllegalSegment, Return, Returns, Tok
<1>6. CASE LiteralSegment
  <2>1. LiteralAt(at) /\ SegmentEnd = SegmentStop(at)
    BY <1>6 DEF LiteralSegment, AtSegment, LastCharacter, IllegalAt, SegmentEnd, SegmentStop, LiteralAt
  <2> QED BY <1>6, <2>1 DEF LiteralSegment, Return, Returns, Tok
<1> QED BY <1>2, <1>3, <1>4, <1>5, <1>6 DEF LexNext

(* No two answers at one cursor.                                           *)
LEMMA ReturnsOnce ==
    ASSUME NEW p \in 0..(Len(text) + 1), TextOK,
           NEW s, NEW q, Returns(p, s, q), NEW t, NEW r, Returns(p, t, r)
    PROVE  t = s /\ r = q
<1>1. Len(text) \in Nat
  BY TextLength
<1> QED BY <1>1 DEF Returns, LiteralAt

-----------------------------------------------------------------------------
(* The path has been read up to p: p is at a slash, or at the end, and     *)
(* nothing before it is illegal.                                           *)
Read(p) ==
    /\ p \in 1..(Len(text) + 1) /\ Loads(text) /\ Len(text) <= CharLimit
    /\ p <= Len(text) => text[p] = "/"
    /\ \A k \in 1..(p - 1) : text[k] \notin Illegals /\ ~(text[k] = "/" /\ Char(k + 1) = "/")

(* A literal reads a segment on, and is written as what it has read.       *)
LEMMA LiteralReads ==
    ASSUME TextOK, NEW p \in Nat, Read(p), NEW tok, NEW q, Returns(p, tok, q), tok.type = "LITERAL"
    PROVE  /\ Read(q) /\ p + 2 <= q
           /\ tok \in Token /\ Spelling(tok) = SubSeq(text, p, q - 1)
<1> DEFINE n == Len(text)
           e == SegmentStop(p)
<1>1. n \in Nat /\ (\A i \in Nat : (Char(i) = NUL) <=> (i \notin 1..n))
      /\ (\A i \in 1..n : Char(i) = text[i]) /\ text \in Seq(ToSet(text))
  BY TextLength DEF TextOK
<1>2. LiteralAt(p) /\ tok = Tok("LITERAL", Slice(p + 1, e)) /\ q = e
  BY DEF Returns, Tok
<1>3. p \in 1..n /\ ~LastCharacter(p) /\ Char(p + 1) # "/" /\ Char(e) \notin Illegals
  BY <1>2 DEF LiteralAt, IllegalAt
<1>4. text[p] = "/" /\ p < n
  <2>1. text[p] = "/" /\ Char(p) = "/"
    BY <1>1, <1>3 DEF Read
  <2> QED BY <1>1, <1>3, <2>1 DEF LastCharacter
<1>5. Finds(e, p + 1, {"/"} \cup Illegals)
  BY <1>1, <1>4, FindIs DEF SegmentStop
<1> HIDE DEF e
<1>6. /\ e \in Nat /\ p + 1 <= e /\ e <= n + 1
      /\ e <= n => text[e] = "/"
      /\ \A k \in Nat : (p + 1 <= k /\ k < e) => (text[k] # "/" /\ text[k] \notin Illegals)
  <2>1. e <= n => e \in 1..n
    BY <1>1, <1>5 DEF Finds
  <2> QED BY <1>1, <1>3, <1>5, <2>1 DEF Finds
<1>7. p + 2 <= e
  <2>1. e # p + 1
    BY <1>1, <1>3, <1>4, <1>6
  <2> QED BY <1>3, <1>6, <2>1
<1>8. Read(e)
  <2>1. e \in 1..(n + 1)
    BY <1>1, <1>6
  <2>2. ASSUME NEW k \in 1..(e - 1) PROVE text[k] \notin Illegals /\ ~(text[k] = "/" /\ Char(k + 1) = "/")
    <3>1. CASE k < p
      <4>1. k \in 1..(p - 1)
        BY <3>1
      <4> QED BY <4>1 DEF Read
    <3>2. CASE k = p
      BY <1>3, <1>4, <3>2 DEF Illegals
    <3>3. CASE k > p
      BY <1>6, <3>3
    <3> QED BY <3>1, <3>2, <3>3
  <2> QED BY <1>6, <2>1, <2>2 DEF Read
<1>9. Slice(p + 1, e) = SubSeq(text, p + 1, e - 1)
  <2>1. CharLimit \in Nat /\ MaxLength \in Nat /\ CharLimit <= MaxLength /\ n <= CharLimit
    BY LexerAssumption DEF Read
  <2>2. e - (p + 1) \in 0..MaxLength
    BY <1>1, <1>3, <1>6, <2>1
  <2>3. (e - (p + 1)) % (MaxLength + 1) = e - (p + 1)
    BY <2>1, <2>2
  <2>4. (p + 1) + (e - (p + 1)) - 1 = e - 1
    BY <1>3, <1>6
  <2> QED BY <2>3, <2>4, Zenon DEF Slice
<1> DEFINE w == SubSeq(text, p + 1, e - 1)
<1>10. w \in Seq(ToSet(text)) /\ Len(w) = (e - 1) - p /\ \A i \in 1..((e - 1) - p) : w[i] = text[p + i]
  BY <1>1, <1>3, <1>6, <1>7
<1> HIDE DEF w
<1>11. <<"/">> \o w = SubSeq(text, p, e - 1)
  <2>1. SubSeq(text, p, p) = <<"/">>
    BY <1>1, <1>3, <1>4, SubSeqOfOne
  <2>2. SubSeq(text, p, (p + 1) - 1) \o SubSeq(text, p + 1, e - 1) = SubSeq(text, p, e - 1)
    BY <1>1, <1>3, <1>6, SubSeqJoins
  <2>3. (p + 1) - 1 = p
    OBVIOUS
  <2> QED BY <2>1, <2>2, <2>3 DEF w
<1>12. tok.type = "LITERAL" /\ tok.name = w /\ tok \in Token
  BY <1>2, <1>9, <1>10 DEF Tok, Token, w
<1>13. Spelling(tok) = <<"/">> \o w
  BY <1>12, Zenon DEF Spelling
<1> QED BY <1>2, <1>7, <1>8, <1>11, <1>12, <1>13

-----------------------------------------------------------------------------
(* The first m of the tokens are literals, written as what has been read;  *)
(* all others are what is returned at the cursor, which stays.             *)
RequestRead(m, toks, p) ==
    /\ \A i \in 1..m : toks[i].type = "LITERAL"
    /\ Flat(SubSeq(toks, 1, m)) = SubSeq(text, 1, p - 1)
    /\ IF p = 0 THEN m = 0 /\ ~(Loads(text) /\ Len(text) <= CharLimit) ELSE Read(p)
    /\ m = 0 <=> p <= 1
    /\ \A i \in (m + 1)..Len(toks) : toks[i].type \in Stop /\ Returns(p, toks[i], p)

RequestInv(toks, p) ==
    /\ toks \in Seq(Token) /\ p \in 0..(Len(text) + 1)
    /\ \E m \in 0..Len(toks) : RequestRead(m, toks, p)

(* A token that stops the reader leaves the cursor; any other is a literal. *)
LEMMA ReturnsType ==
    ASSUME TextOK, NEW p \in 0..(Len(text) + 1), NEW tok, NEW q, Returns(p, tok, q)
    PROVE  /\ tok.type \in Stop => tok \in Token /\ q = p
           /\ tok.type \notin Stop => tok.type = "LITERAL" /\ p # 0
<1>1. <<>> \in Seq(ToSet(text)) /\ Len(text) \in Nat
  BY TextLength
<1>2. \A type \in Stop : Tok(type, <<>>) \in Token /\ Tok(type, <<>>).type = type
  BY <1>1 DEF Token, Tok
<1>3. \A name : Tok("LITERAL", name).type = "LITERAL" /\ "LITERAL" \notin Stop
  BY DEF Tok, Stop
<1>4. CASE LiteralAt(p) /\ tok = Tok("LITERAL", Slice(p + 1, SegmentStop(p)))
  BY <1>1, <1>3, <1>4 DEF LiteralAt
<1>5. CASE \E type \in Stop : tok = Tok(type, <<>>) /\ q = p
  BY <1>2, <1>5
<1>6. {"ILLEGAL", "END", "TRAILING"} \subseteq Stop
  BY DEF Stop
<1> QED BY <1>4, <1>5, <1>6 DEF Returns

(* A call of lexer_next keeps the invariant.                               *)
LEMMA RequestStep ==
    ASSUME TextOK, SyntaxOK, NEW toks, NEW p, RequestInv(toks, p),
           NEW tok, NEW q, Returns(p, tok, q)
    PROVE  RequestInv(Append(toks, tok), q)
<1> DEFINE n == Len(text)
           len == Len(toks)
           more == Append(toks, tok)
<1>1. n \in Nat /\ toks \in Seq(Token) /\ p \in 0..(n + 1) /\ len \in Nat
  BY TextLength DEF RequestInv
<1>2. PICK m \in 0..len : RequestRead(m, toks, p)
  BY DEF RequestInv
<1>3. CASE tok.type \in Stop
  <2>1. tok \in Token /\ q = p
    BY <1>1, <1>3, ReturnsType
  <2>2. /\ more \in Seq(Token) /\ Len(more) = len + 1 /\ more[len + 1] = tok
        /\ SubSeq(more, 1, m) = SubSeq(toks, 1, m) /\ \A i \in 1..len : more[i] = toks[i]
    BY <1>1, <2>1, PrefixKept
  <2> HIDE DEF more, len, n
  <2>3. \A i \in 1..m : more[i].type = "LITERAL"
    <3>1. \A i \in 1..m : i \in 1..len
      BY <1>1
    <3> QED BY <1>2, <2>2, <3>1 DEF RequestRead
  <2>4. \A i \in (m + 1)..(len + 1) : more[i].type \in Stop /\ Returns(p, more[i], p)
    <3>1. \A i \in (m + 1)..(len + 1) : i = len + 1 \/ (i \in (m + 1)..len /\ i \in 1..len)
      BY <1>1
    <3> QED BY <1>2, <1>3, <2>1, <2>2, <3>1 DEF RequestRead, len
  <2>5. RequestRead(m, more, p)
    BY <1>2, <2>2, <2>3, <2>4 DEF RequestRead
  <2> QED BY <1>1, <2>1, <2>2, <2>5 DEF RequestInv, n, more
<1>4. CASE tok.type \notin Stop
  <2>1. tok.type = "LITERAL" /\ p # 0
    BY <1>1, <1>4, ReturnsType
  <2>2. Read(p) /\ p \in Nat
    BY <1>1, <1>2, <2>1 DEF RequestRead
  <2>3. Read(q) /\ p + 2 <= q /\ tok \in Token /\ Spelling(tok) = SubSeq(text, p, q - 1)
    BY <2>1, <2>2, LiteralReads
  <2>4. q \in 1..(n + 1) /\ p \in 1..(n + 1)
    BY <2>2, <2>3 DEF Read
  <2>5. m = len
    <3>1. SUFFICES ASSUME m # len PROVE FALSE
      OBVIOUS
    <3>2. len \in (m + 1)..Len(toks)
      BY <1>1, <3>1
    <3>3. toks[len].type \in Stop /\ Returns(p, toks[len], p)
      BY <1>2, <3>2 DEF RequestRead
    <3>4. tok = toks[len]
      BY <1>1, <3>3, ReturnsOnce
    <3> QED BY <1>4, <3>3, <3>4
  <2>6. /\ more \in Seq(Token) /\ Len(more) = len + 1 /\ more[len + 1] = tok
        /\ SubSeq(toks, 1, m) = toks /\ \A i \in 1..len : more[i] = toks[i]
        /\ SubSeq(more, 1, len + 1) = more
    BY <1>1, <2>3, <2>5, PrefixKept
  <2>7. Flat(toks) = SubSeq(text, 1, p - 1) /\ Flat(more) = Flat(toks) \o Spelling(tok)
    <3>1. Flat(toks) = SubSeq(text, 1, p - 1)
      BY <1>2, <2>6 DEF RequestRead
    <3> QED BY <1>1, <2>3, <3>1, FlatAppend
  <2>8. Flat(more) = SubSeq(text, 1, q - 1)
    <3>1. SubSeq(text, 1, p - 1) \o SubSeq(text, p, q - 1) = SubSeq(text, 1, q - 1)
      BY <1>1, <2>3, <2>4, SubSeqJoins DEF TextOK
    <3> QED BY <2>3, <2>7, <3>1
  <2> HIDE DEF more, len, n
  <2>9. \A i \in 1..(len + 1) : more[i].type = "LITERAL"
    <3>1. \A i \in 1..(len + 1) : i \in 1..len \/ i = len + 1
      BY <1>1
    <3> QED BY <1>2, <2>1, <2>5, <2>6, <3>1 DEF RequestRead
  <2>10. RequestRead(len + 1, more, q)
    <3>1. q # 0 /\ ~(q <= 1) /\ len + 1 # 0
      BY <1>1, <2>3, <2>4
    <3>2. \A i \in ((len + 1) + 1)..Len(more) : FALSE
      BY <1>1, <2>6
    <3> QED BY <2>3, <2>6, <2>8, <2>9, <3>1, <3>2 DEF RequestRead
  <2>11. len + 1 \in 0..Len(more) /\ q \in 0..(n + 1)
    BY <1>1, <2>4, <2>6
  <2> QED BY <2>6, <2>10, <2>11 DEF RequestInv, n, more
<1> QED BY <1>3, <1>4

-----------------------------------------------------------------------------
(* The parts of the invariant depend on the text and the syntax, and no    *)
(* step changes these.                                                     *)
LEMMA FlatAfter ==
    ASSUME UNCHANGED <<text, syntax>>, NEW m, NEW toks, toks = found'
    PROVE  Flat(SubSeq(found, 1, m))' = Flat(SubSeq(toks, 1, m))
<1> DEFINE f == SubSeq(found, 1, m)
           g == SubSeq(toks, 1, m)
<1>1. \A i : Spelling(f[i])' = Spelling(g[i])
  BY Zenon DEF Spelling, Opening, Closing
<1>2. f' = g
  BY Zenon
<1>3. [i \in DOMAIN f |-> Spelling(f[i])]' = [i \in DOMAIN g |-> Spelling(g[i])]
  BY <1>1, <1>2
<1> QED BY <1>3, Zenon DEF Flat

(* The same of what has been read.                                         *)
LEMMA RequestReadAfter ==
    ASSUME UNCHANGED <<text, syntax>>, NEW m, NEW toks, NEW p, toks = found', p = at',
           RequestRead(m, toks, p)
    PROVE  RequestRead(m, found, at)'
<1>1. Flat(SubSeq(found, 1, m))' = Flat(SubSeq(toks, 1, m))
  BY FlatAfter
<1>2. \A i : Returns(at, found[i], at)' <=> Returns(p, toks[i], p)
  BY ZenonT(90) DEF Returns, LiteralAt, IllegalAt, SegmentStop, LastCharacter, Char, Find, Slice
<1>3. Read(at)' <=> Read(p)
  BY DEF Read, Char
<1> QED BY <1>1, <1>2, <1>3, Zenon DEF RequestRead

(* The same of the invariant.                                              *)
LEMMA RequestInvAfter ==
    ASSUME UNCHANGED <<text, syntax>>, RequestInv(found', at')
    PROVE  RequestInv(found, at)'
<1>1. PICK toks, p : toks = found' /\ p = at'
  OBVIOUS
<1>2. toks \in Seq(Token) /\ p \in 0..(Len(text) + 1) /\ \E m \in 0..Len(toks) : RequestRead(m, toks, p)
  BY <1>1 DEF RequestInv
<1>3. PICK m \in 0..Len(toks) : RequestRead(m, toks, p)
  BY <1>2
<1>4. RequestRead(m, found, at)'
  BY <1>1, <1>3, RequestReadAfter
<1>5. (found \in Seq(Token) /\ at \in 0..(Len(text) + 1))' /\ m \in 0..Len(found')
  BY <1>1, <1>2, <1>3 DEF Token
<1>6. (\E k \in 0..Len(found) : RequestRead(k, found, at))'
  BY <1>4, <1>5
<1> QED BY <1>5, <1>6 DEF RequestInv

-----------------------------------------------------------------------------
LInv == TextOK /\ SyntaxOK /\ RequestInv(found, at)

(* The texts are as assumed of all of them.                                *)
LEMMA InitText ==
    ASSUME PreInit
    PROVE  TextOK /\ SyntaxOK
BY LexerAssumption DEF PreInit, TextOK, SyntaxOK

(* A request that has been loaded, or refused, is read up to its start.    *)
LEMMA InitLInv == LexInit => LInv
<1> SUFFICES ASSUME LexInit PROVE LInv
  OBVIOUS
<1>1. TextOK /\ SyntaxOK /\ found = <<>> /\ at = LexLoad
  BY InitText DEF LexInit
<1>2. Len(text) \in Nat /\ (\A i \in 1..Len(text) : Char(i) = text[i]) /\ text \in Seq(ToSet(text))
  BY <1>1, TextLength DEF TextOK
<1>3. <<>> \in Seq(Token) /\ Len(<<>>) = 0 /\ SubSeq(<<>>, 1, 0) = <<>>
  OBVIOUS
<1>4. SubSeq(text, 1, 0) = <<>> /\ SubSeq(text, 1, 0 - 1) = <<>>
  BY <1>2
<1>5. at \in 0..1 /\ (at = 0 <=> ~(Loads(text) /\ Len(text) <= CharLimit))
  BY <1>1 DEF LexLoad
<1>6. at = 1 => Read(1)
  <2> SUFFICES ASSUME at = 1 PROVE Read(1)
    OBVIOUS
  <2>1. Loads(text) /\ Len(text) <= CharLimit /\ text[1] = "/"
    BY <1>5 DEF Loads
  <2>2. 1 \in 1..(Len(text) + 1) /\ \A k \in 1..(1 - 1) : FALSE
    BY <1>2
  <2> QED BY <2>1, <2>2 DEF Read
<1>7. SubSeq(text, 1, at - 1) = <<>>
  BY <1>4, <1>5
<1>8. Flat(SubSeq(found, 1, 0)) = SubSeq(text, 1, at - 1)
  BY <1>1, <1>3, <1>7, FlatEmpty, Zenon
<1>9. RequestRead(0, found, at)
  <2>1. \A i \in 1..0 : FALSE
    OBVIOUS
  <2>2. \A i \in (0 + 1)..Len(found) : FALSE
    BY <1>1, <1>3
  <2> QED BY <1>5, <1>6, <1>8, <2>1, <2>2 DEF RequestRead
<1>10. at \in 0..(Len(text) + 1) /\ 0 \in 0..Len(found)
  BY <1>1, <1>2, <1>3, <1>5, <1>6 DEF Read
<1> QED BY <1>1, <1>3, <1>9, <1>10 DEF LInv, RequestInv

(* prelexer_next changes neither text nor syntax.                          *)
LEMMA PreNextKeepsText ==
    ASSUME PreNext
    PROVE  UNCHANGED <<text, syntax>>
BY DEF PreNext, NotLoaded, EndOfPattern, LastSlash, DoubleSlash, ParamToken, WildcardToken,
       LiteralToken, EmitName, Emit

(* The invariant of part 2 is inductive.                                   *)
LEMMA NextLInv ==
    ASSUME LInv, [Next]_lexVars
    PROVE  LInv'
<1>1. UNCHANGED <<text, syntax>> /\ RequestInv(found', at')
  <2>1. CASE PreNext /\ UNCHANGED <<at, found>>
    BY <2>1, PreNextKeepsText DEF LInv
  <2>2. CASE LexNext
    <3>1. at \in 0..(Len(text) + 1)
      BY DEF LInv, RequestInv
    <3>2. PICK tok : Returns(at, tok, at') /\ found' = Append(found, tok)
      BY <2>2, <3>1, LexerReturns DEF LInv
    <3>3. UNCHANGED <<text, syntax>>
      BY <2>2, <3>1, LexerReturns DEF LInv, preVars
    <3>4. RequestInv(Append(found, tok), at')
      BY <3>2, RequestStep DEF LInv
    <3> QED BY <3>2, <3>3, <3>4
  <2>3. CASE UNCHANGED lexVars
    BY <2>3 DEF LInv, lexVars, preVars
  <2> QED BY <2>1, <2>2, <2>3 DEF Next
<1>2. (TextOK /\ SyntaxOK)'
  BY <1>1 DEF LInv, TextOK, SyntaxOK
<1> QED BY <1>1, <1>2, RequestInvAfter DEF LInv

(* What lexer_next has read stays read: the invariant of part 2 holds in   *)
(* every state, however often the function is called.                      *)
THEOREM LexersInvariant == LexerSpec => []LInv
<1>1. LexInit => LInv
  BY InitLInv
<1>2. LInv /\ [Next]_lexVars => LInv'
  BY NextLInv
<1> QED BY <1>1, <1>2, PTL DEF LexerSpec

-----------------------------------------------------------------------------
(* Tokens that end where the text does are written as the text.            *)
EndsAt(toks, type, p) ==
    \/ toks # <<>> /\ type = "END" /\ p = Len(text) + 1
    \/ toks # <<>> /\ type = "TRAILING" /\ p = Len(text) /\ p # 0 /\ text[p] = "/"
    \/ toks = <<>> /\ p = 1 /\ Len(text) = 1 /\ text[1] = "/"

LEMMA WholeTextSpelled ==
    ASSUME TextOK, SyntaxOK, NEW toks \in Seq(Token), NEW tok \in Token, NEW p \in Nat,
           Flat(toks) = SubSeq(text, 1, p - 1), EndsAt(toks, tok.type, p)
    PROVE  Spelled(Append(toks, tok)) = text
<1> DEFINE n == Len(text)
           all == Append(toks, tok)
<1>1. n \in Nat /\ text \in Seq(ToSet(text)) /\ Len(toks) \in Nat /\ Len(all) = Len(toks) + 1
  BY TextLength DEF TextOK
<1>2. CASE toks = <<>>
  <2>1. Len(all) = 1
    BY <1>1, <1>2
  <2>2. Spelled(all) = <<"/">>
    BY <2>1, Zenon DEF Spelled
  <2>3. text = <<"/">>
    BY <1>1, <1>2 DEF EndsAt
  <2> QED BY <2>2, <2>3
<1>3. CASE toks # <<>>
  <2>1. Len(all) # 1
    BY <1>1, <1>3
  <2>2. Spelled(all) = Flat(all)
    BY <2>1, Zenon DEF Spelled, Flat
  <2>3. Flat(all) = SubSeq(text, 1, p - 1) \o Spelling(tok)
    BY FlatAppend, Zenon
  <2>4. CASE tok.type = "END" /\ p = n + 1
    <3>1. Spelling(tok) = <<>>
      BY <2>4, Zenon DEF Spelling
    <3>2. SubSeq(text, 1, p - 1) = text /\ text \o <<>> = text
      BY <1>1, <2>4
    <3> QED BY <2>2, <2>3, <3>1, <3>2
  <2>5. CASE tok.type = "TRAILING" /\ p = n /\ n # 0 /\ text[n] = "/"
    <3>1. Spelling(tok) = <<"/">>
      BY <2>5, Zenon DEF Spelling
    <3>2. 1 <= n /\ n <= n + 1 /\ n + 1 <= n + 1 /\ n + 1 \in Nat /\ (n + 1) - 1 = n
      BY <1>1, <2>5
    <3>3. SubSeq(text, n, n) = <<"/">>
      <4>1. SubSeq(text, n, n) = <<text[n]>>
        BY <1>1, <3>2, SubSeqOfOne
      <4> QED BY <2>5, <4>1
    <3>4. SubSeq(text, 1, n - 1) \o SubSeq(text, n, (n + 1) - 1) = SubSeq(text, 1, (n + 1) - 1)
      BY <1>1, <3>2, SubSeqJoins
    <3>5. SubSeq(text, 1, n) = text
      BY <1>1
    <3> QED BY <2>2, <2>3, <2>5, <3>1, <3>2, <3>3, <3>4, <3>5
  <2> QED BY <1>3, <2>4, <2>5 DEF EndsAt
<1> QED BY <1>2, <1>3

(* What the tokens that route_match sees are.                              *)
Answer(lits, tok) ==
    /\ lits \in Seq(Token) /\ tok \in Token /\ tok.type \in Stop
    /\ Len(lits) < Len(found) /\ Stopped = (Len(lits) + 1)..Len(found)
    /\ Seen = Append(lits, tok) /\ Last(Seen) = tok
    /\ Flat(lits) = SubSeq(text, 1, at - 1)
    /\ lits = <<>> <=> at <= 1
    /\ IF at = 0 THEN ~(Loads(text) /\ Len(text) <= CharLimit) ELSE Read(at)
    /\ \A i \in Stopped : found[i] = tok
    /\ \A i \in DOMAIN lits : lits[i] = found[i] /\ lits[i].type = "LITERAL"
    /\ Returns(at, tok, at)

(* When a token has stopped route_match, the invariant says which it saw.  *)
LEMMA AnswerIs ==
    ASSUME LInv, Answered
    PROVE  \E lits, tok : Answer(lits, tok)
<1> DEFINE len == Len(found)
<1>1. found \in Seq(Token) /\ at \in 0..(Len(text) + 1) /\ len \in Nat /\ DOMAIN found = 1..len
  BY DEF LInv, RequestInv
<1>2. PICK m \in 0..len : RequestRead(m, found, at)
  BY DEF LInv, RequestInv
<1> HIDE DEF len
<1>3. Stopped = (m + 1)..len
  <2>1. \A i \in 1..len : found[i].type \in Stop <=> i \in (m + 1)..len
    <3>1. \A i \in 1..len : i \in 1..m \/ i \in (m + 1)..len
      BY <1>1
    <3>2. \A i \in 1..m : i \notin (m + 1)..len
      BY <1>1
    <3> QED BY <1>2, <3>1, <3>2 DEF RequestRead, Stop, len
  <2>2. \A i \in (m + 1)..len : i \in 1..len
    BY <1>1
  <2> QED BY <1>1, <2>1, <2>2 DEF Stopped
<1>4. m < len /\ m \in Nat
  <2>1. PICK i \in Stopped : TRUE
    BY DEF Answered
  <2>2. i \in (m + 1)..len
    BY <1>3, <2>1
  <2> QED BY <1>1, <2>2
<1> DEFINE lits == SubSeq(found, 1, m)
           tok == found[m + 1]
<1>5. Min(Stopped) = m + 1
  <2>0. m + 1 \in (m + 1)..len /\ \A i \in (m + 1)..len : i \in Nat /\ m + 1 <= i
    BY <1>1, <1>4
  <2>1. Stopped \subseteq Nat /\ Stopped # {} /\ m + 1 \in Stopped /\ \A i \in Stopped : m + 1 <= i
    BY <1>3, <2>0
  <2>2. Min(Stopped) \in Stopped /\ Min(Stopped) <= m + 1
    BY <2>1, MinIs
  <2>3. m + 1 <= Min(Stopped)
    BY <2>1, <2>2
  <2> QED BY <1>3, <1>4, <2>1, <2>2, <2>3
<1>6. tok \in Token /\ tok.type \in Stop /\ Returns(at, tok, at)
  <2>1. m + 1 \in 1..len /\ m + 1 \in (m + 1)..len
    BY <1>1, <1>4
  <2> QED BY <1>1, <1>2, <2>1 DEF RequestRead, len
<1>7. lits \in Seq(Token) /\ Len(lits) = m /\ DOMAIN lits = 1..m /\ \A i \in 1..m : lits[i] = found[i]
  BY <1>1, <1>4 DEF len
<1>8. Seen = Append(lits, tok)
  <2> DEFINE a == SubSeq(found, 1, m + 1)
             b == Append(lits, tok)
  <2>1. a \in Seq(Token) /\ Len(a) = m + 1 /\ \A i \in 1..(m + 1) : a[i] = found[i]
    BY <1>1, <1>4 DEF len
  <2>2. b \in Seq(Token) /\ Len(b) = m + 1 /\ b[m + 1] = tok /\ \A i \in 1..m : b[i] = lits[i]
    <3> HIDE DEF lits, tok
    <3> QED BY <1>6, <1>7
  <2> HIDE DEF a, b
  <2>3. \A i \in 1..(m + 1) : a[i] = b[i]
    <3>1. \A i \in 1..(m + 1) : i \in 1..m \/ i = m + 1
      BY <1>4
    <3> QED BY <1>7, <2>1, <2>2, <3>1
  <2>4. a = b
    BY <2>1, <2>2, <2>3
  <2> QED BY <1>5, <2>4 DEF Seen, a, b
<1> HIDE DEF lits
<1>9. Last(Seen) = tok
  <2> HIDE DEF tok
  <2>1. Len(Append(lits, tok)) = m + 1 /\ Append(lits, tok)[m + 1] = tok
    BY <1>6, <1>7
  <2> QED BY <1>8, <2>1 DEF Last
<1>10. \A i \in Stopped : found[i] = tok
  <2>1. \A i \in (m + 1)..len : Returns(at, found[i], at)
    BY <1>2 DEF RequestRead, len
  <2> QED BY <1>1, <1>3, <1>6, <2>1, ReturnsOnce DEF LInv
<1>11. /\ Flat(lits) = SubSeq(text, 1, at - 1)
       /\ IF at = 0 THEN ~(Loads(text) /\ Len(text) <= CharLimit) ELSE Read(at)
       /\ \A i \in 1..m : found[i].type = "LITERAL"
  BY <1>2 DEF RequestRead, lits
<1>12. lits = <<>> <=> at <= 1
  <2>1. lits = <<>> <=> m = 0
    BY <1>7
  <2> QED BY <1>2, <2>1 DEF RequestRead
<1>13. Answer(lits, tok)
  BY <1>3, <1>4, <1>6, <1>7, <1>8, <1>9, <1>10, <1>11, <1>12 DEF Answer, len
<1> QED BY <1>13

(* An answer, written out, is the request; ILLEGAL is for illegal ones.    *)
LEMMA RequestsOfInv ==
    ASSUME LInv
    PROVE  RequestsRoundTrip
<1> SUFFICES ASSUME Answered
             PROVE  IF Last(Seen).type = "ILLEGAL" THEN ~Legal ELSE Legal /\ Spelled(Seen) = text
  BY DEF RequestsRoundTrip
<1> DEFINE n == Len(text)
<1>1. PICK lits, tok : Answer(lits, tok)
  BY AnswerIs
<1>2. /\ n \in Nat /\ DOMAIN text = 1..n /\ at \in 0..(n + 1)
      /\ (\A i \in Nat : (Char(i) = NUL) <=> (i \notin 1..n)) /\ \A i \in 1..n : Char(i) = text[i]
  BY TextLength DEF LInv, RequestInv
<1>3. at # 0 => Read(at)
  BY <1>1 DEF Answer
<1>4. Returns(at, tok, at) /\ Last(Seen) = tok
  BY <1>1 DEF Answer
<1>5. CASE tok.type = "ILLEGAL"
  <2>1. at = 0 \/ (at \in 1..n /\ IllegalAt(at))
    BY <1>4, <1>5 DEF Returns, Tok, LiteralAt
  <2>2. CASE at = 0
    BY <1>1, <2>2, <1>4, <1>5 DEF Answer, Legal
  <2>3. CASE at \in 1..n /\ IllegalAt(at)
    <3>1. text[at] = "/"
      BY <1>2, <1>3, <2>3 DEF Read
    <3>2. CASE Char(at + 1) = "/"
      <4>1. at + 1 \in 1..n /\ text[at + 1] = "/" /\ at \in 1..(n - 1)
        <5>1. at + 1 \in 1..n
          BY <1>2, <2>3, <3>2 DEF NUL
        <5> QED BY <1>2, <2>3, <3>2, <5>1
      <4> QED BY <1>4, <1>5, <3>1, <4>1 DEF Legal
    <3>3. CASE Char(SegmentStop(at)) \in Illegals
      <4>1. NUL \notin Illegals
        BY DEF NUL, Illegals
      <4>2. Finds(SegmentStop(at), at + 1, {"/"} \cup Illegals)
        BY <1>2, <2>3, FindIs DEF LInv, SegmentStop
      <4>3. SegmentStop(at) \in 1..n
        BY <1>2, <3>3, <4>1, <4>2 DEF Finds
      <4>4. text[SegmentStop(at)] \in ToSet(text) \cap Illegals
        BY <1>2, <3>3, <4>3 DEF ToSet
      <4> QED BY <1>4, <1>5, <4>4 DEF Legal
    <3> QED BY <2>3, <3>2, <3>3 DEF IllegalAt
  <2> QED BY <2>1, <2>2, <2>3
<1>6. CASE tok.type # "ILLEGAL"
  <2>1. \/ at = n + 1 /\ tok.type = "END"
        \/ at = n /\ at = 1 /\ tok.type = "END"
        \/ at = n /\ at \in 1..n /\ at # 1 /\ tok.type = "TRAILING"
    BY <1>1, <1>4, <1>6 DEF Answer, Returns, Tok, LastCharacter, Stop
  <2>2. at # 0 /\ at \in Nat /\ n # 0 /\ Read(at) /\ Loads(text) /\ n <= CharLimit
    <3>0. n \in Nat /\ at \in 0..(n + 1)
      BY <1>2
    <3>1. at # 0 /\ at \in Nat
      BY <2>1, <3>0
    <3>2. Read(at)
      BY <1>3, <3>1
    <3> QED BY <1>2, <3>1, <3>2 DEF Read, Loads
  <2>3. at <= n => text[at] = "/"
    BY <2>2 DEF Read
  <2>9. \A a, b \in Nat : a = b + 1 \/ a = b =>
           /\ \A k \in 1..b : k \in 1..(a - 1) \/ (k = a /\ a <= b)
           /\ \A k \in 1..(b - 1) : k \in 1..(a - 1) /\ k + 1 \in 1..b /\ k + 1 \in Nat
    OBVIOUS
  <2>4. \A k \in 1..n : text[k] \notin Illegals
    <3>1. \A k \in 1..n : k \in 1..(at - 1) \/ (k = at /\ at <= n)
      BY <1>2, <2>1, <2>2, <2>9
    <3>2. "/" \notin Illegals
      BY DEF Illegals
    <3>3. \A k \in 1..(at - 1) : text[k] \notin Illegals
      BY <2>2 DEF Read
    <3> QED BY <2>3, <3>1, <3>2, <3>3, Zenon
  <2>5. \A k \in 1..(n - 1) : ~(text[k] = "/" /\ text[k + 1] = "/")
    <3>1. \A k \in 1..(n - 1) : k \in 1..(at - 1) /\ k + 1 \in 1..n
      BY <1>2, <2>1, <2>2, <2>9
    <3>2. \A k \in 1..(at - 1) : ~(text[k] = "/" /\ Char(k + 1) = "/")
      BY <2>2 DEF Read
    <3> QED BY <1>2, <3>1, <3>2
  <2>6. Legal
    BY <1>2, <2>2, <2>4, <2>5 DEF Legal, ToSet
  <2>7. EndsAt(lits, tok.type, at)
    <3>0. n \in Nat
      BY <1>2
    <3>1. lits = <<>> <=> at <= 1
      BY <1>1 DEF Answer
    <3>2. CASE at = n + 1 /\ tok.type = "END"
      <4>1. ~(at <= 1)
        BY <2>2, <3>0, <3>2
      <4> QED BY <3>1, <3>2, <4>1 DEF EndsAt
    <3>3. CASE at = n /\ at = 1 /\ tok.type = "END"
      BY <2>3, <3>0, <3>1, <3>3 DEF EndsAt
    <3>4. CASE at = n /\ at \in 1..n /\ at # 1 /\ tok.type = "TRAILING"
      <4>1. ~(at <= 1) /\ at <= n
        BY <3>0, <3>4
      <4> QED BY <2>2, <2>3, <3>1, <3>4, <4>1 DEF EndsAt
    <3> QED BY <2>1, <3>2, <3>3, <3>4
  <2>8. Spelled(Append(lits, tok)) = text
    BY <1>1, <2>2, <2>7, WholeTextSpelled DEF Answer, LInv
  <2> QED BY <1>1, <1>6, <2>6, <2>8 DEF Answer
<1> QED BY <1>4, <1>5, <1>6

(* What stops the reader is returned again.                                *)
LEMMA StopsOfInv ==
    ASSUME LInv
    PROVE  NeverAdvancesBeyondStop
<1> SUFFICES ASSUME NEW i \in Stopped, i < Len(found) PROVE found[i + 1] = found[i]
  BY DEF NeverAdvancesBeyondStop
<1>1. PICK lits, tok : Answer(lits, tok)
  BY AnswerIs DEF Answered
<1>2. Stopped = (Len(lits) + 1)..Len(found) /\ Len(lits) \in Nat /\ Len(found) \in Nat
  BY <1>1 DEF Answer, LInv, RequestInv
<1>3. i + 1 \in Stopped
  BY <1>2
<1> QED BY <1>1, <1>3 DEF Answer

(* A request's tokens (lexer_next), written out again, are the request, to *)
(* its last character; ILLEGAL is for requests with an empty segment, an   *)
(* illegal character or too many characters, and for no others.            *)
THEOREM RequestsSpelledOut == LexerSpec => []RequestsRoundTrip
<1>1. LInv => RequestsRoundTrip
  BY RequestsOfInv
<1> QED BY <1>1, LexersInvariant, PTL

(* lexer_next never advances beyond ILLEGAL, END or TRAILING, however often *)
(* it is called again.                                                     *)
THEOREM StopsAreFinal == LexerSpec => []NeverAdvancesBeyondStop
<1>1. LInv => NeverAdvancesBeyondStop
  BY StopsOfInv
<1> QED BY <1>1, LexersInvariant, PTL

-----------------------------------------------------------------------------
(* Part 3.                                                                 *)
-----------------------------------------------------------------------------
(* What prelexer_next returns at a cursor, and where it leaves the cursor. *)
StartAt(c) == IF Char(c) = "/" THEN c + 1 ELSE c
NameReturned(type, start, stop, next, tok, q) ==
    IF stop - start > CharLimit THEN tok = Tok("ILLEGAL", <<>>) /\ q = stop
    ELSE tok = Tok(type, Slice(start, stop)) /\ q = next

ParamReturned(start, tok, q) ==
    LET stop == FindOther(start, Word)
    IN  \/ Char(start) \notin Letters /\ tok = Tok("ILLEGAL", <<>>) /\ q = start
        \/ /\ Char(start) \in Letters /\ Char(stop) \in Closing
           /\ NameReturned("PARAM", start, stop, stop + 1, tok, q)
        \/ /\ Char(start) \in Letters /\ Char(stop) \notin Closing /\ Char(stop) \in {"/", NUL}
           /\ NameReturned("PARAM", start, stop, stop, tok, q)
        \/ /\ Char(start) \in Letters /\ Char(stop) \notin Closing /\ Char(stop) \notin {"/", NUL}
           /\ tok = Tok("ILLEGAL", <<>>) /\ q = stop

WildcardReturned(s, tok, q) ==
    /\ q = s + 1
    /\ \/ Char(s + 1) \in {NUL, "/"} /\ tok = Tok("WILDCARD", <<>>)
       \/ Char(s + 1) \notin {NUL, "/"} /\ tok = Tok("ILLEGAL", <<>>)

LiteralReturned(s, tok, q) ==
    LET stop == Find(s, {"/"} \cup Illegals)
    IN  \/ Char(stop) \in Illegals /\ tok = Tok("ILLEGAL", <<>>) /\ q = stop
        \/ Char(stop) \notin Illegals /\ NameReturned("LITERAL", s, stop, stop, tok, q)

PreReturns(c, tok, q) ==
    \/ Char(c) = NUL /\ tok = Tok("END", <<>>) /\ q = c
    \/ Char(c) # NUL /\ Char(StartAt(c)) = NUL /\ StartAt(c) = 2 /\ tok = Tok("END", <<>>) /\ q = StartAt(c)
    \/ Char(c) # NUL /\ Char(StartAt(c)) = NUL /\ StartAt(c) # 2
       /\ tok = Tok("TRAILING", <<>>) /\ q = StartAt(c)
    \/ Char(StartAt(c)) = "/" /\ tok = Tok("ILLEGAL", <<>>) /\ q = StartAt(c)
    \/ Char(StartAt(c)) = Opening /\ ParamReturned(StartAt(c) + 1, tok, q)
    \/ Char(StartAt(c)) = "*" /\ WildcardReturned(StartAt(c), tok, q)
    \/ Char(StartAt(c)) \notin {NUL, "/", "*", Opening} /\ LiteralReturned(StartAt(c), tok, q)

Emitted(tok, q) == tokens' = Append(tokens, tok) /\ cursor' = q

(* Each action of prelexer_next is one case of PreReturns.                 *)
LEMMA PrelexerReturns ==
    ASSUME PreNext, cursor # 0
    PROVE  \E tok, q : PreReturns(cursor, tok, q) /\ Emitted(tok, q)
<1>1. Start = StartAt(cursor)
  BY DEF Start, StartAt
<1>2. \A type, name, next : Emit(type, name, next) => Emitted(Tok(type, name), next)
  BY DEF Emit, Emitted, Tok
<1>3. \A type, start, stop, next : EmitName(type, start, stop, next) =>
         \E tok, q : NameReturned(type, start, stop, next, tok, q) /\ Emitted(tok, q)
  BY <1>2, Zenon DEF EmitName, NameReturned
<1>4. ~NotLoaded
  BY DEF NotLoaded
<1>5. CASE EndOfPattern
  BY <1>2, <1>5 DEF EndOfPattern, PreReturns
<1>6. CASE LastSlash
  <2>1. Char(cursor) # NUL /\ Char(StartAt(cursor)) = NUL
        /\ Emit(IF StartAt(cursor) = 2 THEN "END" ELSE "TRAILING", <<>>, StartAt(cursor))
    BY <1>1, <1>6, Zenon DEF LastSlash
  <2>2. CASE StartAt(cursor) = 2
    <3>1. Emitted(Tok("END", <<>>), StartAt(cursor))
      BY <1>2, <2>1, <2>2, Zenon
    <3> QED BY <2>1, <2>2, <3>1 DEF PreReturns
  <2>3. CASE StartAt(cursor) # 2
    <3>1. Emitted(Tok("TRAILING", <<>>), StartAt(cursor))
      BY <1>2, <2>1, <2>3, Zenon
    <3> QED BY <2>1, <2>3, <3>1 DEF PreReturns
  <2> QED BY <2>2, <2>3
<1>7. CASE DoubleSlash
  BY <1>1, <1>2, <1>7 DEF DoubleSlash, PreReturns
<1>8. CASE ParamToken
  <2> DEFINE start == Start + 1
             stop == FindOther(start, Word)
  <2>1. Char(StartAt(cursor)) = Opening
    BY <1>1, <1>8 DEF ParamToken
  <2>2. \E tok, q : ParamReturned(start, tok, q) /\ Emitted(tok, q)
    <3>1. IF Char(start) \notin Letters THEN Emit("ILLEGAL", <<>>, start)
          ELSE IF Char(stop) \in Closing THEN EmitName("PARAM", start, stop, stop + 1)
          ELSE IF Char(stop) \in {"/", NUL} THEN EmitName("PARAM", start, stop, stop)
          ELSE Emit("ILLEGAL", <<>>, stop)
      BY <1>8, Zenon DEF ParamToken
    <3> HIDE DEF start
    <3> QED BY <1>2, <1>3, <3>1 DEF ParamReturned
  <2> QED BY <1>1, <2>1, <2>2 DEF PreReturns
<1>9. CASE WildcardToken
  <2>1. Char(StartAt(cursor)) = "*"
    BY <1>1, <1>9 DEF WildcardToken
  <2>2. \E tok, q : WildcardReturned(StartAt(cursor), tok, q) /\ Emitted(tok, q)
    <3>1. Emit(IF Char(StartAt(cursor) + 1) \in {NUL, "/"} THEN "WILDCARD" ELSE "ILLEGAL", <<>>,
               StartAt(cursor) + 1)
      BY <1>1, <1>9, Zenon DEF WildcardToken
    <3>2. CASE Char(StartAt(cursor) + 1) \in {NUL, "/"}
      <4>1. Emitted(Tok("WILDCARD", <<>>), StartAt(cursor) + 1)
        BY <1>2, <3>1, <3>2, Zenon
      <4> QED BY <3>2, <4>1 DEF WildcardReturned
    <3>3. CASE Char(StartAt(cursor) + 1) \notin {NUL, "/"}
      <4>1. Emitted(Tok("ILLEGAL", <<>>), StartAt(cursor) + 1)
        BY <1>2, <3>1, <3>3, Zenon
      <4> QED BY <3>3, <4>1 DEF WildcardReturned
    <3> QED BY <3>2, <3>3
  <2> QED BY <2>1, <2>2 DEF PreReturns
<1>10. CASE LiteralToken
  <2> DEFINE stop == Find(Start, {"/"} \cup Illegals)
  <2>1. Char(StartAt(cursor)) \notin {NUL, "/", "*", Opening}
    BY <1>1, <1>10 DEF LiteralToken
  <2>2. \E tok, q : LiteralReturned(Start, tok, q) /\ Emitted(tok, q)
    <3>1. IF Char(stop) \in Illegals THEN Emit("ILLEGAL", <<>>, stop)
          ELSE EmitName("LITERAL", Start, stop, stop)
      BY <1>10, Zenon DEF LiteralToken
    <3> QED BY <1>2, <1>3, <3>1 DEF LiteralReturned
  <2> QED BY <1>1, <2>1, <2>2 DEF PreReturns
<1> QED BY <1>4, <1>5, <1>6, <1>7, <1>8, <1>9, <1>10 DEF PreNext

(* A length within the limit is not changed by its narrowing to 16 bits.   *)
LEMMA SliceIs ==
    ASSUME TextOK, NEW start \in Nat, NEW stop \in Nat, 1 <= start, start <= stop,
           stop <= Len(text) + 1, stop - start <= CharLimit
    PROVE  /\ Slice(start, stop) = SubSeq(text, start, stop - 1)
           /\ Slice(start, stop) \in Seq(ToSet(text)) /\ Len(Slice(start, stop)) = stop - start
           /\ \A i \in 1..(stop - start) : Slice(start, stop)[i] = text[start + i - 1]
<1>1. CharLimit \in Nat /\ MaxLength \in Nat /\ CharLimit <= MaxLength
  BY LexerAssumption
<1>2. stop - start \in 0..MaxLength
  BY <1>1
<1>3. (stop - start) % (MaxLength + 1) = stop - start
  BY <1>1, <1>2
<1>4. start + (stop - start) - 1 = stop - 1
  OBVIOUS
<1>5. Slice(start, stop) = SubSeq(text, start, stop - 1)
  BY <1>3, <1>4, Zenon DEF Slice
<1> DEFINE x == SubSeq(text, start, stop - 1)
<1>6. /\ x \in Seq(ToSet(text)) /\ Len(x) = stop - start
      /\ \A i \in 1..(stop - start) : x[i] = text[start + i - 1]
  <2>1. text \in Seq(ToSet(text)) /\ Len(text) \in Nat
    BY TextLength DEF TextOK
  <2> QED BY <2>1
<1> QED BY <1>5, <1>6

(* Two searches for the same stop at the same.                             *)
LEMMA FindsOnce ==
    ASSUME NEW j, NEW k, NEW i, NEW set, Finds(j, i, set), Finds(k, i, set), Len(text) \in Nat, i \in Nat
    PROVE  j = k
BY DEF Finds

Kinds == {"LITERAL", "PARAM", "WILDCARD"}

(* A token without a name.                                                 *)
LEMMA PlainToken ==
    ASSUME NEW type \in Stop \cup Kinds
    PROVE  Tok(type, <<>>) \in Token /\ Tok(type, <<>>).type = type
<1>1. <<>> \in Seq(ToSet(text))
  OBVIOUS
<1> QED BY <1>1 DEF Tok, Token, Kinds

(* A name is returned as it stands in the text, or refused for its length. *)
LEMMA NameReturns ==
    ASSUME TextOK, NEW type \in {"LITERAL", "PARAM"}, NEW start \in Nat, NEW stop \in Nat, 1 <= start,
           start <= stop, stop <= Len(text) + 1, NEW next, NEW tok, NEW q,
           NameReturned(type, start, stop, next, tok, q)
    PROVE  /\ tok \in Token
           /\ \/ stop - start > CharLimit /\ tok.type = "ILLEGAL" /\ q = stop
              \/ /\ stop - start <= CharLimit /\ tok.type = type /\ tok.name = SubSeq(text, start, stop - 1)
                 /\ q = next
<1>1. CharLimit \in Nat
  BY LexerAssumption
<1>2. CASE stop - start > CharLimit
  <2>1. tok = Tok("ILLEGAL", <<>>) /\ q = stop
    BY <1>2 DEF NameReturned
  <2>2. "ILLEGAL" \in Stop \cup Kinds
    BY DEF Stop
  <2> QED BY <1>2, <2>1, <2>2, PlainToken
<1>3. CASE stop - start <= CharLimit
  <2>1. ~(stop - start > CharLimit)
    BY <1>1, <1>3
  <2>2. tok = Tok(type, Slice(start, stop)) /\ q = next
    BY <2>1 DEF NameReturned
  <2>3. Slice(start, stop) = SubSeq(text, start, stop - 1) /\ Slice(start, stop) \in Seq(ToSet(text))
    BY <1>3, SliceIs
  <2>4. tok.type = type /\ tok.name = Slice(start, stop)
    BY <2>2 DEF Tok
  <2>5. tok \in Token
    BY <2>2, <2>3 DEF Tok, Token
  <2> QED BY <1>3, <2>2, <2>3, <2>4, <2>5
<1> QED BY <1>1, <1>2, <1>3

(* What is neither part of a name nor illegal: the slash and the NUL.      *)
LEMMA WordHasNoNul ==
    /\ {NUL, "/"} \cap (Word \cup Illegals) = {}
    /\ Letters \subseteq Word
BY DEF NUL, Word, Letters, Illegals

(* What prelexer_next returns is a token, and the cursor stays in the text. *)
LEMMA PreReturnsType ==
    ASSUME TextOK, SyntaxOK, NEW c \in 1..(Len(text) + 1), NEW tok, NEW q, PreReturns(c, tok, q)
    PROVE  tok \in Token /\ q \in 1..(Len(text) + 1)
<1> DEFINE n == Len(text)
           s == StartAt(c)
           Good == tok \in Token /\ q \in 1..(n + 1)
<1>1. n \in Nat /\ (\A i \in Nat : (Char(i) = NUL) <=> (i \notin 1..n))
  BY TextLength
<1>2. c \in Nat /\ s \in 1..(n + 1) /\ s \in Nat /\ (Char(s) # NUL => s \in 1..n)
  <2>1. Char(c) = "/" => c \in 1..n
    BY <1>1 DEF NUL
  <2> QED BY <1>1, <2>1 DEF StartAt
<1>3. /\ Tok("ILLEGAL", <<>>) \in Token /\ Tok("END", <<>>) \in Token /\ Tok("TRAILING", <<>>) \in Token
      /\ Tok("WILDCARD", <<>>) \in Token
  BY PlainToken DEF Stop, Kinds
<1> HIDE DEF s
<1>4. CASE Char(s) = Opening /\ ParamReturned(s + 1, tok, q)
  <2> DEFINE start == s + 1
             stop == FindOther(start, Word)
  <2>1. Char(s) # NUL
    BY <1>4 DEF Opening, SyntaxOK, NUL
  <2>2. start \in 1..(n + 1) /\ start \in Nat /\ 1 <= start
    BY <1>1, <1>2, <2>1
  <2>3. Finds(stop, start, (ToSet(text) \cup {NUL}) \ Word)
    BY <2>2, FindOtherIs, WordHasNoNul
  <2> HIDE DEF start, stop
  <2>4. stop \in Nat /\ start <= stop /\ stop <= n + 1
    BY <2>3 DEF Finds
  <2>5. Char(stop) \in Closing => stop \in 1..n
    <3>1. NUL \notin Closing
      BY DEF Closing, NUL, SyntaxOK
    <3> QED BY <1>1, <2>4, <3>1
  <2>6. stop \in 1..(n + 1) /\ (stop \in 1..n => stop + 1 \in 1..(n + 1))
    BY <1>1, <2>2, <2>4
  <2>7. \A next : NameReturned("PARAM", start, stop, next, tok, q) => tok \in Token /\ (q = stop \/ q = next)
    BY <2>2, <2>4, NameReturns
  <2>8. \/ tok = Tok("ILLEGAL", <<>>) /\ (q = start \/ q = stop)
        \/ Char(stop) \in Closing /\ NameReturned("PARAM", start, stop, stop + 1, tok, q)
        \/ NameReturned("PARAM", start, stop, stop, tok, q)
    BY <1>4, Zenon DEF ParamReturned, start, stop
  <2> QED BY <1>3, <2>2, <2>5, <2>6, <2>7, <2>8
<1>5. CASE Char(s) = "*" /\ WildcardReturned(s, tok, q)
  <2>1. s \in 1..n
    BY <1>2, <1>5 DEF NUL
  <2> QED BY <1>1, <1>3, <1>5, <2>1 DEF WildcardReturned
<1>6. CASE Char(s) \notin {NUL, "/", "*", Opening} /\ LiteralReturned(s, tok, q)
  <2> DEFINE stop == Find(s, {"/"} \cup Illegals)
  <2>1. Finds(stop, s, {"/"} \cup Illegals)
    BY <1>2, FindIs
  <2> HIDE DEF stop
  <2>2. stop \in Nat /\ s <= stop /\ stop <= n + 1 /\ 1 <= s /\ stop \in 1..(n + 1)
    BY <1>1, <1>2, <2>1 DEF Finds
  <2>3. NameReturned("LITERAL", s, stop, stop, tok, q) => tok \in Token /\ q = stop
    BY <1>2, <2>2, NameReturns
  <2>4. \/ tok = Tok("ILLEGAL", <<>>) /\ q = stop
        \/ NameReturned("LITERAL", s, stop, stop, tok, q)
    BY <1>6, Zenon DEF LiteralReturned, stop
  <2> QED BY <1>3, <2>2, <2>3, <2>4
<1> QED BY <1>2, <1>3, <1>4, <1>5, <1>6 DEF PreReturns, s

-----------------------------------------------------------------------------
(* A segment of a pattern, from the slash before it to the next.           *)
Boundary(c) == c \in 1..(Len(text) + 1) /\ (c <= Len(text) => text[c] = "/")
NextSlash(c) == Find(c + 1, {"/"})
Segment(c) == SubSeq(text, c + 1, NextSlash(c) - 1)
SegmentLegal(c) == IF Segment(c) = <<>> THEN c = Len(text) ELSE ProperSegment(Segment(c))

(* A segment ends at the next slash.                                       *)
LEMMA SegmentIs ==
    ASSUME TextOK, NEW c \in 1..Len(text)
    PROVE  /\ c \in Nat /\ NextSlash(c) \in Nat /\ c + 1 <= NextSlash(c) /\ NextSlash(c) <= Len(text) + 1
           /\ Finds(NextSlash(c), c + 1, {"/"})
           /\ Segment(c) \in Seq(ToSet(text)) /\ Len(Segment(c)) = NextSlash(c) - (c + 1)
           /\ \A i \in 1..(NextSlash(c) - (c + 1)) : Segment(c)[i] = text[c + i]
<1>1. Len(text) \in Nat /\ text \in Seq(ToSet(text)) /\ c \in Nat /\ c + 1 \in 1..(Len(text) + 1)
  BY TextLength DEF TextOK
<1>2. Finds(NextSlash(c), c + 1, {"/"})
  BY <1>1, FindIs DEF NextSlash
<1> DEFINE f == NextSlash(c)
<1> HIDE DEF f
<1>3. f \in Nat /\ c + 1 <= f /\ f <= Len(text) + 1
  BY <1>2 DEF Finds, f
<1>4. /\ SubSeq(text, c + 1, f - 1) \in Seq(ToSet(text)) /\ Len(SubSeq(text, c + 1, f - 1)) = f - (c + 1)
      /\ \A i \in 1..(f - (c + 1)) : SubSeq(text, c + 1, f - 1)[i] = text[(c + 1) + i - 1]
  BY <1>1, <1>3, PartIs
<1>5. \A i \in 1..(f - (c + 1)) : (c + 1) + i - 1 = c + i
  BY <1>1, <1>3
<1> QED BY <1>1, <1>2, <1>3, <1>4, <1>5 DEF Segment, f

(* A segment starts behind its slash.                                      *)
LEMMA AtSlash ==
    ASSUME TextOK, NEW c, Boundary(c), c <= Len(text)
    PROVE  c \in 1..Len(text) /\ c \in Nat /\ text[c] = "/" /\ Char(c) = "/" /\ StartAt(c) = c + 1
BY TextLength DEF Boundary, StartAt

(* A literal, read from a slash.                                           *)
LEMMA LiteralSegmentReads ==
    ASSUME TextOK, NEW c \in 1..Len(text), text[c] = "/", Char(c + 1) \notin {NUL, "/", "*"},
           NEW tok, NEW q, LiteralReturned(c + 1, tok, q)
    PROVE  /\ tok \in Token
           /\ \/ /\ tok.type = "ILLEGAL"
                 /\ \/ ToSet(Segment(c)) \cap Illegals # {}
                    \/ Len(Segment(c)) > CharLimit
              \/ /\ tok.type = "LITERAL" /\ tok.name = SubSeq(text, c + 1, q - 1) /\ q = NextSlash(c)
                 /\ q = Find(c + 1, {"/"} \cup Illegals)
                 /\ Segment(c) = SubSeq(text, c + 1, q - 1)
                 /\ ToSet(Segment(c)) \cap Illegals = {} /\ Len(Segment(c)) <= CharLimit
<1> DEFINE n == Len(text)
           e == Find(c + 1, {"/"} \cup Illegals)
           f == NextSlash(c)
<1>1. n \in Nat /\ (\A i \in 1..n : Char(i) = text[i]) /\ c \in Nat /\ c + 1 \in 1..(n + 1) /\ c + 1 \in Nat
  BY TextLength
<1>2. Finds(e, c + 1, {"/"} \cup Illegals)
  BY <1>1, FindIs
<1> HIDE DEF e
<1>3. e \in Nat /\ c + 1 <= e /\ e <= n + 1
  BY <1>2 DEF Finds
<1>4. /\ f \in Nat /\ c + 1 <= f /\ f <= n + 1 /\ Finds(f, c + 1, {"/"})
      /\ Segment(c) \in Seq(ToSet(text)) /\ Len(Segment(c)) = f - (c + 1)
      /\ \A i \in 1..(f - (c + 1)) : Segment(c)[i] = text[c + i]
  BY SegmentIs
<1> HIDE DEF f
<1>5. CASE Char(e) \in Illegals
  <2>1. tok = Tok("ILLEGAL", <<>>)
    BY <1>5 DEF LiteralReturned, NameReturned, e
  <2>2. e \in 1..n /\ text[e] \in Illegals
    <3>1. e \in 1..n
      BY <1>1, <1>3, <1>5, TextLength, WordHasNoNul
    <3> QED BY <1>1, <1>5, <3>1
  <2>3. e < f
    <3>1. e # f
      BY <1>1, <1>3, <1>4, <2>2, WordHasNoNul DEF Finds
    <3>2. ~(f < e)
      <4> SUFFICES ASSUME f < e PROVE FALSE
        OBVIOUS
      <4>1. f <= n
        BY <1>1, <1>3, <1>4
      <4>2. text[f] = "/" /\ text[f] \notin {"/"} \cup Illegals
        BY <1>2, <1>4, <4>1 DEF Finds
      <4> QED BY <4>2
    <3> QED BY <1>3, <1>4, <3>1, <3>2
  <2>4. e - c \in 1..(f - (c + 1)) /\ c + (e - c) = e
    BY <1>1, <1>3, <1>4, <2>3
  <2>5. Segment(c)[e - c] \in Illegals /\ e - c \in DOMAIN Segment(c)
    BY <1>4, <2>2, <2>4
  <2>6. ToSet(Segment(c)) \cap Illegals # {}
    BY <2>5 DEF ToSet
  <2>7. tok \in Token /\ tok.type = "ILLEGAL"
    BY <2>1, PlainToken DEF Stop
  <2> QED BY <2>6, <2>7
<1>6. CASE Char(e) \notin Illegals
  <2>1. NameReturned("LITERAL", c + 1, e, e, tok, q)
    BY <1>6, Zenon DEF LiteralReturned, e
  <2>2. /\ tok \in Token
        /\ \/ e - (c + 1) > CharLimit /\ tok.type = "ILLEGAL" /\ q = e
           \/ /\ e - (c + 1) <= CharLimit /\ tok.type = "LITERAL" /\ q = e
              /\ tok.name = SubSeq(text, c + 1, e - 1)
    BY <1>1, <1>3, <2>1, NameReturns
  <2>3. e <= n => text[e] = "/"
    <3>1. e <= n => e \in 1..n
      BY <1>1, <1>3
    <3> QED BY <1>1, <1>2, <1>6, <3>1 DEF Finds
  <2>4. Finds(e, c + 1, {"/"})
    BY <1>2, <2>3 DEF Finds
  <2>5. e = f
    BY <1>1, <1>4, <2>4, FindsOnce
  <2>6. ToSet(Segment(c)) \cap Illegals = {}
    <3>1. ASSUME NEW i \in 1..(f - (c + 1)) PROVE Segment(c)[i] \notin Illegals
      <4>1. c + i \in Nat /\ c + 1 <= c + i /\ c + i < e
        BY <1>1, <1>3, <2>5
      <4>2. text[c + i] \notin {"/"} \cup Illegals
        BY <1>2, <4>1 DEF Finds
      <4> QED BY <1>4, <4>2
    <3>2. DOMAIN Segment(c) = 1..(f - (c + 1))
      BY <1>4
    <3> QED BY <3>1, <3>2 DEF ToSet
  <2>7. Segment(c) = SubSeq(text, c + 1, e - 1)
    BY <2>5, Zenon DEF Segment, f
  <2> QED BY <1>4, <2>2, <2>5, <2>6, <2>7 DEF e, f
<1> QED BY <1>5, <1>6

(* A parameter, in the colon syntax.                                       *)
LEMMA ParamSegmentReads ==
    ASSUME TextOK, syntax = COLON, NEW c \in 1..Len(text), text[c] = "/", Char(c + 1) = ":",
           NEW tok, NEW q, ParamReturned(c + 2, tok, q)
    PROVE  /\ tok \in Token /\ c + 2 <= NextSlash(c)
           /\ Tail(Segment(c)) \in Seq(ToSet(text)) /\ Segment(c) # <<>> /\ Segment(c)[1] = ":"
           /\ \/ /\ tok.type = "ILLEGAL"
                 /\ ~(ProperName(Tail(Segment(c))) /\ Len(Tail(Segment(c))) <= CharLimit)
              \/ /\ tok.type = "PARAM" /\ tok.name = SubSeq(text, c + 2, q - 1) /\ q = NextSlash(c)
                 /\ ProperName(Tail(Segment(c))) /\ Len(Tail(Segment(c))) <= CharLimit
<1> DEFINE n == Len(text)
           start == c + 2
           e == FindOther(start, Word)
           f == NextSlash(c)
           t == Tail(Segment(c))
<1>1. n \in Nat /\ (\A i \in 1..n : Char(i) = text[i]) /\ c \in Nat /\ c + 1 \in Nat
      /\ (\A i \in Nat : (Char(i) = NUL) <=> (i \notin 1..n))
  BY TextLength
<1>2. c + 1 \in 1..n /\ text[c + 1] = ":"
  <2>1. c + 1 \in 1..n
    BY <1>1 DEF NUL
  <2> QED BY <1>1, <2>1
<1>3. start \in 1..(n + 1) /\ start \in Nat
  BY <1>1, <1>2
<1>4. /\ f \in Nat /\ c + 1 <= f /\ f <= n + 1 /\ Finds(f, c + 1, {"/"})
      /\ Segment(c) \in Seq(ToSet(text)) /\ Len(Segment(c)) = f - (c + 1)
      /\ \A i \in 1..(f - (c + 1)) : Segment(c)[i] = text[c + i]
  BY SegmentIs
<1>5. Finds(e, start, (ToSet(text) \cup {NUL}) \ Word)
  BY <1>3, FindOtherIs, WordHasNoNul
<1> HIDE DEF e, f
<1>6. f # c + 1
  BY <1>1, <1>2, <1>4 DEF Finds
<1>7. start <= f
  BY <1>1, <1>4, <1>6
<1>8. Len(Segment(c)) >= 1 /\ Segment(c)[1] = ":" /\ Segment(c) # <<>>
  <2>1. 1 \in 1..(f - (c + 1)) /\ f - (c + 1) >= 1
    BY <1>1, <1>4, <1>7
  <2>2. Segment(c)[1] = text[c + 1]
    BY <1>4, <2>1
  <2> QED BY <1>2, <1>4, <2>1, <2>2
<1>9. /\ t \in Seq(ToSet(text)) /\ Len(t) = f - start
      /\ \A i \in 1..(f - start) : t[i] = text[(c + 1) + i]
  <2> DEFINE g == Segment(c)
  <2>1. g \in Seq(ToSet(text)) /\ Len(g) = f - (c + 1) /\ g # <<>>
    BY <1>4, <1>8
  <2> HIDE DEF g
  <2>2. /\ Tail(g) \in Seq(ToSet(text)) /\ Len(Tail(g)) = Len(g) - 1
        /\ \A i \in 1..(Len(g) - 1) : Tail(g)[i] = g[i + 1]
    BY <2>1
  <2>3. Len(g) - 1 = f - start
    BY <1>1, <1>4, <2>1
  <2>4. \A i \in 1..(f - start) : i + 1 \in 1..(f - (c + 1)) /\ c + (i + 1) = (c + 1) + i
    BY <1>1, <1>4
  <2>5. \A i \in 1..(f - (c + 1)) : g[i] = text[c + i]
    BY <1>4 DEF g
  <2> QED BY <2>2, <2>3, <2>4, <2>5 DEF g
<1> HIDE DEF t
<1>10. e \in Nat /\ start <= e /\ e <= f
  <2>1. e \in Nat /\ start <= e /\ e <= n + 1
    BY <1>5 DEF Finds
  <2>2. ~(f < e)
    <3> SUFFICES ASSUME f < e PROVE FALSE
      OBVIOUS
    <3>1. f \in 1..n
      BY <1>1, <1>3, <1>4, <1>7, <2>1
    <3>2. text[f] = "/" /\ text[f] \in ToSet(text)
      BY <1>1, <1>4, <3>1 DEF Finds, ToSet, TextOK
    <3>3. text[f] \notin (ToSet(text) \cup {NUL}) \ Word
      BY <1>4, <1>5, <1>7 DEF Finds
    <3> QED BY <3>2, <3>3, WordHasNoNul
  <2> QED BY <1>4, <2>1, <2>2
<1>11. ASSUME NEW k \in Nat, start <= k, k < e
       PROVE  k \in 1..n /\ text[k] \in Word
  <2>1. k \in 1..n
    BY <1>1, <1>3, <1>4, <1>10, <1>11
  <2>2. text[k] \in ToSet(text)
    BY <1>1, <2>1 DEF ToSet, TextOK
  <2>3. text[k] \notin (ToSet(text) \cup {NUL}) \ Word
    BY <1>5, <1>11 DEF Finds
  <2> QED BY <2>1, <2>2, <2>3
<1>12. Char(e) \in {"/", NUL} => e = f
  <2> SUFFICES ASSUME Char(e) \in {"/", NUL}, e # f PROVE FALSE
    OBVIOUS
  <2>1. e < f /\ e \in 1..n /\ c + 1 <= e
    BY <1>1, <1>3, <1>4, <1>10
  <2>2. text[e] # "/"
    BY <1>4, <1>10, <2>1 DEF Finds
  <2> QED BY <1>1, <1>10, <2>1, <2>2
<1>13. Char(e) \notin {"/", NUL} => e < f /\ e \in 1..n /\ text[e] \notin Word
  <2> SUFFICES ASSUME Char(e) \notin {"/", NUL} PROVE e < f /\ e \in 1..n /\ text[e] \notin Word
    OBVIOUS
  <2>1. e \in 1..n
    BY <1>1, <1>10
  <2>2. e # f
    BY <1>1, <1>4, <2>1 DEF Finds
  <2>3. e < f
    BY <1>4, <1>10, <2>2
  <2>4. text[e] \notin Word
    BY <1>1, <1>5, <2>1 DEF Finds
  <2> QED BY <2>1, <2>3, <2>4
<1>14. ProperName(t) => Char(start) \in Letters
  <2> SUFFICES ASSUME ProperName(t) PROVE Char(start) \in Letters
    OBVIOUS
  <2>1. t # <<>> /\ Head(t) \in Letters
    BY DEF ProperName
  <2>2. 1 \in 1..(f - start) /\ start \in 1..n
    BY <1>1, <1>3, <1>4, <1>7, <1>9, <2>1
  <2>3. Head(t) = t[1] /\ t[1] = text[(c + 1) + 1] /\ (c + 1) + 1 = start
    BY <1>1, <1>9, <2>1, <2>2
  <2> QED BY <1>1, <2>1, <2>2, <2>3
<1>15. Closing = {}
  BY DEF Closing, COLON, BRACE, ANGLE
<1>16. Tok("ILLEGAL", <<>>) \in Token /\ Tok("ILLEGAL", <<>>).type = "ILLEGAL"
  BY PlainToken DEF Stop
<1>17. CASE Char(start) \notin Letters /\ tok = Tok("ILLEGAL", <<>>)
  BY <1>7, <1>8, <1>9, <1>14, <1>16, <1>17 DEF t, f
<1>18. CASE Char(e) \notin {"/", NUL} /\ tok = Tok("ILLEGAL", <<>>)
  <2>1. e < f /\ e \in 1..n /\ text[e] \notin Word
    BY <1>13, <1>18
  <2>2. e - (c + 1) \in 1..(f - start) /\ (c + 1) + (e - (c + 1)) = e
    BY <1>1, <1>4, <1>10, <2>1
  <2>3. e - (c + 1) \in DOMAIN t /\ t[e - (c + 1)] \notin Word
    BY <1>9, <2>1, <2>2
  <2>4. ~ProperName(t)
    BY <2>3 DEF ProperName, ToSet
  <2> QED BY <1>7, <1>8, <1>9, <1>16, <1>18, <2>4 DEF t, f
<1>19. CASE Char(start) \in Letters /\ Char(e) \in {"/", NUL} /\ NameReturned("PARAM", start, e, e, tok, q)
  <2>1. e = f
    BY <1>12, <1>19
  <2>2. /\ tok \in Token
        /\ \/ e - start > CharLimit /\ tok.type = "ILLEGAL" /\ q = e
           \/ e - start <= CharLimit /\ tok.type = "PARAM" /\ tok.name = SubSeq(text, start, e - 1) /\ q = e
    <3>1. 1 <= start /\ e <= n + 1
      BY <1>1, <1>3, <1>4, <1>10
    <3> QED BY <1>3, <1>10, <1>19, <3>1, NameReturns
  <2>3. start # e
    BY <1>19, WordHasNoNul
  <2>4. /\ 1 \in 1..(f - start) /\ t # <<>> /\ Head(t) = t[1] /\ t[1] = text[(c + 1) + 1]
        /\ (c + 1) + 1 = start /\ start \in 1..n
    <3>1. 1 \in 1..(f - start) /\ start \in 1..n /\ (c + 1) + 1 = start
      BY <1>1, <1>3, <1>4, <1>10, <2>1, <2>3
    <3>2. t # <<>>
      BY <1>9, <3>1
    <3> QED BY <1>9, <3>1, <3>2
  <2>5. ASSUME NEW i \in 1..(f - start) PROVE t[i] \in Word
    <3>1. (c + 1) + i \in Nat /\ start <= (c + 1) + i /\ (c + 1) + i < e
      BY <1>1, <1>4, <2>1
    <3> QED BY <1>9, <1>11, <3>1
  <2>6. ProperName(t)
    <3>1. Head(t) \in Letters
      BY <1>1, <1>19, <2>4
    <3>2. ToSet(t) \subseteq Word
      BY <1>9, <2>5 DEF ToSet
    <3> QED BY <2>4, <3>1, <3>2 DEF ProperName
  <2>7. Len(t) = e - start /\ Len(t) \in Nat /\ CharLimit \in Nat
    BY <1>9, <2>1, LexerAssumption
  <2> QED BY <1>7, <1>8, <1>9, <2>1, <2>2, <2>6, <2>7 DEF t, f
<1> QED
  <2>1. \/ Char(start) \notin Letters /\ tok = Tok("ILLEGAL", <<>>)
        \/ Char(e) \notin {"/", NUL} /\ tok = Tok("ILLEGAL", <<>>)
        \/ Char(start) \in Letters /\ Char(e) \in {"/", NUL} /\ NameReturned("PARAM", start, e, e, tok, q)
        \/ Char(e) \in Closing
    BY Zenon DEF ParamReturned, e
  <2> QED BY <1>15, <1>17, <1>18, <1>19, <2>1

(* What the prelexer does at a slash, or at the end.                       *)
LEMMA PrelexerCases ==
    ASSUME TextOK, SyntaxOK, NEW c, Boundary(c), NEW tok, NEW q, PreReturns(c, tok, q)
    PROVE  \/ c = Len(text) + 1 /\ tok = Tok("END", <<>>)
           \/ c = Len(text) /\ c \in 1..Len(text) /\ c = 1 /\ tok = Tok("END", <<>>)
           \/ c = Len(text) /\ c \in 1..Len(text) /\ c # 1 /\ tok = Tok("TRAILING", <<>>)
           \/ c \in 1..(Len(text) - 1) /\ Char(c + 1) = "/" /\ tok = Tok("ILLEGAL", <<>>)
           \/ c \in 1..(Len(text) - 1) /\ Char(c + 1) = Opening /\ ParamReturned(c + 2, tok, q)
           \/ c \in 1..(Len(text) - 1) /\ Char(c + 1) = "*" /\ WildcardReturned(c + 1, tok, q)
           \/ /\ c \in 1..(Len(text) - 1) /\ Char(c + 1) \notin {NUL, "/", "*", Opening}
              /\ LiteralReturned(c + 1, tok, q)
<1> DEFINE n == Len(text)
<1>1. n \in Nat /\ (\A i \in Nat : (Char(i) = NUL) <=> (i \notin 1..n)) /\ c \in Nat /\ c \in 1..(n + 1)
  BY TextLength DEF Boundary
<1>2. NUL \notin {"/", "*", Opening}
  BY DEF NUL, Opening, SyntaxOK
<1>3. CASE c = n + 1
  <2>1. Char(c) = NUL
    BY <1>1, <1>3
  <2>2. StartAt(c) = c
    BY <1>2, <2>1 DEF StartAt
  <2> QED BY <1>2, <1>3, <2>1, <2>2, Zenon DEF PreReturns
<1>4. CASE c \in 1..n
  <2>1. StartAt(c) = c + 1 /\ Char(c) # NUL
    <3>1. c <= Len(text)
      BY <1>1, <1>4
    <3> QED BY <1>1, <1>4, <3>1, AtSlash
  <2>2. /\ Char(c + 1) = NUL => c = n
        /\ Char(c + 1) # NUL => c \in 1..(n - 1)
    BY <1>1, <1>4
  <2>3. (c + 1 = 2 <=> c = 1) /\ (c + 1) + 1 = c + 2
    BY <1>1
  <2>4. \/ Char(c + 1) = NUL /\ c + 1 = 2 /\ tok = Tok("END", <<>>)
        \/ Char(c + 1) = NUL /\ c + 1 # 2 /\ tok = Tok("TRAILING", <<>>)
        \/ Char(c + 1) = "/" /\ tok = Tok("ILLEGAL", <<>>)
        \/ Char(c + 1) = Opening /\ ParamReturned((c + 1) + 1, tok, q)
        \/ Char(c + 1) = "*" /\ WildcardReturned(c + 1, tok, q)
        \/ Char(c + 1) \notin {NUL, "/", "*", Opening} /\ LiteralReturned(c + 1, tok, q)
    BY <2>1 DEF PreReturns
  <2> QED BY <1>2, <1>4, <2>2, <2>3, <2>4
<1> QED BY <1>1, <1>3, <1>4

KindRead(c, tok, q) ==
    /\ c \in 1..Len(text) /\ q \in Nat /\ c + 2 <= q /\ Boundary(q) /\ q = NextSlash(c)
    /\ Spelling(tok) = SubSeq(text, c, q - 1)

(* A literal is written as its segment, which is legal in the colon syntax. *)
LEMMA LiteralRead ==
    ASSUME TextOK, SyntaxOK, NEW c \in 1..(Len(text) - 1), Boundary(c),
           Char(c + 1) \notin {NUL, "/", "*", Opening},
           NEW tok, NEW q, LiteralReturned(c + 1, tok, q)
    PROVE  /\ tok.type = "LITERAL" => KindRead(c, tok, q)
           /\ (tok.type = "LITERAL" /\ syntax = COLON) => SegmentLegal(c)
           /\ tok.type # "LITERAL" => tok.type = "ILLEGAL" /\ (syntax = COLON => ~SegmentLegal(c))
<1> DEFINE n == Len(text)
           f == NextSlash(c)
           g == Segment(c)
<1>1. /\ n \in Nat /\ text \in Seq(ToSet(text)) /\ c \in Nat /\ c \in 1..n /\ c + 1 \in 1..n
      /\ Char(c + 1) = text[c + 1]
  BY TextLength DEF TextOK
<1>2. text[c] = "/"
  BY <1>1 DEF Boundary
<1>3. /\ f \in Nat /\ c + 1 <= f /\ f <= n + 1 /\ Finds(f, c + 1, {"/"})
      /\ g \in Seq(ToSet(text)) /\ Len(g) = f - (c + 1)
      /\ \A i \in 1..(f - (c + 1)) : g[i] = text[c + i]
  BY <1>1, SegmentIs
<1>4. /\ \/ tok.type = "ILLEGAL" /\ (ToSet(g) \cap Illegals # {} \/ Len(g) > CharLimit)
         \/ /\ tok.type = "LITERAL" /\ tok.name = SubSeq(text, c + 1, q - 1) /\ q = f
            /\ ToSet(g) \cap Illegals = {} /\ Len(g) <= CharLimit
  BY <1>1, <1>2, LiteralSegmentReads
<1> HIDE DEF f, g
<1>5. f # c + 1
  BY <1>1, <1>3 DEF Finds
<1>6. c + 2 <= f /\ 1 \in 1..(f - (c + 1))
  BY <1>1, <1>3, <1>5
<1>7. g # <<>> /\ g[1] = Char(c + 1)
  BY <1>1, <1>3, <1>6
<1>8. Boundary(f)
  BY <1>1, <1>3, <1>6 DEF Boundary, Finds
<1>9. tok.type = "LITERAL" => KindRead(c, tok, q)
  <2> SUFFICES ASSUME tok.type = "LITERAL" PROVE KindRead(c, tok, q)
    OBVIOUS
  <2>1. tok.name = SubSeq(text, c + 1, f - 1) /\ q = f
    BY <1>4
  <2>2. Spelling(tok) = <<"/">> \o tok.name
    BY Zenon DEF Spelling
  <2>3. SubSeq(text, c, c) = <<"/">>
    BY <1>1, <1>2, SubSeqOfOne
  <2>4. SubSeq(text, c, (c + 1) - 1) \o SubSeq(text, c + 1, f - 1) = SubSeq(text, c, f - 1)
    BY <1>1, <1>3, SubSeqJoins
  <2>5. (c + 1) - 1 = c
    BY <1>1
  <2>6. Spelling(tok) = SubSeq(text, c, f - 1)
    BY <2>1, <2>2, <2>3, <2>4, <2>5
  <2> QED BY <1>1, <1>3, <1>6, <1>8, <2>1, <2>6 DEF KindRead, f
<1>10. syntax = COLON => (SegmentLegal(c) <=> (ToSet(g) \cap Illegals = {} /\ Len(g) <= CharLimit))
  <2> SUFFICES ASSUME syntax = COLON
               PROVE  SegmentLegal(c) <=> (ToSet(g) \cap Illegals = {} /\ Len(g) <= CharLimit)
    OBVIOUS
  <2>1. g[1] # ":" /\ g[1] # "*"
    BY <1>7 DEF Opening, COLON, BRACE, ANGLE
  <2>2. g # <<"*">>
    BY <2>1
  <2>3. ProperSegment(g) <=> (ToSet(g) \cap Illegals = {} /\ Len(g) <= CharLimit)
    BY <2>1, <2>2 DEF ProperSegment
  <2> QED BY <1>7, <2>3 DEF SegmentLegal, g
<1>11. Len(g) \in Nat /\ CharLimit \in Nat
  BY <1>3, LexerAssumption
<1> QED BY <1>4, <1>9, <1>10, <1>11

(* In the colon syntax, so is a parameter.                                 *)
LEMMA ParamRead ==
    ASSUME TextOK, syntax = COLON, NEW c \in 1..(Len(text) - 1), Boundary(c), Char(c + 1) = Opening,
           NEW tok, NEW q, ParamReturned(c + 2, tok, q)
    PROVE  /\ tok.type = "PARAM" => KindRead(c, tok, q) /\ SegmentLegal(c)
           /\ tok.type # "PARAM" => tok.type = "ILLEGAL" /\ ~SegmentLegal(c)
<1> DEFINE n == Len(text)
           f == NextSlash(c)
           g == Segment(c)
<1>1. /\ n \in Nat /\ text \in Seq(ToSet(text)) /\ c \in Nat /\ c \in 1..n /\ c + 1 \in 1..n
      /\ Char(c + 1) = text[c + 1]
  BY TextLength DEF TextOK
<1>2. text[c] = "/" /\ Char(c + 1) = ":"
  <2>1. text[c] = "/"
    BY <1>1 DEF Boundary
  <2> QED BY <2>1 DEF Opening, COLON, BRACE, ANGLE
<1>3. f \in Nat /\ f <= n + 1 /\ Finds(f, c + 1, {"/"})
  BY <1>1, SegmentIs
<1>4. /\ c + 2 <= f /\ g # <<>> /\ g[1] = ":" /\ Tail(g) \in Seq(ToSet(text))
      /\ \/ tok.type = "ILLEGAL" /\ ~(ProperName(Tail(g)) /\ Len(Tail(g)) <= CharLimit)
         \/ /\ tok.type = "PARAM" /\ tok.name = SubSeq(text, c + 2, q - 1) /\ q = f
            /\ ProperName(Tail(g)) /\ Len(Tail(g)) <= CharLimit
  BY <1>1, <1>2, ParamSegmentReads
<1> HIDE DEF f, g
<1>5. SegmentLegal(c) <=> (ProperName(Tail(g)) /\ Len(Tail(g)) <= CharLimit)
  <2>1. g # <<"*">>
    BY <1>4
  <2>2. ProperSegment(g) <=> (ProperName(Tail(g)) /\ Len(Tail(g)) <= CharLimit)
    BY <1>4, <2>1 DEF ProperSegment
  <2> QED BY <1>4, <2>2 DEF SegmentLegal, g
<1>6. tok.type = "PARAM" => KindRead(c, tok, q)
  <2> SUFFICES ASSUME tok.type = "PARAM" PROVE KindRead(c, tok, q)
    OBVIOUS
  <2> DEFINE w == SubSeq(text, c + 2, f - 1)
  <2>1. tok.name = w /\ q = f
    BY <1>4
  <2>2. Opening = ":" /\ SetToSeq(Closing) = <<>>
    BY ClosingIs DEF Opening, SyntaxOK, COLON, BRACE, ANGLE
  <2>3. w \in Seq(ToSet(text))
    <3>1. c + 2 \in Nat /\ 1 <= c + 2
      BY <1>1
    <3> QED BY <1>1, <1>3, <1>4, <3>1, PartIs
  <2> HIDE DEF w
  <2>4. Spelling(tok) = <<"/", ":">> \o w \o <<>>
    <3>1. Spelling(tok) = <<"/", Opening>> \o tok.name \o SetToSeq(Closing)
      BY Zenon DEF Spelling
    <3> QED BY <2>1, <2>2, <3>1, Zenon
  <2>5. <<"/", ":">> \o w \o <<>> = <<"/", ":">> \o w
    <3>1. w \in Seq(ToSet(text) \cup {"/", ":"}) /\ <<"/", ":">> \in Seq(ToSet(text) \cup {"/", ":"})
      BY <2>3
    <3> QED BY <3>1
  <2>6. SubSeq(text, c, c + 1) = <<"/", ":">>
    <3>1. SubSeq(text, c, c + 1) = <<text[c], text[c + 1]>>
      BY <1>1, SubSeqOfTwo
    <3> QED BY <1>1, <1>2, <3>1
  <2>7. SubSeq(text, c, (c + 2) - 1) \o SubSeq(text, c + 2, f - 1) = SubSeq(text, c, f - 1)
    <3>1. c + 2 \in Nat /\ 1 <= c /\ c <= c + 2
      BY <1>1
    <3> QED BY <1>1, <1>3, <1>4, <3>1, SubSeqJoins
  <2>8. (c + 2) - 1 = c + 1
    BY <1>1
  <2>9. Spelling(tok) = SubSeq(text, c, f - 1)
    BY <2>4, <2>5, <2>6, <2>7, <2>8 DEF w
  <2>10. Boundary(f)
    BY <1>1, <1>3, <1>4 DEF Boundary, Finds
  <2> QED BY <1>1, <1>3, <1>4, <2>1, <2>9, <2>10 DEF KindRead, f
<1> QED BY <1>4, <1>5, <1>6

(* So is a wildcard, in every syntax.                                      *)
LEMMA WildcardRead ==
    ASSUME TextOK, SyntaxOK, NEW c \in 1..(Len(text) - 1), Boundary(c), Char(c + 1) = "*",
           NEW tok, NEW q, WildcardReturned(c + 1, tok, q)
    PROVE  /\ tok.type = "WILDCARD" => KindRead(c, tok, q) /\ SegmentLegal(c)
           /\ tok.type # "WILDCARD" => tok.type = "ILLEGAL" /\ ~SegmentLegal(c)
<1> DEFINE n == Len(text)
           f == NextSlash(c)
           g == Segment(c)
<1>1. /\ n \in Nat /\ text \in Seq(ToSet(text)) /\ c \in Nat /\ c \in 1..n /\ c + 1 \in 1..n
      /\ (\A i \in Nat : (Char(i) = NUL) <=> (i \notin 1..n)) /\ \A i \in 1..n : Char(i) = text[i]
  BY TextLength DEF TextOK
<1>2. text[c] = "/" /\ text[c + 1] = "*"
  BY <1>1 DEF Boundary
<1>3. /\ f \in Nat /\ c + 1 <= f /\ f <= n + 1 /\ Finds(f, c + 1, {"/"})
      /\ g \in Seq(ToSet(text)) /\ Len(g) = f - (c + 1)
      /\ \A i \in 1..(f - (c + 1)) : g[i] = text[c + i]
  BY <1>1, SegmentIs
<1> HIDE DEF f, g
<1>4. f # c + 1
  BY <1>1, <1>2, <1>3 DEF Finds
<1>5. c + 2 <= f /\ 1 \in 1..(f - (c + 1)) /\ c + 2 \in Nat /\ (c + 1) + 1 = c + 2
  BY <1>1, <1>3, <1>4
<1>6. g # <<>> /\ g[1] = "*"
  BY <1>1, <1>2, <1>3, <1>5
<1>7. CASE Char(c + 2) \in {NUL, "/"}
  <2>1. tok = Tok("WILDCARD", <<>>) /\ q = c + 2
    BY <1>5, <1>7 DEF WildcardReturned
  <2>2. f = c + 2
    <3> SUFFICES ASSUME f # c + 2 PROVE FALSE
      OBVIOUS
    <3>1. c + 2 \in 1..n /\ c + 2 < f /\ c + 1 <= c + 2
      BY <1>1, <1>3, <1>5
    <3>2. text[c + 2] # "/"
      BY <1>3, <1>5, <3>1 DEF Finds
    <3> QED BY <1>1, <1>5, <1>7, <3>1, <3>2
  <2>3. tok.type = "WILDCARD"
    BY <2>1 DEF Tok
  <2>4. Spelling(tok) = <<"/", "*">>
    BY <2>3, Zenon DEF Spelling
  <2>5. SubSeq(text, c, c + 1) = <<"/", "*">>
    <3>1. SubSeq(text, c, c + 1) = <<text[c], text[c + 1]>>
      BY <1>1, SubSeqOfTwo
    <3> QED BY <1>2, <3>1
  <2>6. (c + 2) - 1 = c + 1
    BY <1>1
  <2>7. Boundary(f)
    BY <1>1, <1>3, <1>5 DEF Boundary, Finds
  <2>8. KindRead(c, tok, q)
    BY <1>1, <1>3, <1>5, <2>1, <2>2, <2>4, <2>5, <2>6, <2>7 DEF KindRead, f
  <2>9. g = <<"*">>
    <3>1. Len(g) = 1
      BY <1>1, <1>3, <2>2
    <3> QED BY <1>3, <1>6, <3>1
  <2>10. SegmentLegal(c)
    BY <1>6, <2>9 DEF SegmentLegal, ProperSegment, g
  <2> QED BY <2>3, <2>8, <2>10
<1>8. CASE Char(c + 2) \notin {NUL, "/"}
  <2>1. tok = Tok("ILLEGAL", <<>>)
    BY <1>5, <1>8 DEF WildcardReturned
  <2>2. c + 2 \in 1..n /\ text[c + 2] # "/"
    BY <1>1, <1>5, <1>8
  <2>3. f # c + 2
    BY <1>1, <1>3, <2>2 DEF Finds
  <2>4. Len(g) # 1 /\ 1 \in DOMAIN g
    BY <1>1, <1>3, <1>5, <2>3
  <2>5. g # <<"*">> /\ g[1] # ":" /\ g[1] \in ToSet(g) \cap Illegals
    BY <1>6, <2>4 DEF ToSet, Illegals
  <2>6. ~ProperSegment(g)
    BY <2>5 DEF ProperSegment
  <2>7. tok.type = "ILLEGAL"
    BY <2>1 DEF Tok
  <2> QED BY <1>6, <2>6, <2>7 DEF SegmentLegal, g
<1> QED BY <1>7, <1>8

(* Nothing stands between two slashes, or between a slash and the end.     *)
LEMMA EmptySegment ==
    ASSUME TextOK, NEW c \in 1..Len(text), Char(c + 1) \in {"/", NUL}
    PROVE  Segment(c) = <<>>
<1>1. /\ Len(text) \in Nat /\ c \in Nat /\ (\A i \in Nat : (Char(i) = NUL) <=> (i \notin 1..Len(text)))
      /\ \A i \in 1..Len(text) : Char(i) = text[i]
  BY TextLength
<1> DEFINE f == NextSlash(c)
<1>2. /\ f \in Nat /\ c + 1 <= f /\ f <= Len(text) + 1 /\ Finds(f, c + 1, {"/"})
      /\ Segment(c) \in Seq(ToSet(text)) /\ Len(Segment(c)) = f - (c + 1)
  BY SegmentIs
<1> HIDE DEF f
<1>3. f = c + 1
  <2> SUFFICES ASSUME f # c + 1 PROVE FALSE
    OBVIOUS
  <2>1. c + 1 < f /\ c + 1 \in 1..Len(text) /\ c + 1 \in Nat
    BY <1>1, <1>2
  <2>2. text[c + 1] # "/"
    BY <1>2, <2>1 DEF Finds
  <2> QED BY <1>1, <2>1, <2>2
<1>4. Len(Segment(c)) = 0
  BY <1>1, <1>2, <1>3
<1> QED BY <1>2, <1>4

(* A token is written as its segment; ILLEGAL is for illegal segments.     *)
LEMMA PatternReads ==
    ASSUME TextOK, SyntaxOK, NEW c, Boundary(c), NEW tok, NEW q, PreReturns(c, tok, q)
    PROVE  /\ (tok.type \in Kinds /\ (tok.type = "PARAM" => syntax = COLON)) =>
                 KindRead(c, tok, q) /\ (syntax = COLON => SegmentLegal(c))
           /\ tok.type \in Stop =>
                 \/ tok.type = "END" /\ c = Len(text) + 1
                 \/ tok.type = "END" /\ c \in 1..Len(text) /\ c = Len(text) /\ c = 1
                 \/ tok.type = "TRAILING" /\ c \in 1..Len(text) /\ c = Len(text) /\ c # 1
                 \/ tok.type = "ILLEGAL" /\ c \in 1..(Len(text) - 1) /\ (syntax = COLON => ~SegmentLegal(c))
<1> DEFINE n == Len(text)
<1>0. n \in Nat /\ \A i \in 1..(n - 1) : i \in 1..n /\ i # n
  <2>1. n \in Nat
    BY TextLength
  <2> QED BY <2>1
<1>1. \A type, name : Tok(type, name).type = type
  BY DEF Tok
<1>2. Kinds \cap Stop = {}
  BY DEF Kinds, Stop
<1>3. CASE c = n + 1 /\ tok = Tok("END", <<>>)
  BY <1>1, <1>3 DEF Kinds
<1>4. CASE c = n /\ c \in 1..n /\ c = 1 /\ tok = Tok("END", <<>>)
  BY <1>1, <1>4 DEF Kinds
<1>5. CASE c = n /\ c \in 1..n /\ c # 1 /\ tok = Tok("TRAILING", <<>>)
  BY <1>1, <1>5 DEF Kinds
<1>6. CASE c \in 1..(n - 1) /\ Char(c + 1) = "/" /\ tok = Tok("ILLEGAL", <<>>)
  <2>1. ~SegmentLegal(c)
    BY <1>0, <1>6, EmptySegment DEF SegmentLegal
  <2> QED BY <1>1, <1>6, <2>1 DEF Kinds
<1>7. CASE c \in 1..(n - 1) /\ Char(c + 1) = Opening /\ ParamReturned(c + 2, tok, q)
  <2>1. tok.type \in {"PARAM", "ILLEGAL"}
    BY <1>1, <1>7 DEF ParamReturned, NameReturned
  <2>2. syntax = COLON =>
           /\ tok.type = "PARAM" => KindRead(c, tok, q) /\ SegmentLegal(c)
           /\ tok.type # "PARAM" => tok.type = "ILLEGAL" /\ ~SegmentLegal(c)
    BY <1>7, ParamRead
  <2> QED BY <1>7, <2>1, <2>2 DEF Kinds, Stop
<1>8. CASE c \in 1..(n - 1) /\ Char(c + 1) = "*" /\ WildcardReturned(c + 1, tok, q)
  <2>1. /\ tok.type = "WILDCARD" => KindRead(c, tok, q) /\ SegmentLegal(c)
        /\ tok.type # "WILDCARD" => tok.type = "ILLEGAL" /\ ~SegmentLegal(c)
    BY <1>8, WildcardRead
  <2> QED BY <1>8, <2>1 DEF Kinds, Stop
<1>9. CASE c \in 1..(n - 1) /\ Char(c + 1) \notin {NUL, "/", "*", Opening} /\ LiteralReturned(c + 1, tok, q)
  <2>1. /\ tok.type = "LITERAL" => KindRead(c, tok, q)
        /\ (tok.type = "LITERAL" /\ syntax = COLON) => SegmentLegal(c)
        /\ tok.type # "LITERAL" => tok.type = "ILLEGAL" /\ (syntax = COLON => ~SegmentLegal(c))
    BY <1>9, LiteralRead
  <2> QED BY <1>9, <2>1 DEF Kinds, Stop
<1> QED BY PrelexerCases, <1>3, <1>4, <1>5, <1>6, <1>7, <1>8, <1>9

-----------------------------------------------------------------------------
(* The pattern has been read up to c, and everything before it is legal.   *)
PatternRead(m, toks, c) ==
    /\ Loads(text) /\ Boundary(c)
    /\ \A i \in 1..m : toks[i].type \in Kinds
    /\ Flat(SubSeq(toks, 1, m)) = SubSeq(text, 1, c - 1)
    /\ m = 0 <=> c = 1
    /\ syntax = COLON => \A i \in 1..(c - 1) : text[i] = "/" => SegmentLegal(i)

(* A token is returned where those before it end.                          *)
Returned(c, tok) == \E q : PreReturns(c, tok, q)
Traced(toks) ==
    \A k \in 0..(Len(toks) - 1) :
        \E c, tok : c = Len(Flat(SubSeq(toks, 1, k))) + 1 /\ tok = toks[k + 1] /\ Returned(c, tok)

(* In the two bracket syntaxes a segment may go on behind a parameter.     *)
Straight(toks) == syntax = COLON \/ \A i \in DOMAIN toks : toks[i].type # "PARAM"

PatternInv(toks, c) ==
    /\ toks \in Seq(Token) /\ c \in 0..(Len(text) + 1)
    /\ \A i \in 1..(Len(toks) - 1) : toks[i].type \in Kinds
    /\ c = 0 => ~Loads(text) /\ \A i \in DOMAIN toks : toks[i].type = "ILLEGAL"
    /\ (c # 0 /\ Straight(toks)) =>
          /\ Traced(toks)
          /\ \E m \in 0..Len(toks), p \in 1..(Len(text) + 1) :
                /\ PatternRead(m, toks, p)
                /\ \/ m = Len(toks) /\ p = c
                   \/ m + 1 = Len(toks) /\ \E tok : tok = toks[m + 1] /\ tok.type \in Stop /\ Returned(p, tok)

(* A call of prelexer_next keeps the invariant.                            *)
LEMMA PatternStep ==
    ASSUME TextOK, SyntaxOK, NEW toks, NEW c, PatternInv(toks, c), c # 0,
           \A i \in DOMAIN toks : toks[i].type \in Kinds,
           NEW tok, NEW q, PreReturns(c, tok, q)
    PROVE  PatternInv(Append(toks, tok), q)
<1> DEFINE n == Len(text)
           len == Len(toks)
           more == Append(toks, tok)
<1>1. n \in Nat /\ toks \in Seq(Token) /\ c \in 1..(n + 1) /\ c \in Nat /\ len \in Nat /\ DOMAIN toks = 1..len
      /\ text \in Seq(ToSet(text))
  BY TextLength DEF PatternInv, TextOK
<1>2. tok \in Token /\ q \in 1..(n + 1)
  BY <1>1, PreReturnsType
<1>3. /\ more \in Seq(Token) /\ Len(more) = len + 1 /\ more[len + 1] = tok /\ DOMAIN more = 1..(len + 1)
      /\ \A i \in 1..len : more[i] = toks[i]
      /\ \A m \in 0..len : SubSeq(more, 1, m) = SubSeq(toks, 1, m)
      /\ SubSeq(more, 1, len + 1) = more /\ SubSeq(toks, 1, len) = toks
  <2> HIDE DEF more, len
  <2>1. /\ more \in Seq(Token) /\ Len(more) = len + 1 /\ more[len + 1] = tok
        /\ \A i \in 1..len : more[i] = toks[i]
        /\ \A m \in 0..len : SubSeq(more, 1, m) = SubSeq(toks, 1, m)
        /\ SubSeq(more, 1, len + 1) = more /\ SubSeq(toks, 1, len) = toks
    BY <1>1, <1>2, PrefixKept DEF more, len
  <2> QED BY <2>1
<1> HIDE DEF more
<1>4. \A i \in 1..(Len(more) - 1) : more[i].type \in Kinds
  BY <1>1, <1>3
<1>5. q # 0 /\ q \in 0..(n + 1)
  BY <1>1, <1>2
<1>6. ASSUME Straight(more)
      PROVE  /\ Traced(more)
             /\ \E m \in 0..Len(more), p \in 1..(n + 1) :
                   /\ PatternRead(m, more, p)
                   /\ \/ m = Len(more) /\ p = q
                      \/ m + 1 = Len(more) /\ \E t : t = more[m + 1] /\ t.type \in Stop /\ Returned(p, t)
  <2>1. Straight(toks)
    <3>1. \A i \in 1..len : i \in 1..(len + 1)
      BY <1>1
    <3> QED BY <1>1, <1>3, <1>6, <3>1 DEF Straight
  <2>2. Traced(toks) /\ PatternRead(len, toks, c)
    <3>1. PICK m \in 0..len, p \in 1..(n + 1) :
             /\ PatternRead(m, toks, p)
             /\ \/ m = len /\ p = c
                \/ m + 1 = len /\ toks[len].type \in Stop
      BY <2>1 DEF PatternInv
    <3>2. ~(m + 1 = len /\ toks[len].type \in Stop)
      <4>1. m + 1 = len => len \in DOMAIN toks
        BY <1>1
      <4> QED BY <4>1 DEF Kinds, Stop
    <3> QED BY <2>1, <3>1, <3>2 DEF PatternInv
  <2>3. /\ Loads(text) /\ Boundary(c) /\ Flat(toks) = SubSeq(text, 1, c - 1) /\ (len = 0 <=> c = 1)
        /\ syntax = COLON => \A i \in 1..(c - 1) : text[i] = "/" => SegmentLegal(i)
    BY <1>3, <2>2 DEF PatternRead
  <2>4. Len(SubSeq(text, 1, c - 1)) + 1 = c
    <3>1. Len(SubSeq(text, 1, c - 1)) = c - 1
      BY <1>1, PartIs
    <3> QED BY <1>1, <3>1
  <2>5. Traced(more)
    <3> SUFFICES ASSUME NEW k \in 0..(Len(more) - 1)
                 PROVE  Returned(Len(Flat(SubSeq(more, 1, k))) + 1, more[k + 1])
      BY DEF Traced
    <3>0. k \in 0..len /\ (k # len => k \in 0..(len - 1) /\ k + 1 \in 1..len)
      <4>1. Len(more) - 1 = len
        BY <1>1, <1>3
      <4>2. \A l \in Nat : \A j \in 0..l : j # l => j \in 0..(l - 1) /\ j + 1 \in 1..l
        OBVIOUS
      <4>3. k \in 0..len
        BY <4>1
      <4> QED BY <1>1, <4>2, <4>3
    <3>3. SubSeq(more, 1, k) = SubSeq(toks, 1, k)
      BY <1>3, <3>0
    <3>1. CASE k = len
      <4>1. Len(Flat(SubSeq(more, 1, k))) + 1 = c
        BY <1>3, <2>3, <2>4, <3>1, <3>3
      <4>2. more[k + 1] = tok
        BY <1>3, <3>1
      <4> QED BY <4>1, <4>2 DEF Returned
    <3>2. CASE k # len
      <4>1. Returned(Len(Flat(SubSeq(toks, 1, k))) + 1, toks[k + 1])
        BY <2>2, <3>0, <3>2 DEF Traced
      <4>2. more[k + 1] = toks[k + 1]
        BY <1>3, <3>0, <3>2
      <4> QED BY <3>3, <4>1, <4>2
    <3> QED BY <3>1, <3>2
  <2>6. CASE tok.type \in Stop
    <3>1. PatternRead(len, more, c)
      <4>1. \A i \in 1..len : more[i].type \in Kinds
        BY <1>1, <1>3
      <4>2. len \in 0..len
        BY <1>1
      <4>3. SubSeq(more, 1, len) = toks
        BY <1>3, <4>2
      <4> QED BY <2>3, <4>1, <4>3 DEF PatternRead
    <3>2. len \in 0..Len(more) /\ len + 1 = Len(more) /\ more[len + 1] = tok
      BY <1>1, <1>3
    <3> QED BY <1>1, <2>5, <2>6, <3>1, <3>2 DEF Returned
  <2>7. CASE tok.type \in Kinds
    <3>1. tok.type = "PARAM" => syntax = COLON
      <4>1. len + 1 \in DOMAIN more
        BY <1>1, <1>3
      <4> QED BY <1>3, <1>6, <4>1 DEF Straight
    <3>2. KindRead(c, tok, q) /\ (syntax = COLON => SegmentLegal(c))
      BY <2>3, <2>7, <3>1, PatternReads
    <3>3. /\ c \in 1..n /\ q \in Nat /\ c + 2 <= q /\ Boundary(q) /\ q = NextSlash(c) /\ q <= n + 1
          /\ Spelling(tok) = SubSeq(text, c, q - 1)
      BY <1>1, <1>2, <3>2 DEF KindRead
    <3>4. Flat(more) = SubSeq(text, 1, q - 1)
      <4>1. Flat(more) = Flat(toks) \o Spelling(tok)
        BY <1>1, <1>2, FlatAppend DEF more
      <4>2. SubSeq(text, 1, c - 1) \o SubSeq(text, c, q - 1) = SubSeq(text, 1, q - 1)
        <5>1. 1 <= c /\ c <= q /\ q <= Len(text) + 1
          BY <1>1, <3>3
        <5>2. text \in Seq(ToSet(text)) /\ c \in Nat /\ q \in Nat /\ 1 \in Nat /\ 1 <= 1
          BY <1>1, <3>3
        <5> QED BY ONLY <5>1, <5>2, SubSeqJoins
      <4> QED BY <2>3, <3>3, <4>1, <4>2
    <3>5. \A i \in 1..(len + 1) : more[i].type \in Kinds
      <4>1. \A i \in 1..(len + 1) : i \in 1..len \/ i = len + 1
        BY <1>1
      <4> QED BY <1>1, <1>3, <2>7, <4>1
    <3>6. ASSUME syntax = COLON, NEW i \in 1..(q - 1), text[i] = "/"
          PROVE  SegmentLegal(i)
      <4>1. CASE i \in 1..(c - 1)
        BY <2>3, <3>6, <4>1
      <4>2. CASE i = c
        BY <3>2, <3>6, <4>2
      <4>3. CASE i > c
        <5>1. Finds(q, c + 1, {"/"})
          BY <3>3, SegmentIs
        <5>2. i \in Nat /\ c + 1 <= i /\ i < q
          BY <1>1, <3>3, <4>3
        <5> QED BY <3>6, <5>1, <5>2 DEF Finds
      <4>4. i \in 1..(c - 1) \/ i = c \/ i > c
        BY <1>1, <3>3
      <4> QED BY <4>1, <4>2, <4>3, <4>4
    <3>7. PatternRead(len + 1, more, q)
      <4>1. len + 1 # 0 /\ q # 1
        BY <1>1, <3>3
      <4> QED BY <1>3, <2>3, <3>3, <3>4, <3>5, <3>6, <4>1 DEF PatternRead
    <3>8. len + 1 \in 0..Len(more)
      BY <1>1, <1>3
    <3> QED BY <1>2, <1>3, <2>5, <3>7, <3>8
  <2>8. tok.type \in Stop \cup Kinds
    BY <1>2 DEF Token, Kinds
  <2> QED BY <2>6, <2>7, <2>8
<1> QED BY <1>3, <1>4, <1>5, <1>6 DEF PatternInv, more

(* No step changes the text and the syntax, on which the parts depend.     *)
LEMMA TokensFlatAfter ==
    ASSUME UNCHANGED <<text, syntax>>, NEW m, NEW toks, toks = tokens'
    PROVE  Flat(SubSeq(tokens, 1, m))' = Flat(SubSeq(toks, 1, m))
<1> DEFINE f == SubSeq(tokens, 1, m)
           g == SubSeq(toks, 1, m)
<1>1. \A i : Spelling(f[i])' = Spelling(g[i])
  BY Zenon DEF Spelling, Opening, Closing
<1>2. f' = g
  BY Zenon
<1>3. [i \in DOMAIN f |-> Spelling(f[i])]' = [i \in DOMAIN g |-> Spelling(g[i])]
  BY <1>1, <1>2
<1> QED BY <1>3, Zenon DEF Flat

(* The same of what has been read.                                         *)
LEMMA PatternReadAfter ==
    ASSUME UNCHANGED <<text, syntax>>, NEW m, NEW toks, toks = tokens', NEW p, PatternRead(m, toks, p)
    PROVE  PatternRead(m, tokens, p)'
<1>1. Flat(SubSeq(tokens, 1, m))' = Flat(SubSeq(toks, 1, m))
  BY TokensFlatAfter
<1>2. \A i : SegmentLegal(i)' <=> SegmentLegal(i)
  BY Zenon DEF SegmentLegal, Segment, NextSlash, Find, Char
<1>3. Boundary(p)' <=> Boundary(p)
  BY DEF Boundary
<1> QED BY <1>1, <1>2, <1>3, Zenon DEF PatternRead

(* The same of the brackets.                                               *)
LEMMA BracketsAfter ==
    ASSUME UNCHANGED <<text, syntax>>
    PROVE  Opening' = Opening /\ Closing' = Closing
BY DEF Opening, Closing

(* The same of what is returned for a literal,                             *)
LEMMA LiteralReturnedAfter ==
    ASSUME UNCHANGED <<text, syntax>>, NEW s, NEW tok, NEW q
    PROVE  LiteralReturned(s, tok, q)' <=> LiteralReturned(s, tok, q)
BY DEF LiteralReturned, Char, Find, NameReturned, Slice

(* for a parameter,                                                        *)
LEMMA ParamReturnedAfter ==
    ASSUME UNCHANGED <<text, syntax>>, NEW start, NEW tok, NEW q
    PROVE  ParamReturned(start, tok, q)' <=> ParamReturned(start, tok, q)
BY BracketsAfter DEF ParamReturned, Char, FindOther, NameReturned, Slice

(* and for anything else.                                                  *)
LEMMA PreReturnsAfter ==
    ASSUME UNCHANGED <<text, syntax>>, NEW c, NEW tok, NEW q
    PROVE  PreReturns(c, tok, q)' <=> PreReturns(c, tok, q)
<1>1. PICK s : s = StartAt(c)
  OBVIOUS
<1>2. StartAt(c)' = s
  BY <1>1 DEF StartAt, Char
<1>3. \A i : Char(i)' = Char(i)
  BY DEF Char
<1>4. WildcardReturned(s, tok, q)' <=> WildcardReturned(s, tok, q)
  BY <1>3 DEF WildcardReturned
<1>5. ParamReturned(s + 1, tok, q)' <=> ParamReturned(s + 1, tok, q)
  BY ParamReturnedAfter
<1>6. LiteralReturned(s, tok, q)' <=> LiteralReturned(s, tok, q)
  BY LiteralReturnedAfter
<1> QED BY <1>1, <1>2, <1>3, <1>4, <1>5, <1>6, BracketsAfter, Zenon DEF PreReturns

(* The same of where tokens were returned.                                 *)
LEMMA TracedAfter ==
    ASSUME UNCHANGED <<text, syntax>>, NEW toks, toks = tokens', Traced(toks)
    PROVE  Traced(tokens)'
<1>1. ASSUME NEW k \in 0..(Len(toks) - 1)
      PROVE  (\E a, t : a = Len(Flat(SubSeq(tokens, 1, k))) + 1 /\ t = tokens[k + 1] /\ Returned(a, t))'
  <2>1. PICK a, t : a = Len(Flat(SubSeq(toks, 1, k))) + 1 /\ t = toks[k + 1] /\ Returned(a, t)
    BY DEF Traced
  <2>2. (Len(Flat(SubSeq(tokens, 1, k))) + 1)' = a /\ (tokens[k + 1])' = t
    BY <2>1, TokensFlatAfter, Zenon
  <2>3. Returned(a, t)'
    BY <2>1, PreReturnsAfter DEF Returned
  <2> QED BY <2>2, <2>3
<1> QED BY <1>1, Zenon DEF Traced

(* The same of the invariant.                                              *)
LEMMA PatternInvAfter ==
    ASSUME UNCHANGED <<text, syntax>>, PatternInv(tokens', cursor')
    PROVE  PatternInv(tokens, cursor)'
<1>1. PICK toks, c : toks = tokens' /\ c = cursor'
  BY Zenon
<1> DEFINE n == Len(text)
<1>2. PatternInv(toks, c)
  BY <1>1
<1>3. /\ tokens' \in Seq(Token) /\ cursor' \in 0..(n + 1)
      /\ \A i \in 1..(Len(tokens') - 1) : tokens'[i].type \in Kinds
      /\ cursor' = 0 => ~Loads(text) /\ \A i \in DOMAIN tokens' : tokens'[i].type = "ILLEGAL"
  BY DEF PatternInv
<1>4. Token' = Token /\ (Len(text))' = n /\ (Loads(text))' = Loads(text)
  BY DEF Token
<1>5. ASSUME cursor' # 0, Straight(tokens)'
      PROVE  /\ Traced(tokens)'
             /\ \E m \in 0..Len(tokens'), p \in 1..(n + 1) :
                   /\ PatternRead(m, tokens, p)'
                   /\ \/ m = Len(tokens') /\ p = cursor'
                      \/ /\ m + 1 = Len(tokens')
                         /\ \E t : t = tokens'[m + 1] /\ t.type \in Stop /\ Returned(p, t)'
  <2>1. c # 0 /\ Straight(toks)
    BY <1>1, <1>5 DEF Straight
  <2>2. Traced(toks)
    BY <1>2, <2>1 DEF PatternInv
  <2>3. PICK m \in 0..Len(toks), p \in 1..(n + 1) :
           /\ PatternRead(m, toks, p)
           /\ \/ m = Len(toks) /\ p = c
              \/ m + 1 = Len(toks) /\ \E t : t = toks[m + 1] /\ t.type \in Stop /\ Returned(p, t)
    BY <1>2, <2>1 DEF PatternInv
  <2>4. Traced(tokens)'
    BY <1>1, <2>2, TracedAfter
  <2>5. PatternRead(m, tokens, p)'
    BY <1>1, <2>3, PatternReadAfter
  <2>6. \A t : Returned(p, t)' <=> Returned(p, t)
    BY PreReturnsAfter DEF Returned
  <2> QED BY <1>1, <2>3, <2>4, <2>5, <2>6
<1> HIDE DEF n
<1> QED BY <1>3, <1>4, <1>5 DEF PatternInv

-----------------------------------------------------------------------------
PatternsInv == TextOK /\ SyntaxOK /\ PatternInv(tokens, cursor) /\ (cursor = 0 => syntax = COLON)

(* A pattern that has been loaded has been read up to its start.           *)
LEMMA InitPatterns == PreInit => PatternsInv
<1> SUFFICES ASSUME PreInit PROVE PatternsInv
  OBVIOUS
<1>1. TextOK /\ SyntaxOK /\ tokens = <<>> /\ cursor \in {0, 1}
  BY InitText DEF PreInit
<1>2. Len(text) \in Nat /\ text \in Seq(ToSet(text))
  BY <1>1, TextLength DEF TextOK
<1>3. (cursor = 0 => ~Loads(text) /\ syntax = COLON) /\ (cursor = 1 => Loads(text))
  BY DEF PreInit
<1>4. tokens \in Seq(Token) /\ Len(tokens) = 0 /\ DOMAIN tokens = {} /\ cursor \in 0..(Len(text) + 1)
      /\ SubSeq(tokens, 1, 0) = <<>>
  BY <1>1, <1>2
<1>5. Traced(tokens)
  <2>1. \A k \in 0..(Len(tokens) - 1) : FALSE
    BY <1>4
  <2> QED BY <2>1 DEF Traced
<1>6. cursor = 1 => PatternRead(0, tokens, 1)
  <2> SUFFICES ASSUME cursor = 1 PROVE PatternRead(0, tokens, 1)
    OBVIOUS
  <2>1. Loads(text) /\ text[1] = "/"
    BY <1>3 DEF Loads
  <2>2. Boundary(1)
    BY <1>2, <2>1 DEF Boundary
  <2>3. Flat(SubSeq(tokens, 1, 0)) = <<>>
    BY <1>4, FlatEmpty, Zenon
  <2>4. SubSeq(text, 1, 1 - 1) = <<>>
    BY <1>2
  <2>5. (\A i \in 1..0 : FALSE) /\ \A i \in 1..(1 - 1) : FALSE
    OBVIOUS
  <2> QED BY <2>1, <2>2, <2>3, <2>4, <2>5 DEF PatternRead
<1>7. 0 \in 0..Len(tokens) /\ 1 \in 1..(Len(text) + 1)
  BY <1>2, <1>4
<1>8. \A i \in 1..(Len(tokens) - 1) : FALSE
  BY <1>4
<1>9. PatternInv(tokens, cursor)
  BY <1>1, <1>3, <1>4, <1>5, <1>6, <1>7, <1>8 DEF PatternInv
<1> QED BY <1>1, <1>3, <1>9 DEF PatternsInv

(* A pattern's reader is called until a token stops the builder's loop.    *)
LEMMA PreNextCalls == ASSUME PreNext PROVE ~Ended(tokens)
BY DEF PreNext, NotLoaded, EndOfPattern, LastSlash, DoubleSlash, ParamToken, WildcardToken,
       LiteralToken, Calling

(* Until a token stops the builder's loop, none is of a type that does.    *)
LEMMA NotEnded ==
    ASSUME NEW toks \in Seq(Token), \A i \in 1..(Len(toks) - 1) : toks[i].type \in Kinds, ~Ended(toks)
    PROVE  \A i \in DOMAIN toks : toks[i].type \in Kinds
<1> SUFFICES ASSUME NEW i \in DOMAIN toks PROVE toks[i].type \in Kinds
  OBVIOUS
<1>1. Len(toks) \in Nat /\ i \in 1..Len(toks) /\ toks[i] \in Token
  OBVIOUS
<1>2. CASE i = Len(toks)
  <2>1. toks # <<>>
    BY <1>1
  <2>2. toks[i].type \notin Stop
    BY <1>2, <2>1 DEF Ended, Last
  <2> QED BY <1>1, <2>2 DEF Token, Kinds
<1>3. CASE i # Len(toks)
  <2>1. i \in 1..(Len(toks) - 1)
    BY <1>1, <1>3
  <2> QED BY <2>1
<1> QED BY <1>2, <1>3

(* prelexer_next keeps the invariant of part 3,                            *)
LEMMA NextPatterns ==
    ASSUME PatternsInv, PreNext
    PROVE  PatternsInv'
<1>1. /\ TextOK /\ SyntaxOK /\ PatternInv(tokens, cursor) /\ UNCHANGED <<text, syntax>>
      /\ tokens \in Seq(Token) /\ \A i \in 1..(Len(tokens) - 1) : tokens[i].type \in Kinds
  BY PreNextKeepsText DEF PatternsInv, PatternInv
<1>2. \A i \in DOMAIN tokens : tokens[i].type \in Kinds
  BY <1>1, NotEnded, PreNextCalls
<1>3. CASE cursor = 0
  <2>1. NotLoaded
    BY <1>3 DEF PreNext, EndOfPattern, LastSlash, DoubleSlash, ParamToken, WildcardToken, LiteralToken
  <2>2. tokens' = Append(tokens, Tok("ILLEGAL", <<>>)) /\ cursor' = 0
    BY <2>1 DEF NotLoaded, Emit, Tok
  <2>3. tokens = <<>>
    <3>1. \A i \in DOMAIN tokens : FALSE
      BY <1>1, <1>2, <1>3 DEF PatternInv, Kinds
    <3> QED BY <1>1, <3>1
  <2>4. Tok("ILLEGAL", <<>>) \in Token /\ Tok("ILLEGAL", <<>>).type = "ILLEGAL"
    BY PlainToken DEF Stop
  <2> DEFINE t == Tok("ILLEGAL", <<>>)
  <2> HIDE DEF t
  <2>5. tokens' = <<t>>
    BY <2>2, <2>3 DEF t
  <2>6. tokens' \in Seq(Token) /\ Len(tokens') = 1 /\ DOMAIN tokens' = {1} /\ tokens'[1] = t
    BY <2>4, <2>5 DEF t
  <2>7. \A i \in 1..(1 - 1) : FALSE
    OBVIOUS
  <2>8. PatternInv(tokens', cursor')
    BY <1>1, <1>3, <2>2, <2>4, <2>6, <2>7 DEF PatternInv, t
  <2>9. (TextOK /\ SyntaxOK /\ (cursor = 0 => syntax = COLON))'
    BY <1>1, <1>3, <2>2 DEF PatternsInv, TextOK, SyntaxOK
  <2> QED BY <1>1, <2>8, <2>9, PatternInvAfter DEF PatternsInv
<1>4. CASE cursor # 0
  <2>1. PICK tok, q : PreReturns(cursor, tok, q) /\ Emitted(tok, q)
    BY <1>4, PrelexerReturns
  <2>2. PatternInv(Append(tokens, tok), q)
    BY <1>1, <1>2, <1>4, <2>1, PatternStep
  <2>3. PatternInv(tokens', cursor')
    BY <2>1, <2>2 DEF Emitted
  <2>4. cursor' # 0
    <3>1. cursor \in 1..(Len(text) + 1)
      BY <1>1, <1>4, TextLength DEF PatternInv
    <3>2. q \in 1..(Len(text) + 1)
      BY <1>1, <2>1, <3>1, PreReturnsType
    <3> QED BY <1>1, <2>1, <3>2, TextLength DEF Emitted
  <2>5. (TextOK /\ SyntaxOK)'
    BY <1>1 DEF TextOK, SyntaxOK
  <2> QED BY <1>1, <2>3, <2>4, <2>5, PatternInvAfter DEF PatternsInv
<1> QED BY <1>3, <1>4

(* and so does every other step.                                           *)
LEMMA NextPatternsInv ==
    ASSUME PatternsInv, LInv, [Next]_lexVars
    PROVE  PatternsInv'
<1>1. CASE PreNext
  BY <1>1, NextPatterns
<1>2. CASE UNCHANGED preVars
  <2>1. UNCHANGED <<text, syntax>> /\ UNCHANGED <<tokens, cursor>>
    BY <1>2 DEF preVars
  <2>2. PatternInv(tokens', cursor')
    BY <2>1 DEF PatternsInv
  <2>3. (TextOK /\ SyntaxOK /\ (cursor = 0 => syntax = COLON))'
    BY <2>1 DEF PatternsInv, TextOK, SyntaxOK
  <2> QED BY <2>1, <2>2, <2>3, PatternInvAfter DEF PatternsInv
<1>3. LexNext => UNCHANGED preVars
  BY LexerReturns DEF LInv, RequestInv
<1> QED BY <1>1, <1>2, <1>3 DEF Next, lexVars

(* What prelexer_next has read stays read: the invariant of part 3 holds in *)
(* every state, in every syntax.                                           *)
THEOREM PrelexersInvariant == LexerSpec => []PatternsInv
<1>1. LexInit => PatternsInv
  BY InitPatterns DEF LexInit
<1>2. PatternsInv /\ LInv /\ [Next]_lexVars => PatternsInv'
  BY NextPatternsInv
<1> QED BY <1>1, <1>2, LexersInvariant, PTL DEF LexerSpec

(* The last token is returned where those before it end.                   *)
LEMMA LastReturned ==
    ASSUME PatternsInv, Ended(tokens), cursor # 0, Straight(tokens)
    PROVE  \E m \in Nat, p \in 1..(Len(text) + 1) :
              m + 1 = Len(tokens) /\ PatternRead(m, tokens, p) /\ Returned(p, tokens[m + 1])
<1>1. PICK m \in 0..Len(tokens), p \in 1..(Len(text) + 1) :
         /\ PatternRead(m, tokens, p)
         /\ \/ m = Len(tokens)
            \/ m + 1 = Len(tokens) /\ Returned(p, tokens[m + 1])
  BY DEF PatternsInv, PatternInv
<1>2. tokens \in Seq(Token) /\ Len(tokens) \in Nat /\ tokens # <<>> /\ tokens[Len(tokens)].type \in Stop
  BY DEF PatternsInv, PatternInv, Ended, Last
<1>3. m # Len(tokens)
  <2> SUFFICES ASSUME m = Len(tokens) PROVE FALSE
    OBVIOUS
  <2>1. m \in 1..m
    BY <1>2
  <2>2. tokens[m].type \in Kinds
    BY <1>1, <2>1 DEF PatternRead
  <2> QED BY <1>2, <2>2 DEF Kinds, Stop
<1> QED BY <1>1, <1>2, <1>3

(* What has been accepted is legal and written as the pattern.             *)
LEMMA PatternsOfInv ==
    ASSUME PatternsInv
    PROVE  PatternsRoundTrip
<1> SUFFICES ASSUME Ended(tokens), syntax = COLON
             PROVE  (Accepted <=> LegalPattern) /\ (Accepted => Spelled(tokens) = text)
  BY DEF PatternsRoundTrip
<1> DEFINE n == Len(text)
<1>1. /\ tokens \in Seq(Token) /\ Len(tokens) \in Nat /\ tokens # <<>> /\ Len(tokens) \in DOMAIN tokens
      /\ Last(tokens) = tokens[Len(tokens)] /\ TextOK /\ SyntaxOK
  <2>1. tokens \in Seq(Token) /\ Len(tokens) \in Nat /\ tokens # <<>> /\ TextOK /\ SyntaxOK
    BY DEF PatternsInv, PatternInv, Ended
  <2> QED BY <2>1 DEF Last
<1>2. n \in Nat /\ DOMAIN text = 1..n /\ text \in Seq(ToSet(text)) /\ \A i \in 1..n : Char(i) = text[i]
  BY <1>1, TextLength DEF TextOK
<1>3. LegalPattern <=> Loads(text) /\ \A i \in 1..n : text[i] = "/" => SegmentLegal(i)
  BY <1>2, Zenon DEF LegalPattern, SegmentLegal, Segment, NextSlash
<1>4. CASE cursor = 0
  <2>1. ~Loads(text) /\ tokens[Len(tokens)].type = "ILLEGAL"
    BY <1>1, <1>4 DEF PatternsInv, PatternInv
  <2> QED BY <1>1, <1>3, <2>1 DEF Accepted
<1>5. CASE cursor # 0
  <2>1. PICK m \in Nat, p \in 1..(n + 1) :
           m + 1 = Len(tokens) /\ PatternRead(m, tokens, p) /\ Returned(p, tokens[m + 1])
    BY <1>5, LastReturned DEF Straight
  <2>2. PICK tok, q : tok = tokens[m + 1] /\ PreReturns(p, tok, q)
    BY <2>1 DEF Returned
  <2>3. tok \in Token /\ tok.type \in Stop /\ tok = Last(tokens)
    BY <1>1, <2>1, <2>2 DEF Ended
  <2>4. /\ Loads(text) /\ Boundary(p) /\ (m = 0 <=> p = 1)
        /\ Flat(SubSeq(tokens, 1, m)) = SubSeq(text, 1, p - 1)
        /\ \A i \in 1..(p - 1) : text[i] = "/" => SegmentLegal(i)
    BY <2>1 DEF PatternRead
  <2>5. \/ tok.type = "END" /\ p = n + 1
        \/ tok.type = "END" /\ p \in 1..n /\ p = n /\ p = 1
        \/ tok.type = "TRAILING" /\ p \in 1..n /\ p = n /\ p # 1
        \/ tok.type = "ILLEGAL" /\ p \in 1..(n - 1) /\ ~SegmentLegal(p)
    BY <1>1, <2>2, <2>3, <2>4, PatternReads
  <2>6. CASE tok.type = "ILLEGAL"
    <3>1. p \in 1..n /\ p <= n /\ ~SegmentLegal(p)
      BY <1>2, <2>5, <2>6
    <3>2. text[p] = "/"
      BY <2>4, <3>1 DEF Boundary
    <3> QED BY <1>3, <2>3, <2>6, <3>1, <3>2 DEF Accepted
  <2>7. CASE tok.type # "ILLEGAL"
    <3>1. \/ tok.type = "END" /\ p = n + 1
          \/ tok.type = "END" /\ p = n /\ p = 1
          \/ tok.type = "TRAILING" /\ p = n /\ p # 1
      BY <2>5, <2>7
    <3>2. n # 0 /\ n >= 1
      BY <1>2, <2>4 DEF Loads
    <3>3. SegmentLegal(n)
      <4>1. n \in 1..n /\ n + 1 \notin 1..n /\ n + 1 \in Nat
        BY <1>2, <3>2
      <4>2. Char(n + 1) = NUL
        BY <1>1, <4>1, TextLength
      <4>3. Segment(n) = <<>>
        BY <1>1, <4>1, <4>2, EmptySegment
      <4> QED BY <4>3 DEF SegmentLegal
    <3>4. LegalPattern
      <4>1. \A a \in Nat : \A b \in {a, a + 1} : \A i \in 1..a : i \in 1..(b - 1) \/ i = a
        OBVIOUS
      <4>2. \A i \in 1..n : i \in 1..(p - 1) \/ i = n
        <5>1. p \in {n, n + 1} /\ n \in Nat
          BY ONLY <1>2, <3>1
        <5> HIDE DEF n
        <5> QED BY ONLY <4>1, <5>1
      <4> QED BY <1>3, <2>4, <3>3, <4>2
    <3> DEFINE lits == SubSeq(tokens, 1, m)
    <3>5. lits \in Seq(Token) /\ Len(lits) = m /\ tokens = Append(lits, tok)
      <4>1. lits \in Seq(Token) /\ Len(lits) = m /\ \A i \in 1..m : lits[i] = tokens[i]
        BY <1>1, <2>1
      <4> DEFINE b == Append(lits, tok)
      <4>2. b \in Seq(Token) /\ Len(b) = m + 1 /\ b[m + 1] = tok /\ \A i \in 1..m : b[i] = lits[i]
        <5> HIDE DEF lits
        <5> QED BY <2>3, <4>1
      <4> HIDE DEF lits, b
      <4>3. \A i \in 1..(m + 1) : tokens[i] = b[i]
        <5>1. \A i \in 1..(m + 1) : i \in 1..m \/ i = m + 1
          BY <2>1
        <5> QED BY <2>2, <4>1, <4>2, <5>1
      <4>4. tokens = b
        BY <1>1, <2>1, <4>2, <4>3
      <4> QED BY <4>1, <4>4 DEF b
    <3>6. lits = <<>> <=> p = 1
      <4> HIDE DEF lits
      <4> QED BY <2>1, <2>4, <3>5
    <3>7. EndsAt(lits, tok.type, p)
      <4> HIDE DEF lits
      <4>1. p <= n => text[p] = "/"
        BY <2>4 DEF Boundary
      <4>2. CASE tok.type = "END" /\ p = n + 1
        <5>1. p # 1
          BY <1>2, <3>2, <4>2
        <5> QED BY <3>6, <4>2, <5>1 DEF EndsAt
      <4>3. CASE tok.type = "END" /\ p = n /\ p = 1
        <5>1. p <= n
          BY <1>2, <4>3
        <5> QED BY <3>6, <4>1, <4>3, <5>1 DEF EndsAt
      <4>4. CASE tok.type = "TRAILING" /\ p = n /\ p # 1
        <5>1. p <= n /\ p # 0
          BY <1>2, <3>2, <4>4
        <5> QED BY <3>6, <4>1, <4>4, <5>1 DEF EndsAt
      <4> QED BY <3>1, <4>2, <4>3, <4>4
    <3>8. Spelled(Append(lits, tok)) = text
      <4>1. Flat(lits) = SubSeq(text, 1, p - 1) /\ p \in Nat
        BY <1>2, <2>4
      <4> HIDE DEF lits
      <4> QED BY <1>1, <2>3, <3>5, <3>7, <4>1, WholeTextSpelled
    <3> QED BY <2>3, <2>7, <3>4, <3>5, <3>8 DEF Accepted
  <2> QED BY <2>6, <2>7
<1> QED BY <1>4, <1>5

(* In the colon syntax prelexer_next accepts exactly the patterns all of   *)
(* whose segments are legal, and then the tokens, written out again, are   *)
(* the pattern: no character is lost or read twice.                        *)
THEOREM PatternsSpelledOut == LexerSpec => []PatternsRoundTrip
<1>1. PatternsInv => PatternsRoundTrip
  BY PatternsOfInv
<1> QED BY <1>1, PrelexersInvariant, PTL

-----------------------------------------------------------------------------
(* Part 4.                                                                 *)
-----------------------------------------------------------------------------
(* Where a pattern is read as a literal or as the end, so is a request.    *)
LEMMA LexersAgree ==
    ASSUME TextOK, SyntaxOK, NEW p \in Nat, Read(p), NEW s, Returned(p, s),
           s.type \notin {"PARAM", "WILDCARD", "ILLEGAL"}, NEW t, NEW q, Returns(p, t, q)
    PROVE  t = s
<1> DEFINE n == Len(text)
<1>1. /\ n \in Nat /\ (\A i \in 1..n : Char(i) = text[i]) /\ p \in 1..(n + 1)
      /\ p <= n => text[p] = "/"
  BY TextLength DEF Read
<1>2. Boundary(p)
  BY <1>1 DEF Boundary
<1>3. PICK r : PreReturns(p, s, r)
  BY DEF Returned
<1>4. \A type, name : Tok(type, name).type = type
  BY DEF Tok
<1>5. p \in 1..n => Char(p) = "/"
  BY <1>1
<1>6. CASE p = n + 1 /\ s = Tok("END", <<>>)
  <2>1. p # 0 /\ p \notin 1..n
    BY <1>1, <1>6
  <2> QED BY <1>6, <2>1 DEF Returns, LiteralAt
<1>7. CASE p = n /\ p \in 1..n /\ p = 1 /\ s = Tok("END", <<>>)
  <2>1. p # 0 /\ p # n + 1 /\ LastCharacter(p)
    BY <1>1, <1>5, <1>7 DEF LastCharacter
  <2> QED BY <1>7, <2>1 DEF Returns, LiteralAt
<1>8. CASE p = n /\ p \in 1..n /\ p # 1 /\ s = Tok("TRAILING", <<>>)
  <2>1. p # 0 /\ p # n + 1 /\ LastCharacter(p)
    BY <1>1, <1>5, <1>8 DEF LastCharacter
  <2> QED BY <1>8, <2>1 DEF Returns, LiteralAt
<1>9. CASE p \in 1..(n - 1) /\ Char(p + 1) = "/" /\ s = Tok("ILLEGAL", <<>>)
  BY <1>4, <1>9
<1>10. CASE p \in 1..(n - 1) /\ Char(p + 1) = Opening /\ ParamReturned(p + 2, s, r)
  BY <1>4, <1>10 DEF ParamReturned, NameReturned
<1>11. CASE p \in 1..(n - 1) /\ Char(p + 1) = "*" /\ WildcardReturned(p + 1, s, r)
  BY <1>4, <1>11 DEF WildcardReturned
<1>12. CASE p \in 1..(n - 1) /\ Char(p + 1) \notin {NUL, "/", "*", Opening} /\ LiteralReturned(p + 1, s, r)
  <2>1. Char(SegmentStop(p)) \notin Illegals /\ s = Tok("LITERAL", Slice(p + 1, SegmentStop(p)))
    BY <1>4, <1>12, Zenon DEF LiteralReturned, NameReturned, SegmentStop
  <2>2. ~IllegalAt(p) /\ ~LastCharacter(p) /\ p # 0 /\ p # n + 1
    BY <1>1, <1>12, <2>1 DEF IllegalAt, LastCharacter
  <2> QED BY <2>1, <2>2 DEF Returns
<1> QED BY <1>2, <1>3, PrelexerCases, <1>6, <1>7, <1>8, <1>9, <1>10, <1>11, <1>12

Plain(toks) == \A i \in DOMAIN toks : toks[i].type \notin {"PARAM", "WILDCARD"}
OwnText == Accepted /\ Len(text) <= CharLimit /\ Plain(tokens)
Copied(lits) == \A i \in DOMAIN lits : lits[i].type = "LITERAL" /\ i \in DOMAIN tokens /\ lits[i] = tokens[i]

(* A request that has been read as the pattern was is read on as it was.   *)
LEMMA OwnTextReadOn ==
    ASSUME PatternsInv, OwnText, NEW lits \in Seq(Token), Copied(lits),
           NEW p \in Nat, Read(p), Flat(lits) = SubSeq(text, 1, p - 1),
           NEW t, NEW q, Returns(p, t, q)
    PROVE  Len(lits) + 1 \in DOMAIN tokens /\ t = tokens[Len(lits) + 1]
<1> DEFINE m == Len(lits)
           len == Len(tokens)
<1>1. /\ m \in Nat /\ DOMAIN lits = 1..m /\ tokens \in Seq(Token) /\ len \in Nat /\ DOMAIN tokens = 1..len
      /\ tokens # <<>> /\ tokens[len].type \in Stop /\ tokens[len].type # "ILLEGAL"
      /\ TextOK /\ SyntaxOK
      /\ \A i \in 1..(len - 1) : tokens[i].type \in Kinds
  BY DEF PatternsInv, PatternInv, OwnText, Accepted, Ended, Last
<1> HIDE DEF m, len
<1>2. \A i \in 1..m : i \in 1..len /\ lits[i].type = "LITERAL" /\ lits[i] = tokens[i]
  BY <1>1 DEF Copied
<1>3. m < len
  <2>1. len # 0
    BY <1>1 DEF len
  <2>2. m = 0 \/ m <= len
    <3>1. m # 0 => m \in 1..m
      BY <1>1
    <3> QED BY <1>1, <1>2, <3>1
  <2>3. CASE m = len
    <3>1. m \in 1..m
      BY <1>1, <2>1, <2>3
    <3>2. tokens[len].type = "LITERAL"
      BY <1>2, <2>3, <3>1
    <3> QED BY <1>1, <3>2 DEF Stop
  <2> QED BY <1>1, <2>1, <2>2, <2>3
<1>4. SubSeq(tokens, 1, m) = lits
  <2> DEFINE b == SubSeq(tokens, 1, m)
  <2>1. b \in Seq(Token) /\ Len(b) = m /\ \A i \in 1..m : b[i] = tokens[i]
    BY <1>1, <1>3 DEF len
  <2> HIDE DEF b
  <2>2. lits \in Seq(Token) /\ Len(lits) = m /\ \A i \in 1..m : b[i] = lits[i]
    BY <1>2, <2>1 DEF m
  <2>3. b = lits
    BY <2>1, <2>2
  <2> QED BY <2>3 DEF b
<1>5. Len(SubSeq(text, 1, p - 1)) + 1 = p
  <2>1. text \in Seq(ToSet(text)) /\ Len(text) \in Nat /\ p \in 1..(Len(text) + 1)
    BY <1>1, TextLength DEF TextOK, Read
  <2> QED BY <2>1
<1>6. Traced(tokens)
  <2>1. cursor # 0
    <3>1. len \in DOMAIN tokens
      BY <1>1, <1>3
    <3> QED BY <1>1, <3>1 DEF PatternsInv, PatternInv
  <2>2. Straight(tokens)
    BY DEF OwnText, Plain, Straight
  <2> QED BY <2>1, <2>2 DEF PatternsInv, PatternInv
<1>7. Returned(p, tokens[m + 1])
  <2>1. m \in 0..(len - 1)
    BY <1>1, <1>3
  <2>2. PICK c, tok : c = Len(Flat(SubSeq(tokens, 1, m))) + 1 /\ tok = tokens[m + 1] /\ Returned(c, tok)
    BY <1>6, <2>1 DEF Traced, len
  <2>3. c = p
    BY <1>4, <1>5, <2>2
  <2> QED BY <2>2, <2>3
<1>8. m + 1 \in 1..len /\ (m + 1 = len \/ m + 1 \in 1..(len - 1))
  BY <1>1, <1>3
<1>9. tokens[m + 1].type \notin {"PARAM", "WILDCARD", "ILLEGAL"}
  <2>1. tokens[m + 1].type \notin {"PARAM", "WILDCARD"}
    BY <1>1, <1>8 DEF OwnText, Plain
  <2>2. tokens[m + 1].type # "ILLEGAL"
    BY <1>1, <1>8 DEF Kinds
  <2> QED BY <2>1, <2>2
<1>10. t = tokens[m + 1]
  BY <1>1, <1>7, <1>9, LexersAgree
<1> QED BY <1>1, <1>8, <1>10 DEF m

(* The request is loaded when the pattern has been read, and then what it  *)
(* was is what the pattern is.                                             *)
OwnInv ==
    /\ found # <<>> => Ended(tokens)
    /\ OwnText => \A i \in DOMAIN found :
          found[i].type = "LITERAL" => i \in DOMAIN tokens /\ found[i] = tokens[i]

(* A literal of the request is the token of the pattern at its place.      *)
LEMMA NextOwnInv ==
    ASSUME LInv, PatternsInv, OwnInv, [Next]_lexVars
    PROVE  OwnInv'
<1>1. CASE PreNext /\ UNCHANGED <<at, found>>
  <2>1. found = <<>>
    BY <1>1, PreNextCalls DEF OwnInv
  <2>2. found' = <<>> /\ DOMAIN found' = {}
    BY <1>1, <2>1
  <2> QED BY <2>2 DEF OwnInv
<1>2. CASE UNCHANGED lexVars
  BY <1>2, Zenon DEF OwnInv, OwnText, Accepted, Ended, Plain, lexVars, preVars
<1>3. CASE LexNext
  <2>1. at \in 0..(Len(text) + 1) /\ found \in Seq(Token) /\ TextOK /\ SyntaxOK
    BY DEF LInv, RequestInv
  <2>2. PICK tok, q : q = at' /\ Returns(at, tok, q) /\ found' = Append(found, tok)
    BY <1>3, <2>1, LexerReturns
  <2>3. UNCHANGED <<text, tokens>>
    BY <1>3, <2>1, LexerReturns DEF preVars
  <2>4. Ended(tokens)
    BY <1>3 DEF LexNext, NullRequest, EndOfPath, SlashAtEnd, IllegalSegment, LiteralSegment, AtSegment, Requested
  <2>5. (OwnText' <=> OwnText) /\ (Ended(tokens))'
    BY <2>3, <2>4 DEF OwnText, Accepted, Ended, Plain
  <2> DEFINE m == Len(found)
  <2>6. ASSUME OwnText, tok.type = "LITERAL"
        PROVE  m + 1 \in DOMAIN tokens /\ tok = tokens[m + 1]
    <3>1. PICK k \in 0..m : RequestRead(k, found, at)
      BY DEF LInv, RequestInv
    <3>2. m \in Nat /\ k \in Nat /\ k <= m
      BY <2>1, <3>1
    <3>3. k = m
      <4> SUFFICES ASSUME k # m PROVE FALSE
        OBVIOUS
      <4>1. m \in (k + 1)..m
        BY <3>2
      <4>2. found[m].type \in Stop /\ Returns(at, found[m], at)
        BY <3>1, <4>1 DEF RequestRead
      <4>3. found[m] = tok
        BY <2>1, <2>2, <4>2, ReturnsOnce
      <4> QED BY <2>6, <4>2, <4>3 DEF Stop
    <3>4. \A i \in 1..m : found[i].type = "LITERAL"
      BY <3>1, <3>3 DEF RequestRead
    <3>5. DOMAIN found = 1..m /\ SubSeq(found, 1, m) = found
      BY <2>1
    <3>6. Copied(found)
      BY <2>6, <3>4, <3>5 DEF Copied, OwnInv
    <3>7. at # 0
      BY <2>1, <2>2, <2>6, ReturnsType DEF Stop
    <3>8. Read(at) /\ Flat(found) = SubSeq(text, 1, at - 1) /\ at \in Nat
      <4>1. Flat(SubSeq(found, 1, m)) = SubSeq(text, 1, at - 1) /\ Read(at)
        <5> HIDE DEF m
        <5> QED BY <3>1, <3>3, <3>7 DEF RequestRead
      <4>2. at \in Nat
        BY <2>1
      <4>3. SubSeq(found, 1, m) = found
        BY <3>5
      <4> QED BY <4>1, <4>2, <4>3, Zenon
    <3> QED BY <2>1, <2>2, <2>6, <3>6, <3>8, OwnTextReadOn
  <2>7. ASSUME OwnText, NEW i \in DOMAIN found', found'[i].type = "LITERAL"
        PROVE  i \in DOMAIN tokens /\ found'[i] = tokens[i]
    <3>1. m \in Nat /\ DOMAIN found = 1..m
      BY <2>1
    <3>2. i \in 1..m \/ i = m + 1
      BY <2>1, <2>2, <2>7, <3>1
    <3>3. CASE i \in 1..m
      <4>1. found'[i] = found[i]
        BY <2>1, <2>2, <3>3
      <4> QED BY <2>7, <3>1, <3>3, <4>1 DEF OwnInv
    <3>4. CASE i = m + 1
      <4>1. found'[i] = tok
        BY <2>1, <2>2, <3>4
      <4> QED BY <2>6, <2>7, <3>4, <4>1
    <3> QED BY <3>2, <3>3, <3>4
  <2> QED BY <2>3, <2>5, <2>7 DEF OwnInv
<1> QED BY <1>1, <1>2, <1>3 DEF Next

(* And what stops the request is what stopped the pattern.                 *)
LEMMA OwnTextOfInv ==
    ASSUME LInv, PatternsInv, OwnInv
    PROVE  OwnTextMatches
<1> SUFFICES ASSUME Answered, OwnText PROVE Seen = tokens
  BY DEF OwnTextMatches, OwnText, Plain
<1>1. PICK lits, tok : Answer(lits, tok)
  BY AnswerIs
<1>2. /\ lits \in Seq(Token) /\ tok \in Token /\ tok.type \in Stop /\ Seen = Append(lits, tok)
      /\ Len(lits) < Len(found) /\ Flat(lits) = SubSeq(text, 1, at - 1) /\ Returns(at, tok, at)
      /\ (\A i \in DOMAIN lits : lits[i] = found[i] /\ lits[i].type = "LITERAL")
  BY <1>1 DEF Answer
<1>3. /\ found \in Seq(Token) /\ tokens \in Seq(Token) /\ at \in 0..(Len(text) + 1) /\ Len(text) \in Nat
      /\ \A i \in 1..(Len(tokens) - 1) : tokens[i].type \in Kinds
  BY TextLength DEF LInv, RequestInv, PatternsInv, PatternInv
<1> DEFINE m == Len(lits)
           len == Len(tokens)
<1>4. m \in Nat /\ len \in Nat /\ DOMAIN lits = 1..m /\ DOMAIN tokens = 1..len
  BY <1>2, <1>3
<1>5. Copied(lits)
  <2>1. \A i \in DOMAIN lits : i \in DOMAIN found
    BY <1>2, <1>3
  <2> QED BY <1>2, <2>1 DEF Copied, OwnInv
<1>6. Loads(text)
  <2>1. Ended(tokens) /\ tokens # <<>> /\ Last(tokens).type # "ILLEGAL"
    BY DEF OwnText, Accepted, Ended
  <2>2. len \in DOMAIN tokens
    BY <1>3, <2>1
  <2>3. cursor # 0
    BY <2>1, <2>2 DEF PatternsInv, PatternInv, Last
  <2>4. Straight(tokens)
    BY DEF OwnText, Plain, Straight
  <2> QED BY <2>1, <2>3, <2>4, LastReturned DEF PatternRead
<1>7. Read(at) /\ at \in Nat
  <2>1. at # 0
    BY <1>1, <1>6 DEF Answer, OwnText
  <2> QED BY <1>1, <1>3, <2>1 DEF Answer
<1>8. m + 1 \in 1..len /\ tok = tokens[m + 1]
  BY <1>2, <1>4, <1>5, <1>7, OwnTextReadOn
<1> DEFINE b == Append(lits, tok)
<1>9. b \in Seq(Token) /\ Len(b) = m + 1 /\ b[m + 1] = tok /\ \A i \in 1..m : b[i] = lits[i]
  BY <1>2
<1> HIDE DEF m, len, b
<1>10. m + 1 = len
  <2> SUFFICES ASSUME m + 1 # len PROVE FALSE
    OBVIOUS
  <2>1. m + 1 \in 1..(len - 1)
    BY <1>4, <1>8
  <2>2. tok.type \in Kinds
    BY <1>3, <1>8, <2>1 DEF len
  <2> QED BY <1>2, <2>2 DEF Kinds, Stop
<1>11. \A i \in 1..(m + 1) : b[i] = tokens[i]
  <2>1. \A i \in 1..(m + 1) : i \in 1..m \/ i = m + 1
    BY <1>4
  <2> QED BY <1>4, <1>5, <1>8, <1>9, <2>1 DEF Copied
<1>12. b = tokens
  BY <1>3, <1>9, <1>10, <1>11 DEF len
<1> QED BY <1>2, <1>12 DEF b

(* A pattern without parameters and wildcards is requested by its own text: *)
(* lexer_next returns token for token what prelexer_next has returned, so  *)
(* route_match comes to the route that was added for it.                   *)
THEOREM OwnTextsMatched == LexerSpec => []OwnTextMatches
<1>1. LexInit => OwnInv
  <2>1. ASSUME LexInit PROVE found = <<>> /\ DOMAIN found = {}
    BY <2>1 DEF LexInit
  <2> QED BY <2>1 DEF OwnInv
<1>2. LInv /\ PatternsInv /\ OwnInv /\ [Next]_lexVars => OwnInv'
  BY NextOwnInv
<1>3. LInv /\ PatternsInv /\ OwnInv => OwnTextMatches
  BY OwnTextOfInv
<1> QED BY <1>1, <1>2, <1>3, LexersInvariant, PrelexersInvariant, PTL DEF LexerSpec

-----------------------------------------------------------------------------
(* Part 5.                                                                 *)
-----------------------------------------------------------------------------

Block == [base : Nat, used : Nat, size : Nat]
Request == [size : Nat, align : Nat \ {0}]
Allocation == [block : Nat, offset : Nat, size : Nat, align : Nat \ {0}]

(* An allocation lies inside the used part of its block, at an aligned     *)
(* address; later ones in the block lie behind it.  That it is the used    *)
(* part, and not only the block, is what keeps the next allocation apart.  *)
Placed(bs, a) ==
    /\ a.block \in DOMAIN bs
    /\ a.offset + a.size <= bs[a.block].used
    /\ (bs[a.block].base + a.offset) % a.align = 0
Ordered(as) ==
    \A i, j \in DOMAIN as :
        (i < j /\ as[j].block = as[i].block) => as[j].offset >= as[i].offset + as[i].size

ArenaTypeOK ==
    /\ blocks \in Seq(Block) /\ request \in Request /\ allocs \in Seq(Allocation)
    /\ \A k \in DOMAIN blocks : blocks[k].used <= blocks[k].size

(* The last block may have been made for the call under way: it is unused  *)
(* and holds the allocation whatever the padding.                          *)
JustMade(k) ==
    /\ k = Len(blocks) /\ Pending
    /\ blocks[k].used = 0 /\ blocks[k].size >= request.size + request.align - 1
EachHolds == \A k \in DOMAIN blocks : Holds(k) \/ JustMade(k)

AInv ==
    /\ ArenaTypeOK
    /\ \A i \in DOMAIN allocs : Placed(blocks, allocs[i])
    /\ Ordered(allocs)
    /\ EachHolds

(* A step of an arena, whoever makes the calls.                            *)
ArenaStep ==
    \/ \E size \in Nat, align \in Nat \ {0} : Alloc(size, align)
    \/ Take \/ Extend \/ Fail \/ ArenaFree

-----------------------------------------------------------------------------
(* The padding that arena_alloc_aligned adds aligns the address.           *)
LEMMA PaddingAligns ==
    ASSUME NEW a \in Nat, NEW n \in Nat \ {0}
    PROVE  (-a) % n \in 0..(n - 1) /\ (a + ((-a) % n)) % n = 0
<1> DEFINE q == (-a) \div n
           r == (-a) % n
<1>1. q \in Int /\ r \in 0..(n - 1)
  OBVIOUS
<1>2. -a = n * q + r
  OBVIOUS
<1> HIDE DEF q, r
<1>3. a + r = n * (-q)
  BY <1>1, <1>2
<1>4. \A k \in Int : (n * k) % n = 0
  OBVIOUS
<1>5. (n * (-q)) % n = 0
  BY <1>1, <1>4
<1> QED BY <1>1, <1>3, <1>5 DEF r

LEMMA MaxOfTwo ==
    ASSUME NEW a \in Nat, NEW b \in Nat
    PROVE  Max({a, b}) \in Nat /\ Max({a, b}) >= a
<1>1. \E m \in {a, b} : \A y \in {a, b} : m >= y
  OBVIOUS
<1>2. Max({a, b}) \in {a, b} /\ \A y \in {a, b} : Max({a, b}) >= y
  BY <1>1, Zenon DEF Max
<1> QED BY <1>2

LEMMA InitAInv == ArenaInit => AInv
BY DEF ArenaInit, AInv, ArenaTypeOK, None, Request, Placed, Ordered, EachHolds

(* A block that was just made fits: no second is asked for.                *)
LEMMA JustMadeFits ==
    ASSUME AInv, NEW k \in DOMAIN blocks, JustMade(k)
    PROVE  ~NeedsBlock
<1> DEFINE b == blocks[k]
<1>1. /\ b \in Block /\ request \in Request /\ blocks # <<>> /\ b = Last(blocks)
      /\ b.used = 0 /\ b.size >= request.size + request.align - 1
  BY DEF AInv, ArenaTypeOK, JustMade, Last
<1>2. /\ b.base \in Nat /\ b.used \in Nat /\ b.size \in Nat
      /\ request.size \in Nat /\ request.align \in Nat \ {0}
  BY <1>1 DEF Block, Request
<1>3. Padding(b) \in 0..(request.align - 1)
  <2>1. b.base + b.used \in Nat
    BY <1>2
  <2>2. (-(b.base + b.used)) % request.align \in 0..(request.align - 1)
    BY <1>2, <2>1, PaddingAligns
  <2> QED BY <2>2 DEF Padding
<1> HIDE DEF b
<1>4. b.used + Total(b) <= b.size
  <2>1. Total(b) = Padding(b) + request.size
    BY DEF Total
  <2> QED BY <1>1, <1>2, <1>3, <2>1
<1> QED BY <1>1, <1>4 DEF NeedsBlock, Fits

LEMMA AllocKeeps ==
    ASSUME AInv, NEW size \in Nat, NEW align \in Nat \ {0}, Alloc(size, align)
    PROVE  AInv'
<1>1. ArenaTypeOK' /\ Ordered(allocs)' /\ \A i \in DOMAIN allocs' : Placed(blocks', allocs'[i])
  BY DEF AInv, ArenaTypeOK, Alloc, Request, Ordered
<1>2. EachHolds'
  BY DEF AInv, EachHolds, JustMade, Alloc, Holds
<1> QED BY <1>1, <1>2 DEF AInv

LEMMA TakeKeeps ==
    ASSUME AInv, Take
    PROVE  AInv'
<1> DEFINE n == Len(blocks)
           b == blocks[n]
           pad == Padding(b)
           u == b.used + Total(b)
           a == [block |-> n, offset |-> b.used + pad, size |-> request.size, align |-> request.align]
<1>1. /\ blocks \in Seq(Block) /\ request \in Request /\ allocs \in Seq(Allocation) /\ n \in DOMAIN blocks
      /\ b \in Block /\ b = Last(blocks)
  BY DEF AInv, ArenaTypeOK, Take, Last
<1>2. /\ u <= b.size
      /\ blocks' = [blocks EXCEPT ![n].used = u] /\ allocs' = Append(allocs, a) /\ request' = None
  BY <1>1, Zenon DEF Take, Fits
<1>3. /\ b.base \in Nat /\ b.used \in Nat /\ b.size \in Nat
      /\ request.size \in Nat /\ request.align \in Nat \ {0}
  BY <1>1 DEF Block, Request
<1>4. pad \in Nat /\ (b.base + b.used + pad) % request.align = 0
  <2>1. b.base + b.used \in Nat
    BY <1>3
  <2>2. /\ (-(b.base + b.used)) % request.align \in 0..(request.align - 1)
        /\ (b.base + b.used + ((-(b.base + b.used)) % request.align)) % request.align = 0
    BY <1>3, <2>1, PaddingAligns
  <2> QED BY <2>2 DEF Padding
<1>5. Total(b) = pad + request.size
  BY DEF Total
<1> HIDE DEF pad
<1>6. u \in Nat /\ u = b.used + pad + request.size
  BY <1>3, <1>4, <1>5
<1> HIDE DEF u, b, n
<1> DEFINE c == [b EXCEPT !.used = u]
<1>7. c \in Block /\ c.base = b.base /\ c.size = b.size /\ c.used = u
  BY <1>1, <1>6 DEF Block
<1>8. blocks' = [blocks EXCEPT ![n] = c]
  BY <1>2, Zenon DEF b
<1>9. /\ a \in Allocation /\ a.block = n /\ a.offset = b.used + pad
      /\ a.size = request.size /\ a.align = request.align
  BY <1>1, <1>3, <1>4 DEF Allocation, n
<1> HIDE DEF c, a
<1>10. blocks' \in Seq(Block) /\ DOMAIN blocks' = DOMAIN blocks
  BY <1>1, <1>7, <1>8
<1>11. \A k \in DOMAIN blocks : blocks'[k] = IF k = n THEN c ELSE blocks[k]
  BY <1>1, <1>8
<1>12. \A k \in DOMAIN blocks : blocks[k].used \in Nat /\ blocks[k].base \in Nat
  <2>1. \A k \in DOMAIN blocks : blocks[k] \in Block
    BY <1>1
  <2> QED BY <2>1 DEF Block
<1> DEFINE len == Len(allocs)
<1>13. /\ len \in Nat /\ DOMAIN allocs = 1..len /\ allocs' \in Seq(Allocation) /\ DOMAIN allocs' = 1..(len + 1)
       /\ allocs'[len + 1] = a /\ \A i \in 1..len : allocs'[i] = allocs[i] /\ allocs[i] \in Allocation
  BY <1>1, <1>2, <1>9
<1> HIDE DEF len
<1>14. \A i \in 1..len : Placed(blocks, allocs[i])
  BY <1>13 DEF AInv
<1>15. ArenaTypeOK'
  <2>1. \A k \in DOMAIN blocks' : blocks'[k].used <= blocks'[k].size
    BY <1>2, <1>7, <1>10, <1>11 DEF AInv, ArenaTypeOK
  <2> QED BY <1>2, <1>10, <1>13, <2>1 DEF ArenaTypeOK, None, Request
<1>16. ASSUME NEW i \in 1..len PROVE Placed(blocks', allocs[i])
  <2> DEFINE o == allocs[i]
  <2>1. o.block \in DOMAIN blocks /\ o.offset + o.size <= blocks[o.block].used
        /\ (blocks[o.block].base + o.offset) % o.align = 0
    BY <1>14 DEF Placed
  <2>2. o \in Allocation
    BY <1>13
  <2> HIDE DEF o
  <2>3. blocks'[o.block].base = blocks[o.block].base /\ blocks[o.block].used <= blocks'[o.block].used
    BY <1>3, <1>4, <1>6, <1>7, <1>11, <1>12, <2>1 DEF b
  <2>4. blocks'[o.block].used \in Nat
    BY <1>6, <1>7, <1>11, <1>12, <2>1
  <2>5. o.offset + o.size <= blocks'[o.block].used
    <3>1. o.offset + o.size \in Nat
      BY <2>2 DEF Allocation
    <3>2. \A x, y, z \in Nat : x <= y /\ y <= z => x <= z
      OBVIOUS
    <3> QED BY <1>12, <2>1, <2>3, <2>4, <3>1, <3>2
  <2> QED BY <1>10, <2>1, <2>3, <2>5 DEF Placed, o
<1>17. Placed(blocks', a)
  <2>1. blocks'[n].base = b.base /\ blocks'[n].used = u
    BY <1>1, <1>7, <1>11
  <2>2. (b.base + (b.used + pad)) % request.align = 0
    <3>1. b.base + (b.used + pad) = b.base + b.used + pad
      BY <1>3, <1>4
    <3> QED BY <1>4, <3>1
  <2> QED BY <1>1, <1>3, <1>4, <1>6, <1>9, <1>10, <2>1, <2>2 DEF Placed
<1>18. \A i \in 1..(len + 1) : Placed(blocks', allocs'[i])
  BY <1>13, <1>16, <1>17
<1>19. Ordered(allocs')
  <2> SUFFICES ASSUME NEW i \in 1..(len + 1), NEW j \in 1..(len + 1), i < j, allocs'[j].block = allocs'[i].block
               PROVE  allocs'[j].offset >= allocs'[i].offset + allocs'[i].size
    BY <1>13 DEF Ordered
  <2>1. i \in 1..len /\ allocs'[i] = allocs[i] /\ allocs[i].offset \in Nat /\ allocs[i].size \in Nat
    <3>1. i \in 1..len
      BY <1>13
    <3>2. allocs[i] \in Allocation
      BY <1>13, <3>1
    <3> QED BY <1>13, <3>1, <3>2 DEF Allocation
  <2>2. CASE j \in 1..len
    BY <1>13, <2>1, <2>2 DEF AInv, Ordered
  <2>3. CASE j = len + 1
    <3>1. allocs[i].block = n /\ a.offset = b.used + pad
      BY <1>9, <1>13, <2>1, <2>3
    <3>2. allocs[i].offset + allocs[i].size <= b.used
      BY <1>14, <2>1, <3>1 DEF Placed, b
    <3>3. \A x, y, z \in Nat : x <= y => y + z >= x
      OBVIOUS
    <3>4. allocs[i].offset + allocs[i].size \in Nat
      BY <2>1
    <3> QED BY <1>3, <1>4, <1>13, <2>1, <2>3, <3>1, <3>2, <3>3, <3>4
  <2> QED BY <1>13, <2>2, <2>3
<1>20. EachHolds'
  <2> SUFFICES ASSUME NEW k \in DOMAIN blocks PROVE Holds(k)'
    BY <1>10 DEF EachHolds
  <2>1. CASE k = n
    <3>1. len + 1 \in 1..(len + 1)
      BY <1>13
    <3> QED BY <1>9, <1>13, <2>1, <3>1 DEF Holds
  <2>2. CASE k # n
    <3>1. Holds(k)
      BY <2>2 DEF AInv, EachHolds, JustMade, n
    <3>2. \A i \in 1..len : i \in 1..(len + 1)
      BY <1>13
    <3> QED BY <1>13, <3>1, <3>2 DEF Holds
  <2> QED BY <2>1, <2>2
<1> QED BY <1>13, <1>15, <1>18, <1>19, <1>20 DEF AInv

LEMMA ExtendKeeps ==
    ASSUME AInv, Extend
    PROVE  AInv'
<1> PICK base0 \in Bases : blocks' = Append(blocks, [base |-> base0, used |-> 0, size |-> NewSize])
  BY DEF Extend
<1> DEFINE b == [base |-> base0, used |-> 0, size |-> NewSize]
           n == Len(blocks)
<1>1. /\ blocks \in Seq(Block) /\ request \in Request /\ request.size \in Nat /\ request.align \in Nat \ {0}
      /\ UNCHANGED <<request, allocs>> /\ n \in Nat
  BY DEF AInv, ArenaTypeOK, Request, Extend
<1>2. NewSize \in Nat /\ NewSize >= request.size + request.align - 1
  <2>1. request.size + request.align - 1 \in Nat /\ BlockSize \in Nat
    BY <1>1, ArenaAssumption
  <2> QED BY <2>1, MaxOfTwo DEF NewSize
<1>3. b \in Block /\ b.used <= b.size /\ b.used = 0 /\ b.size = NewSize
  BY <1>2, ArenaAssumption DEF Block
<1> HIDE DEF b, n
<1>4. /\ blocks' \in Seq(Block) /\ DOMAIN blocks = 1..n /\ DOMAIN blocks' = 1..(n + 1)
      /\ blocks'[n + 1] = b /\ \A k \in 1..n : blocks'[k] = blocks[k]
  BY <1>1, <1>3 DEF b, n
<1>5. ArenaTypeOK'
  BY <1>1, <1>3, <1>4 DEF AInv, ArenaTypeOK
<1>6. \A i \in DOMAIN allocs : Placed(blocks', allocs[i])
  BY <1>1, <1>4 DEF AInv, Placed
<1>7. EachHolds'
  <2> SUFFICES ASSUME NEW k \in 1..(n + 1) PROVE Holds(k)' \/ JustMade(k)'
    BY <1>4 DEF EachHolds
  <2>1. CASE k = n + 1
    <3>1. Len(blocks') = n + 1 /\ Pending'
      BY <1>1, <1>4 DEF Extend, NeedsBlock, Pending
    <3>2. blocks'[n + 1].used = 0 /\ blocks'[n + 1].size = NewSize
      BY <1>3, <1>4
    <3> QED BY <1>1, <1>2, <2>1, <3>1, <3>2 DEF JustMade
  <2>2. CASE k # n + 1
    <3>1. k \in DOMAIN blocks
      BY <1>1, <1>4, <2>2
    <3>2. Holds(k)
      BY <3>1, JustMadeFits DEF AInv, EachHolds, Extend
    <3> QED BY <1>1, <3>2 DEF Holds
  <2> QED BY <2>1, <2>2
<1> QED BY <1>1, <1>5, <1>6, <1>7 DEF AInv

LEMMA OthersKeep ==
    ASSUME AInv, Fail \/ ArenaFree \/ UNCHANGED arenaVars
    PROVE  AInv'
<1>1. CASE Fail
  <2>1. EachHolds'
    BY <1>1, JustMadeFits DEF AInv, EachHolds, Fail, Holds
  <2> QED BY <1>1, <2>1 DEF AInv, ArenaTypeOK, Fail, None, Request, Ordered
<1>2. CASE ArenaFree
  BY <1>2 DEF AInv, ArenaTypeOK, ArenaFree, Placed, Ordered, EachHolds
<1>3. CASE UNCHANGED arenaVars
  <2>1. EachHolds'
    BY <1>3 DEF AInv, EachHolds, JustMade, Holds, Pending, arenaVars
  <2> QED BY <1>3, <2>1 DEF AInv, ArenaTypeOK, arenaVars, Ordered
<1> QED BY <1>1, <1>2, <1>3

LEMMA NextAInv == AInv /\ [ArenaStep]_arenaVars => AInv'
BY AllocKeeps, TakeKeeps, ExtendKeeps, OthersKeep DEF ArenaStep

LEMMA AInvApart == AInv => AllocationsApart
<1> SUFFICES ASSUME AInv PROVE AllocationsApart
  OBVIOUS
<1>1. NoBlockInVain
  BY DEF AInv, EachHolds, JustMade, NoBlockInVain
<1> SUFFICES ASSUME NEW i \in DOMAIN allocs
             PROVE  LET a == allocs[i]
                    IN  /\ Inside(a) /\ (blocks[a.block].base + a.offset) % a.align = 0
                        /\ \A j \in DOMAIN allocs : (i < j /\ allocs[j].block = a.block) =>
                               allocs[j].offset >= a.offset + a.size
  BY <1>1 DEF AllocationsApart
<1>2. Placed(blocks, allocs[i]) /\ Ordered(allocs) /\ allocs[i] \in Allocation /\ blocks \in Seq(Block)
  BY DEF AInv, ArenaTypeOK
<1>3. blocks[allocs[i].block] \in Block /\ blocks[allocs[i].block].used <= blocks[allocs[i].block].size
  BY <1>2 DEF AInv, ArenaTypeOK, Placed
<1>4. Inside(allocs[i])
  <2>1. \A x, y, z \in Nat : x <= y /\ y <= z => x <= z
    OBVIOUS
  <2>2. allocs[i].offset + allocs[i].size \in Nat
    BY <1>2 DEF Allocation
  <2> QED BY <1>2, <1>3, <2>1, <2>2 DEF Inside, Placed, Block
<1> QED BY <1>2, <1>4 DEF Placed, Ordered

(* What arena_alloc_aligned returns to a program is aligned, lies inside   *)
(* its block and overlaps nothing returned before, and a block that it     *)
(* makes holds what it is made for, at every size and alignment, wherever  *)
(* malloc puts the blocks and whenever it fails.                           *)
THEOREM AllocationsAreApart == ArenaSpec => []AllocationsApart
<1>1. ArenaNext => ArenaStep
  BY CallsAssumption DEF ArenaNext, ArenaStep
<1>2. AInv /\ [ArenaNext]_arenaVars => AInv'
  BY <1>1, NextAInv
<1> QED BY <1>2, InitAInv, AInvApart, PTL DEF ArenaSpec

-----------------------------------------------------------------------------
(* The first n slots hold allocations, with a string of their own in each. *)
Filled(slots, strings, n) ==
    /\ \A i \in 1..n : slots[i] \in DOMAIN strings
    /\ \A i, j \in 1..n : strings[slots[i]] = strings[slots[j]] => i = j

(* While symbol_append waits for the arena its new slot is counted and not *)
(* filled, and the string it is for is in no other; after a failure the    *)
(* slot stays so, and nobody reads the table again.                        *)
SlotInv ==
    /\ base \in Seq(Nat) /\ capacity \in Nat /\ Len(base) <= capacity
    /\ memory \in Seq(Strings) /\ Len(memory) = Len(allocs)
    /\ wanted \in Strings \cup {NoString} /\ errors \in BOOLEAN
    /\ Appending <=> Pending
    /\ Appending => /\ base # <<>> /\ ~errors /\ region = <<>>
                    /\ Filled(base, memory, Len(base) - 1)
                    /\ \A i \in 1..(Len(base) - 1) : memory[base[i]] # wanted
    /\ ~Appending /\ ~errors => Filled(base, memory, Len(base))

TInv == AInv /\ SlotInv

(* A step of the table is a step of its arena, or none.                    *)
LEMMA ArenaSteps == [SymbolsNext]_symbolVars => [ArenaStep]_arenaVars
<1> SUFFICES ASSUME SymbolsNext, ~UNCHANGED arenaVars PROVE ArenaStep
  BY DEF symbolVars, arenaVars
<1>1. ASSUME NEW s \in Strings, AppendSlot(s) PROVE ArenaStep
  <2>1. Len(s) + 1 \in Nat /\ 1 \in Nat \ {0}
    BY SymbolsAssumption
  <2> QED BY <1>1, <2>1 DEF AppendSlot, ArenaStep
<1> QED
  BY <1>1 DEF SymbolsNext, AppendRefused, AppendDuplicate, NoSlot, ArenaGrows, Fill, NoRoom, Compile, FreeTable,
              symbolVars, ArenaStep

LEMMA InitTInv == SymbolsInit => TInv
<1> SUFFICES ASSUME SymbolsInit PROVE TInv
  OBVIOUS
<1>1. ArenaInit /\ base = <<>> /\ capacity = 0 /\ memory = <<>> /\ wanted = NoString /\ errors = FALSE /\ region = <<>>
  BY DEF SymbolsInit
<1>2. AInv
  BY <1>1, InitAInv
<1>3. allocs = <<>> /\ ~Appending /\ ~Pending
  BY <1>1 DEF ArenaInit, Appending, Pending
<1>4. Filled(base, memory, Len(base))
  BY <1>1 DEF Filled
<1>5. /\ base \in Seq(Nat) /\ memory \in Seq(Strings) /\ Len(memory) = Len(allocs)
      /\ capacity \in Nat /\ Len(base) <= capacity
  <2>1. Len(base) = 0 /\ 0 <= 0
    BY <1>1
  <2> QED BY <1>1, <1>3, <2>1
<1>6. SlotInv
  <2>1. wanted \in Strings \cup {NoString} /\ errors \in BOOLEAN
    BY <1>1
  <2> QED BY <1>3, <1>4, <1>5, <2>1 DEF SlotInv
<1> QED BY <1>2, <1>6 DEF TInv

LEMMA AppendSlotKeeps ==
    ASSUME TInv, NEW s \in Strings, AppendSlot(s)
    PROVE  SlotInv'
<1> DEFINE n == Len(base)
<1>1. /\ base \in Seq(Nat) /\ n \in Nat /\ capacity \in Nat /\ n <= capacity /\ ~Appending /\ ~errors /\ region = <<>>
      /\ Filled(base, memory, n) /\ ~Known(s) /\ s # NoString
      /\ base' = Append(base, 0) /\ wanted' = s /\ UNCHANGED <<memory, errors, region, allocs>>
      /\ request' = [size |-> Len(s) + 1, align |-> 1]
  BY SymbolsAssumption DEF TInv, SlotInv, AppendSlot, Open, Alloc, NoString
<1>2. /\ base' \in Seq(Nat) /\ Len(base') = n + 1 /\ \A i \in 1..n : base'[i] = base[i]
  BY <1>1
<1>3. capacity' \in Nat /\ n + 1 <= capacity'
  <2>1. capacity' = IF n + 1 <= capacity THEN capacity ELSE IF capacity = 0 THEN Capacity0 ELSE capacity * 2
    BY DEF AppendSlot
  <2> HIDE DEF n
  <2> QED BY <1>1, <2>1, SymbolsAssumption
<1>4. Len(base') - 1 = n /\ base' # <<>>
  BY <1>1, <1>2
<1> HIDE DEF n
<1>5. Filled(base', memory', n)
  BY <1>1, <1>2 DEF Filled
<1>6. \A i \in 1..n : memory'[base'[i]] # wanted'
  BY <1>1, <1>2 DEF Known, n
<1>7. Appending' /\ Pending'
  <2>1. Len(s) + 1 # 0
    BY SymbolsAssumption
  <2> QED BY <1>1, <2>1 DEF Appending, Pending, None
<1> QED BY <1>1, <1>2, <1>3, <1>4, <1>5, <1>6, <1>7 DEF TInv, SlotInv

LEMMA FillKeeps ==
    ASSUME TInv, Fill
    PROVE  SlotInv'
<1> DEFINE n == Len(base)
           m == Len(memory)
<1>1. /\ base \in Seq(Nat) /\ memory \in Seq(Strings) /\ allocs \in Seq(Allocation)
      /\ Appending /\ base # <<>> /\ ~errors /\ m = Len(allocs) /\ wanted \in Strings
      /\ Filled(base, memory, n - 1) /\ \A i \in 1..(n - 1) : memory[base[i]] # wanted
  BY DEF TInv, AInv, ArenaTypeOK, SlotInv, Fill, Take, Appending
<1>2. /\ base' = [base EXCEPT ![n] = m + 1] /\ memory' = Append(memory, wanted) /\ wanted' = NoString
      /\ UNCHANGED <<capacity, errors, region>> /\ request' = None
      /\ \E a : allocs' = Append(allocs, a)
  BY <1>1 DEF Fill, Take
<1>3. n \in Nat /\ n >= 1 /\ m \in Nat /\ DOMAIN base = 1..n /\ DOMAIN memory = 1..m
  BY <1>1
<1>4. /\ base' \in Seq(Nat) /\ Len(base') = n /\ base'[n] = m + 1 /\ \A i \in 1..(n - 1) : base'[i] = base[i]
  <2>1. n \in DOMAIN base /\ m + 1 \in Nat /\ \A i \in 1..(n - 1) : i \in DOMAIN base /\ i # n
    <3> HIDE DEF n, m
    <3> QED BY <1>3
  <2> HIDE DEF n, m
  <2>2. base' \in Seq(Nat) /\ Len(base') = Len(base)
    BY <1>1, <1>2, <2>1
  <2> QED BY <1>1, <1>2, <2>1, <2>2 DEF n
<1>5. /\ memory' \in Seq(Strings) /\ Len(memory') = m + 1 /\ Len(allocs') = m + 1 /\ DOMAIN memory' = 1..(m + 1)
      /\ memory'[m + 1] = wanted /\ \A k \in 1..m : memory'[k] = memory[k]
  <2>1. Len(allocs') = m + 1
    BY <1>1, <1>2, <1>3
  <2> QED BY <1>1, <1>2, <1>3, <2>1
<1> HIDE DEF n, m
<1>6. \A i \in 1..n : i = n \/ i \in 1..(n - 1)
  BY <1>3
<1>7. \A i \in 1..(n - 1) : base[i] \in 1..m /\ memory'[base'[i]] = memory[base[i]] /\ memory[base[i]] # wanted
  BY <1>1, <1>3, <1>4, <1>5 DEF Filled
<1>8. memory'[base'[n]] = wanted
  BY <1>4, <1>5
<1>9. Filled(base', memory', n)
  <2>1. \A i \in 1..n : base'[i] \in DOMAIN memory'
    <3>1. m + 1 \in 1..(m + 1) /\ \A k \in 1..m : k \in 1..(m + 1)
      BY <1>3
    <3> QED BY <1>4, <1>5, <1>6, <1>7, <3>1
  <2>2. \A i, j \in 1..n : memory'[base'[i]] = memory'[base'[j]] => i = j
    <3>1. \A i, j \in 1..(n - 1) : memory[base[i]] = memory[base[j]] => i = j
      BY <1>1 DEF Filled
    <3> QED BY <1>6, <1>7, <1>8, <3>1
  <2> QED BY <2>1, <2>2 DEF Filled
<1>10. ~Appending' /\ ~Pending'
  BY <1>2 DEF Appending, Pending
<1> QED BY <1>2, <1>4, <1>5, <1>9, <1>10 DEF TInv, SlotInv, n

LEMMA NextTInv == TInv /\ [SymbolsNext]_symbolVars => TInv'
<1> SUFFICES ASSUME TInv, [SymbolsNext]_symbolVars PROVE TInv'
  OBVIOUS
<1>1. AInv'
  BY ArenaSteps, NextAInv DEF TInv
<1> SUFFICES SlotInv'
  BY <1>1 DEF TInv
<1>2. CASE \E s \in Strings : AppendRefused(s) \/ NoSlot(s)
  BY <1>2 DEF TInv, SlotInv, AppendRefused, NoSlot, Open, arenaVars, Appending, Pending
<1>3. CASE UNCHANGED symbolVars
  BY <1>3 DEF TInv, SlotInv, symbolVars, arenaVars, Appending, Pending
<1>4. CASE \E s \in Strings : AppendDuplicate(s)
  BY <1>3, <1>4 DEF AppendDuplicate
<1>5. CASE \E s \in Strings : AppendSlot(s)
  BY <1>5, AppendSlotKeeps
<1>6. CASE ArenaGrows
  BY <1>6 DEF TInv, SlotInv, ArenaGrows, Extend, Appending, Pending
<1>7. CASE Fill
  BY <1>7, FillKeeps
<1>8. CASE NoRoom
  BY <1>8 DEF TInv, SlotInv, NoRoom, Fail, Appending, Pending
<1>9. CASE Compile
  BY <1>9 DEF TInv, SlotInv, Compile, Open, arenaVars, Appending, Pending
<1>10. CASE FreeTable
  BY <1>10 DEF TInv, SlotInv, FreeTable, ArenaFree, Filled, Appending, Pending
<1> QED BY <1>2, <1>3, <1>4, <1>5, <1>6, <1>7, <1>8, <1>9, <1>10 DEF SymbolsNext

LEMMA TInvFilled == TInv => SlotsFilled
<1> SUFFICES ASSUME TInv PROVE SlotsFilled
  OBVIOUS
<1>1. Len(base) <= capacity /\ base \in Seq(Nat) /\ memory \in Seq(Strings)
  BY DEF TInv, SlotInv
<1>2. ASSUME Open
      PROVE  /\ \A i \in DOMAIN base : base[i] # 0
             /\ IsInjective([i \in DOMAIN base |-> memory[base[i]]])
  <2>1. Filled(base, memory, Len(base))
    BY <1>2 DEF TInv, SlotInv, Open
  <2> QED BY <1>1, <2>1 DEF Filled, IsInjective
<1> QED BY <1>1, <1>2 DEF SlotsFilled

(* Every slot that a later call can read has been filled, with a string of *)
(* its own: symbol_append reads them all for duplicates, symbol_compile to *)
(* sort them, and each is counted before the arena is asked for its string.*)
THEOREM SlotsAreFilled == SymbolsSpec => []SlotsFilled
BY InitTInv, NextTInv, TInvFilled, PTL DEF SymbolsSpec

(* The strings of a table are apart in its arena.                          *)
THEOREM StringsAreApart == SymbolsSpec => []AllocationsApart
<1>1. TInv => AllocationsApart
  BY AInvApart DEF TInv
<1> QED BY <1>1, InitTInv, NextTInv, PTL DEF SymbolsSpec

-----------------------------------------------------------------------------
(* Part 6.                                                                 *)
-----------------------------------------------------------------------------

(* Strings as the comparisons see them: beyond its end a string reads 0.   *)
Bytes == Seq(1..255)

(* What a string reads at each place.                                      *)
LEMMA ByteIs ==
    ASSUME NEW a, a \in Bytes
    PROVE  /\ Len(a) \in Nat /\ \A i : Byte(a, i) \in Nat
           /\ \A i \in 1..Len(a) : Byte(a, i) = a[i] /\ Byte(a, i) > 0
           /\ \A i : i \notin 1..Len(a) => Byte(a, i) = 0
<1>1. Len(a) \in Nat /\ DOMAIN a = 1..Len(a) /\ \A i \in 1..Len(a) : a[i] \in 1..255
  <2>1. a \in Seq(1..255)
    BY DEF Bytes
  <2>2. Len(a) \in Nat /\ DOMAIN a = 1..Len(a)
    BY <2>1
  <2>3. \A i \in DOMAIN a : a[i] \in 1..255
    BY <2>1, <2>2, ElementOfSeq
  <2> QED
    BY <2>2, <2>3
<1>2. \A i \in 1..Len(a) : Byte(a, i) = a[i] /\ a[i] \in 1..255
  BY <1>1 DEF Byte
<1>3. \A i : i \notin 1..Len(a) => Byte(a, i) = 0
  BY <1>1 DEF Byte
<1>4. \A i \in 1..Len(a) : Byte(a, i) \in Nat /\ Byte(a, i) > 0
  <2> TAKE i \in 1..Len(a)
  <2> DEFINE n == a[i]
  <2>1. n \in 1..255 /\ Byte(a, i) = n
    BY <1>2
  <2> HIDE DEF n
  <2>2. n \in Nat /\ n > 0
    BY <2>1
  <2> QED
    BY <2>1, <2>2
<1>5. \A i : Byte(a, i) \in Nat
  <2> TAKE i
  <2>1. CASE i \in 1..Len(a)
    BY <1>4, <2>1
  <2>2. CASE i \notin 1..Len(a)
    <3>1. Byte(a, i) = 0
      BY <1>3, <2>2
    <3> QED
      BY <3>1
  <2> QED
    BY <2>1, <2>2
<1> QED
  BY <1>1, <1>2, <1>3, <1>4, <1>5

(* Where two strings differ first, or where both end.                      *)
FirstDifference(a, b, d) ==
    /\ d \in 1..(Len(a) + 1)
    /\ \A i \in 1..(d - 1) : Byte(a, i) = Byte(b, i)
    /\ Byte(a, d) # Byte(b, d) \/ (a = b /\ d = Len(a) + 1)

(* Strings that read the same are the same.                                *)
LEMMA SameBytes ==
    ASSUME NEW a, a \in Bytes, NEW b, b \in Bytes, \A i \in 1..(Len(a) + 1) : Byte(a, i) = Byte(b, i)
    PROVE  a = b
<1>1. /\ Len(a) \in Nat /\ Len(b) \in Nat /\ DOMAIN a = 1..Len(a) /\ DOMAIN b = 1..Len(b)
      /\ a = [i \in 1..Len(a) |-> a[i]] /\ b = [i \in 1..Len(b) |-> b[i]]
  BY DEF Bytes
<1>2. ~(Len(a) + 1 \in 1..Len(b))
  <2>1. Byte(a, Len(a) + 1) = 0 /\ Len(a) + 1 \in 1..(Len(a) + 1)
    BY <1>1, ByteIs
  <2>2. Byte(b, Len(a) + 1) = 0
    BY <2>1
  <2> QED
    BY <2>2, ByteIs
<1>3. ASSUME NEW i \in 1..Len(a) PROVE i \in 1..Len(b) /\ a[i] = b[i]
  <2>1. Byte(a, i) = a[i] /\ Byte(a, i) > 0 /\ i \in 1..(Len(a) + 1) /\ i \in Nat
    BY <1>1, ByteIs
  <2>2. Byte(b, i) = Byte(a, i) /\ Byte(b, i) # 0
    BY <2>1, ByteIs, <1>1
  <2>3. i \in 1..Len(b)
    BY <2>1, <2>2, ByteIs
  <2> QED
    BY <2>1, <2>2, <2>3, ByteIs
<1>4. Len(a) = Len(b)
  <2>1. Len(b) <= Len(a)
    BY <1>1, <1>2
  <2>2. Len(a) <= Len(b)
    <3>1. CASE Len(a) = 0
      BY <1>1, <3>1
    <3>2. CASE Len(a) # 0
      <4>1. Len(a) \in 1..Len(a)
        BY <1>1, <3>2
      <4> QED
        BY <1>1, <1>3, <4>1
    <3> QED
      BY <3>1, <3>2
  <2>3. \A x, y \in Nat : x <= y /\ y <= x => y = x
    OBVIOUS
  <2> QED
    BY <1>1, <2>1, <2>2, <2>3, Zenon
<1>5. [i \in 1..Len(a) |-> a[i]] = [i \in 1..Len(b) |-> b[i]]
  BY <1>3, <1>4
<1> QED
  BY <1>1, <1>5

(* Where strcmp stops: it is the first difference.                         *)
LEMMA DifferIs ==
    ASSUME NEW a, a \in Bytes, NEW b, b \in Bytes
    PROVE  FirstDifference(a, b, Differ(a, b))
<1> DEFINE S == {i \in 1..(Len(a) + 1) : i > Len(a) \/ Byte(a, i) # Byte(b, i)}
<1>1. Len(a) \in Nat /\ S \subseteq Nat /\ Len(a) + 1 \in S
  BY ByteIs
<1>2. PICK d \in S : \A k \in S : d <= k
  <2> HIDE DEF S
  <2>1. S # {}
    BY <1>1
  <2> QED
    BY <1>1, <2>1, LeastNat
<1>3. Min(S) = d
  <2> HIDE DEF S
  <2>1. \A x \in S : (\A y \in S : x <= y) => x = d
    BY <1>1, <1>2
  <2> QED
    BY <1>2, <2>1 DEF Min
<1>4. Differ(a, b) = d
  BY <1>3 DEF Differ
<1>5. d \in 1..(Len(a) + 1) /\ \A i \in 1..(d - 1) : Byte(a, i) = Byte(b, i)
  <2>1. d \in 1..(Len(a) + 1)
    BY <1>2
  <2>2. ASSUME NEW i \in 1..(d - 1) PROVE Byte(a, i) = Byte(b, i)
    <3>1. i \in 1..(Len(a) + 1) /\ ~(d <= i)
      BY <1>1, <2>1
    <3>2. i \notin S
      BY <1>2, <3>1
    <3> QED
      BY <3>1, <3>2
  <2> QED
    BY <2>1, <2>2
<1>6. ASSUME Byte(a, d) = Byte(b, d) PROVE a = b /\ d = Len(a) + 1
  <2>1. d > Len(a)
    BY <1>2, <1>6
  <2>2. d = Len(a) + 1
    BY <1>1, <1>5, <2>1
  <2>3. \A i \in 1..(Len(a) + 1) : Byte(a, i) = Byte(b, i)
    <3>1. \A i \in 1..(Len(a) + 1) : i = d \/ i \in 1..(d - 1)
      BY <1>1, <2>2
    <3> QED
      BY <1>5, <1>6, <3>1
  <2> QED
    BY <2>2, <2>3, SameBytes
<1> QED
  BY <1>4, <1>5, <1>6 DEF FirstDifference

(* The first difference is where strcmp stops.                             *)
LEMMA DifferAt ==
    ASSUME NEW a, a \in Bytes, NEW b, b \in Bytes, NEW e, e \in Nat, e >= 1,
           \A i \in 1..(e - 1) : Byte(a, i) = Byte(b, i), Byte(a, e) # Byte(b, e)
    PROVE  Differ(a, b) = e
<1> DEFINE d == Differ(a, b)
<1>1. FirstDifference(a, b, d)
  BY DifferIs
<1>2. d \in 1..(Len(a) + 1) /\ Len(a) \in Nat /\ d \in Nat
  BY <1>1, ByteIs DEF FirstDifference
<1> HIDE DEF d
<1>3. ~(e < d)
  <2>1. e < d => e \in 1..(d - 1)
    BY <1>2
  <2> QED
    BY <1>1, <2>1 DEF FirstDifference
<1>4. a # b
  OBVIOUS
<1>5. ~(d < e)
  <2>1. d < e => d \in 1..(e - 1)
    BY <1>2
  <2> QED
    BY <1>1, <1>4, <2>1 DEF FirstDifference
<1> QED
  BY <1>2, <1>3, <1>5 DEF d

(* It is the same place from both sides.                                   *)
LEMMA DifferSymmetric ==
    ASSUME NEW a, a \in Bytes, NEW b, b \in Bytes, a # b
    PROVE  Differ(b, a) = Differ(a, b) /\ Byte(a, Differ(a, b)) # Byte(b, Differ(a, b))
<1> DEFINE d == Differ(a, b)
<1>1. FirstDifference(a, b, d)
  BY DifferIs
<1>2. Byte(b, d) # Byte(a, d) /\ \A i \in 1..(d - 1) : Byte(b, i) = Byte(a, i)
  BY <1>1 DEF FirstDifference
<1>3. d \in Nat /\ d >= 1
  BY <1>1, ByteIs DEF FirstDifference
<1> HIDE DEF d
<1>4. Differ(b, a) = d
  BY <1>2, <1>3, DifferAt
<1> QED
  BY <1>2, <1>4 DEF d

(* strcmp orders strings strictly and totally.                             *)
LEMMA PrecedesOrders ==
    ASSUME NEW a, a \in Bytes, NEW b, b \in Bytes
    PROVE  /\ ~Precedes(a, a)
           /\ a # b => Precedes(a, b) \/ Precedes(b, a)
           /\ \A c \in Bytes : Precedes(a, b) /\ Precedes(b, c) => Precedes(a, c)
<1>1. ~Precedes(a, a)
  <2>1. Differ(a, a) \in Nat
    BY DifferIs, ByteIs DEF FirstDifference
  <2> QED
    BY <2>1, ByteIs DEF Precedes
<1>2. ASSUME a # b PROVE Precedes(a, b) \/ Precedes(b, a)
  <2>1. Differ(a, b) \in Nat
    BY DifferIs, ByteIs DEF FirstDifference
  <2>2. Byte(a, Differ(a, b)) \in Nat /\ Byte(b, Differ(a, b)) \in Nat
    BY <2>1, ByteIs
  <2> QED
    BY <1>2, <2>2, DifferSymmetric DEF Precedes
<1>3. ASSUME NEW c \in Bytes, Precedes(a, b), Precedes(b, c) PROVE Precedes(a, c)
  <2> DEFINE d == Differ(a, b)
             e == Differ(b, c)
             f == IF d <= e THEN d ELSE e
  <2>0. FirstDifference(a, b, d) /\ FirstDifference(b, c, e)
    BY DifferIs
  <2>2. Byte(a, d) < Byte(b, d) /\ Byte(b, e) < Byte(c, e)
    BY <1>3 DEF Precedes
  <2> HIDE DEF d, e
  <2>1. FirstDifference(a, b, d) /\ FirstDifference(b, c, e) /\ d \in Nat /\ d >= 1 /\ e \in Nat /\ e >= 1
    BY <2>0, ByteIs DEF FirstDifference
  <2>3. f \in Nat /\ f >= 1 /\ f <= d /\ f <= e /\ (f = d \/ f = e)
    BY <2>1
  <2>4. \A i \in 1..(f - 1) : Byte(a, i) = Byte(c, i)
    <3> TAKE i \in 1..(f - 1)
    <3>1. i \in 1..(d - 1) /\ i \in 1..(e - 1)
      BY <2>1, <2>3
    <3> QED
      BY <2>1, <3>1 DEF FirstDifference
  <2>5. Byte(a, f) \in Nat /\ Byte(b, f) \in Nat /\ Byte(c, f) \in Nat
    BY <2>3, ByteIs
  <2>6. Byte(a, f) < Byte(c, f)
    <3>1. f # d => f \in 1..(d - 1)
      BY <2>1, <2>3
    <3>2. f # e => f \in 1..(e - 1)
      BY <2>1, <2>3
    <3>3. Byte(a, f) <= Byte(b, f) /\ Byte(b, f) <= Byte(c, f) /\ (Byte(a, f) < Byte(b, f) \/ Byte(b, f) < Byte(c, f))
      BY <2>1, <2>2, <2>3, <2>5, <3>1, <3>2 DEF FirstDifference
    <3> QED
      BY <2>5, <3>3
  <2> HIDE DEF f
  <2>7. Byte(a, f) # Byte(c, f)
    BY <2>5, <2>6
  <2>8. Differ(a, c) = f
    BY <2>3, <2>4, <2>7, DifferAt
  <2> QED
    BY <2>6, <2>8 DEF Precedes
<1> QED
  BY <1>1, <1>2, <1>3

(* Both comparisons say by their sign which string precedes.               *)
LEMMA Comparisons ==
    ASSUME NEW key, key \in Bytes, NEW sym, sym \in Bytes
    PROVE  /\ symbol_ncompare(key, sym) = symbol_compare(key, sym) /\ symbol_compare(key, sym) \in Int
           /\ symbol_compare(key, sym) = 0 <=> key = sym
           /\ symbol_compare(key, sym) < 0 <=> Precedes(key, sym)
           /\ symbol_compare(key, sym) > 0 <=> Precedes(sym, key)
<1> DEFINE d == Differ(key, sym)
           x == Byte(key, d)
           y == Byte(sym, d)
<1>1. FirstDifference(key, sym, d) /\ d \in 1..(Len(key) + 1) /\ d \in Nat /\ Len(key) \in Nat
  BY DifferIs, ByteIs DEF FirstDifference
<1>2. symbol_compare(key, sym) = x - y
  BY DEF symbol_compare
<1>3. symbol_ncompare(key, sym) = IF d > Len(key) THEN -y ELSE key[d] - y
  BY DEF symbol_ncompare
<1>4. Precedes(key, sym) <=> x < y
  BY DEF Precedes
<1> HIDE DEF d
<1>5. x \in Nat /\ y \in Nat
  BY <1>1, ByteIs
<1>6. (d > Len(key) => x = 0) /\ (~(d > Len(key)) => x = key[d])
  <2>1. d > Len(key) => d \notin 1..Len(key)
    BY <1>1
  <2>2. ~(d > Len(key)) => d \in 1..Len(key)
    BY <1>1
  <2> QED
    BY <1>1, <2>1, <2>2, ByteIs
<1>7. (x = y) <=> (key = sym)
  BY <1>1 DEF FirstDifference
<1>8. Precedes(sym, key) <=> y < x
  <2>1. CASE key = sym
    BY <2>1, <1>5, <1>7, PrecedesOrders
  <2>2. CASE key # sym
    <3>1. Differ(sym, key) = d
      BY <2>2, DifferSymmetric DEF d
    <3> QED
      BY <3>1 DEF Precedes
  <2> QED
    BY <2>1, <2>2
<1> HIDE DEF x, y
<1>9. /\ symbol_ncompare(key, sym) = x - y /\ x - y \in Int
      /\ ((x - y = 0) <=> (x = y)) /\ ((x - y < 0) <=> (x < y)) /\ ((x - y > 0) <=> (y < x))
  BY <1>3, <1>5, <1>6
<1> QED
  BY <1>2, <1>4, <1>7, <1>8, <1>9

-----------------------------------------------------------------------------
(* A strict order on S, as a set of pairs, and what is below an element.   *)
StrictOrder(S, R) ==
    /\ \A s \in S : <<s, s>> \notin R
    /\ \A s, t \in S : s # t => <<s, t>> \in R \/ <<t, s>> \in R
    /\ \A s, t, u \in S : (<<s, t>> \in R /\ <<t, u>> \in R) => <<s, u>> \in R
Below(S, R, s) == {r \in S : <<r, s>> \in R}

(* In a finite set every place has one element.                            *)
LEMMA Ranks ==
    ASSUME NEW S, IsFiniteSet(S), NEW R, StrictOrder(S, R)
    PROVE  /\ Cardinality(S) \in Nat
           /\ \A s \in S : Cardinality(Below(S, R, s)) \in Nat /\ Cardinality(Below(S, R, s)) < Cardinality(S)
           /\ \A s, t \in S : <<s, t>> \in R => Cardinality(Below(S, R, s)) < Cardinality(Below(S, R, t))
           /\ \A i \in 1..Cardinality(S) : \E s \in S : Cardinality(Below(S, R, s)) = i - 1
<1> DEFINE n == Cardinality(S)
           rank == [s \in S |-> Cardinality(Below(S, R, s))]
<1>1. n \in Nat /\ \A s \in S : /\ Below(S, R, s) \in SUBSET S /\ IsFiniteSet(Below(S, R, s))
                                /\ Cardinality(Below(S, R, s)) \in Nat
  <2>1. \A s \in S : Below(S, R, s) \in SUBSET S
    BY DEF Below
  <2> QED
    BY <2>1, FS_Subset, FS_CardinalityType
<1>2. ASSUME NEW s \in S PROVE Cardinality(Below(S, R, s)) < n
  <2>1. s \notin Below(S, R, s) /\ Below(S, R, s) # S
    BY DEF Below, StrictOrder
  <2>2. Cardinality(Below(S, R, s)) <= n /\ (Cardinality(Below(S, R, s)) = n => Below(S, R, s) = S)
    BY <1>1, FS_Subset
  <2> QED
    BY <1>1, <2>1, <2>2
<1>3. ASSUME NEW s \in S, NEW t \in S, <<s, t>> \in R
      PROVE  Cardinality(Below(S, R, s)) < Cardinality(Below(S, R, t))
  <2> DEFINE A == Below(S, R, s)
             B == Below(S, R, t)
  <2>1. A \in SUBSET B
    BY <1>3 DEF Below, StrictOrder
  <2>2. s \in B /\ s \notin A
    BY <1>3 DEF Below, StrictOrder
  <2>3. IsFiniteSet(B) /\ Cardinality(A) \in Nat /\ Cardinality(B) \in Nat
    BY <1>1
  <2> HIDE DEF A, B
  <2>4. Cardinality(A) <= Cardinality(B) /\ (Cardinality(A) = Cardinality(B) => A = B)
    BY <2>1, <2>3, FS_Subset
  <2>5. Cardinality(A) < Cardinality(B)
    BY <2>2, <2>3, <2>4
  <2> QED
    BY <2>5 DEF A, B
<1> DEFINE V == {rank[s] : s \in S}
<1>4. \A s \in S : rank[s] = Cardinality(Below(S, R, s))
  OBVIOUS
<1> HIDE DEF rank
<1>5. IsFiniteSet(V) /\ Cardinality(V) = n
  <2>1. \A y \in V : \E s \in S : rank[s] = y
    OBVIOUS
  <2>2. \A s, t \in S : rank[s] = rank[t] => s = t
    <3> SUFFICES ASSUME NEW s \in S, NEW t \in S, s # t PROVE rank[s] # rank[t]
      OBVIOUS
    <3>1. <<s, t>> \in R \/ <<t, s>> \in R
      BY DEF StrictOrder
    <3>2. Cardinality(Below(S, R, s)) < Cardinality(Below(S, R, t)) \/ Cardinality(Below(S, R, t)) < Cardinality(Below(S, R, s))
      BY <1>3, <3>1
    <3>3. Cardinality(Below(S, R, s)) \in Nat /\ Cardinality(Below(S, R, t)) \in Nat
      BY <1>1
    <3>4. Cardinality(Below(S, R, s)) # Cardinality(Below(S, R, t))
      BY <3>2, <3>3
    <3> QED
      BY <1>4, <3>4
  <2>3. rank \in [S -> V]
    BY DEF rank
  <2> HIDE DEF V
  <2>4. rank \in Bijection(S, V)
    BY <2>1, <2>2, <2>3 DEF Bijection, Injection, Surjection, IsInjective
  <2>5. ExistsBijection(S, V)
    BY <2>4 DEF ExistsBijection
  <2> QED
    BY <2>5, FS_Bijection
<1>6. V \in SUBSET (0..(n - 1))
  <2> SUFFICES ASSUME NEW s \in S PROVE rank[s] \in 0..(n - 1)
    OBVIOUS
  <2> DEFINE c == Cardinality(Below(S, R, s))
  <2>1. c \in Nat /\ c < n /\ rank[s] = c
    BY <1>1, <1>2, <1>4
  <2> HIDE DEF c, n
  <2> QED
    BY <1>1, <2>1
<1>7. IsFiniteSet(0..(n - 1)) /\ Cardinality(0..(n - 1)) = n
  <2> HIDE DEF n
  <2>1. 0 \in Int /\ n - 1 \in Int
    BY <1>1
  <2>2. /\ IsFiniteSet(0..(n - 1))
        /\ Cardinality(0..(n - 1)) = IF 0 > n - 1 THEN 0 ELSE (n - 1) - 0 + 1
    BY <2>1, FS_Interval
  <2>3. Cardinality(0..(n - 1)) = n
    BY <1>1, <2>2
  <2> QED
    BY <2>2, <2>3
<1>8. V = 0..(n - 1)
  <2> HIDE DEF V
  <2> QED
    BY <1>5, <1>6, <1>7, FS_Subset
<1>9. ASSUME NEW i \in 1..n PROVE \E s \in S : Cardinality(Below(S, R, s)) = i - 1
  <2>1. i - 1 \in V
    <3> HIDE DEF V, n
    <3> QED
      BY <1>1, <1>8
  <2> QED
    BY <1>4, <2>1
<1> QED
  BY <1>1, <1>2, <1>3, <1>9

-----------------------------------------------------------------------------
(* Names in ascending order, all of the set S.                             *)
Ascends(names) == \A i, j \in 1..Len(names) : i < j => Precedes(names[i], names[j])
Lists(names, S) ==
    /\ names \in Seq(S) /\ Ascends(names)
    /\ \A s \in S : \E i \in 1..Len(names) : names[i] = s

(* symbol_compile's sort: every name once, in ascending order.             *)
LEMMA SortedLists ==
    ASSUME NEW S, S \subseteq Bytes, IsFiniteSet(S)
    PROVE  Lists(Sorted(S), S)
<1> DEFINE R == {p \in S \X S : Precedes(p[1], p[2])}
           n == Cardinality(S)
           names == Sorted(S)
<1>1. \A s, t \in S : <<s, t>> \in R <=> Precedes(s, t)
  OBVIOUS
<1> HIDE DEF R
<1>2. StrictOrder(S, R)
  <2>1. \A s \in S : s \in Bytes
    OBVIOUS
  <2>2. \A s \in S : ~Precedes(s, s)
    BY <2>1, PrecedesOrders
  <2>3. \A s, t \in S : s # t => Precedes(s, t) \/ Precedes(t, s)
    BY <2>1, PrecedesOrders
  <2>4. \A s, t, u \in S : Precedes(s, t) /\ Precedes(t, u) => Precedes(s, u)
    BY <2>1, PrecedesOrders
  <2> QED
    BY <1>1, <2>2, <2>3, <2>4, Zenon DEF StrictOrder
<1>3. /\ n \in Nat
      /\ \A s \in S : Cardinality(Below(S, R, s)) \in Nat /\ Cardinality(Below(S, R, s)) < n
      /\ \A s, t \in S : <<s, t>> \in R => Cardinality(Below(S, R, s)) < Cardinality(Below(S, R, t))
      /\ \A i \in 1..n : \E s \in S : Cardinality(Below(S, R, s)) = i - 1
  BY <1>2, Ranks
<1>4. \A s \in S : {r \in S : Precedes(r, s)} = Below(S, R, s)
  BY <1>1 DEF Below
<1>5. names = [i \in 1..n |-> CHOOSE s \in S : Cardinality({r \in S : Precedes(r, s)}) = i - 1]
  BY DEF Sorted
<1>6. ASSUME NEW i \in 1..n PROVE names[i] \in S /\ Cardinality(Below(S, R, names[i])) = i - 1
  <2>1. names[i] = CHOOSE s \in S : Cardinality({r \in S : Precedes(r, s)}) = i - 1
    BY <1>5, Zenon
  <2>2. \E s \in S : Cardinality({r \in S : Precedes(r, s)}) = i - 1
    BY <1>3, <1>4
  <2> HIDE DEF names
  <2>3. names[i] \in S /\ Cardinality({r \in S : Precedes(r, names[i])}) = i - 1
    BY <2>1, <2>2, Zenon
  <2> QED
    BY <1>4, <2>3
<1>7. names \in Seq(S) /\ Len(names) = n
  <2>1. names = [i \in 1..n |-> names[i]]
    BY <1>5
  <2> HIDE DEF names, n
  <2> QED
    BY <1>3, <1>6, <2>1
<1> HIDE DEF names, n
<1>8. ASSUME NEW i \in 1..n, NEW j \in 1..n, i < j PROVE Precedes(names[i], names[j])
  <2> DEFINE a == Cardinality(Below(S, R, names[i]))
             b == Cardinality(Below(S, R, names[j]))
  <2>1. a = i - 1 /\ b = j - 1 /\ names[i] \in S /\ names[j] \in S
    BY <1>6
  <2>2. a < b
    BY <1>8, <2>1
  <2>3. ~(b < a) /\ a # b
    BY <1>3, <2>1, <2>2
  <2>4. <<names[j], names[i]>> \notin R
    BY <1>3, <2>1, <2>3
  <2>5. names[i] # names[j]
    BY <2>3
  <2> QED
    BY <1>1, <1>2, <2>1, <2>4, <2>5 DEF StrictOrder
<1>9. ASSUME NEW s \in S PROVE \E i \in 1..n : names[i] = s
  <2> DEFINE c == Cardinality(Below(S, R, s))
  <2>1. c \in Nat /\ c < n
    BY <1>3
  <2>2. c + 1 \in 1..n /\ (c + 1) - 1 = c
    BY <1>3, <2>1
  <2>3. names[c + 1] \in S /\ Cardinality(Below(S, R, names[c + 1])) = c
    BY <1>6, <2>2
  <2>4. names[c + 1] = s
    <3> DEFINE t == names[c + 1]
    <3>1. t \in S /\ Cardinality(Below(S, R, t)) = Cardinality(Below(S, R, s))
      BY <2>3
    <3> HIDE DEF t
    <3>2. <<s, t>> \notin R /\ <<t, s>> \notin R
      <4>1. ~(Cardinality(Below(S, R, t)) < Cardinality(Below(S, R, s))) /\ ~(Cardinality(Below(S, R, s)) < Cardinality(Below(S, R, t)))
        BY <1>3, <3>1
      <4> QED
        BY <1>3, <3>1, <4>1
    <3> QED
      BY <1>2, <3>1, <3>2 DEF StrictOrder, t
  <2> QED
    BY <2>2, <2>4
<1> QED
  BY <1>7, <1>8, <1>9 DEF Lists, Ascends, names

-----------------------------------------------------------------------------
(* What the search of comparisons must find, of a key with strings that    *)
(* ascend: those before its place are below it, those behind are above.    *)
PlaceOf(cs, low, high, r) ==
    \/ r \in (low + 1)..high /\ cs[r] = 0
    \/ r = 0 /\ \A i \in (low + 1)..high : cs[i] # 0
Falling(cs) == \A i, j \in 1..Len(cs) : i < j => (cs[i] > 0 \/ cs[j] < 0)

(* The binary search, as a function of the range.                          *)
Halve(cs, F, range) ==
    LET low == range[1]
        high == range[2]
        mid == (low + high) \div 2
    IN  IF low >= high THEN 0
        ELSE IF cs[mid + 1] < 0 THEN F[<<low, mid>>]
        ELSE IF cs[mid + 1] > 0 THEN F[<<mid + 1, high>>]
        ELSE mid + 1
Bisects(cs, F) == F = [range \in (0..Len(cs)) \X (0..Len(cs)) |-> Halve(cs, F, range)]

(* One halving step, given what the two halves find.                       *)
LEMMA HalveIs ==
    ASSUME NEW cs, cs \in Seq(Int), Falling(cs), NEW F,
           NEW low, low \in 0..Len(cs), NEW high, high \in 0..Len(cs),
           \A a, b \in 0..Len(cs) : (b - a < high - low) => PlaceOf(cs, a, b, F[<<a, b>>])
    PROVE  PlaceOf(cs, low, high, Halve(cs, F, <<low, high>>))
<1> DEFINE n == Len(cs)
           mid == (low + high) \div 2
           r == Halve(cs, F, <<low, high>>)
<1>1. n \in Nat /\ (\A i \in 1..n : cs[i] \in Int) /\ \A i, j \in 1..n : i < j => (cs[i] > 0 \/ cs[j] < 0)
  BY DEF Falling
<1>2. r = IF low >= high THEN 0
          ELSE IF cs[mid + 1] < 0 THEN F[<<low, mid>>]
          ELSE IF cs[mid + 1] > 0 THEN F[<<mid + 1, high>>]
          ELSE mid + 1
  BY DEF Halve
<1> SUFFICES PlaceOf(cs, low, high, r)
  OBVIOUS
<1> HIDE DEF r
<1>3. CASE low >= high
  <2>1. r = 0 /\ \A i \in (low + 1)..high : FALSE
    BY <1>1, <1>2, <1>3
  <2> QED
    BY ONLY <2>1 DEF PlaceOf
<1>4. CASE low < high
  <2>1. mid \in 0..n /\ low <= mid /\ mid < high
    BY <1>1, <1>4
  <2> HIDE DEF mid
  <2>2. mid + 1 \in 1..n /\ mid + 1 \in 0..n /\ mid - low < high - low /\ high - (mid + 1) < high - low
    BY <1>1, <1>4, <2>1
  <2>3. CASE cs[mid + 1] < 0
    <3>1. r = F[<<low, mid>>]
      BY <1>2, <1>4, <2>3
    <3>2. PlaceOf(cs, low, mid, F[<<low, mid>>])
      BY ONLY <2>1, <2>2, low \in 0..Len(cs),
              \A a, b \in 0..Len(cs) : (b - a < high - low) => PlaceOf(cs, a, b, F[<<a, b>>]) DEF n
    <3>3. \A i \in (low + 1)..high : cs[i] = 0 => i \in (low + 1)..mid
      <4> TAKE i \in (low + 1)..high
      <4> HAVE cs[i] = 0
      <4>1. i \in 1..n
        BY <1>1
      <4>2. ~(mid + 1 < i) /\ i # mid + 1
        <5>1. cs[i] \in Int /\ cs[mid + 1] \in Int /\ (mid + 1 < i => (cs[mid + 1] > 0 \/ cs[i] < 0))
          BY <1>1, <2>2, <4>1
        <5> QED
          BY <2>3, <5>1
      <4> QED
        BY <2>1, <4>1, <4>2
    <3>4. \A i \in (low + 1)..mid : i \in (low + 1)..high
      BY <2>1
    <3> QED
      BY ONLY <3>1, <3>2, <3>3, <3>4 DEF PlaceOf
  <2>4. CASE cs[mid + 1] > 0
    <3>1. r = F[<<mid + 1, high>>]
      BY <1>1, <1>2, <1>4, <2>2, <2>4
    <3>2. PlaceOf(cs, mid + 1, high, F[<<mid + 1, high>>])
      BY ONLY <2>1, <2>2, high \in 0..Len(cs),
              \A a, b \in 0..Len(cs) : (b - a < high - low) => PlaceOf(cs, a, b, F[<<a, b>>]) DEF n
    <3>3. \A i \in (low + 1)..high : cs[i] = 0 => i \in (mid + 1 + 1)..high
      <4> TAKE i \in (low + 1)..high
      <4> HAVE cs[i] = 0
      <4>1. i \in 1..n
        BY <1>1
      <4>2. ~(i < mid + 1) /\ i # mid + 1
        <5>1. cs[i] \in Int /\ cs[mid + 1] \in Int /\ (i < mid + 1 => (cs[i] > 0 \/ cs[mid + 1] < 0))
          BY <1>1, <2>2, <4>1
        <5> QED
          BY <2>4, <5>1
      <4> QED
        BY <2>1, <4>1, <4>2
    <3>4. \A i \in (mid + 1 + 1)..high : i \in (low + 1)..high
      BY <2>1
    <3> QED
      BY ONLY <3>1, <3>2, <3>3, <3>4 DEF PlaceOf
  <2>5. CASE cs[mid + 1] = 0
    <3>1. r = mid + 1
      BY <1>1, <1>2, <1>4, <2>2, <2>5
    <3>2. mid + 1 \in (low + 1)..high
      BY <2>1
    <3> QED
      BY <2>5, <3>1, <3>2 DEF PlaceOf
  <2> QED
    BY <1>1, <2>2, <2>3, <2>4, <2>5
<1> QED
  BY <1>1, <1>3, <1>4

(* What is found at one place only is found exactly.                       *)
LEMMA PlaceUnique ==
    ASSUME NEW cs, cs \in Seq(Int), Falling(cs), NEW low, low \in 0..Len(cs),
           NEW high, high \in 0..Len(cs), NEW a, PlaceOf(cs, low, high, a),
           NEW b, PlaceOf(cs, low, high, b)
    PROVE  a = b
<1>1. Len(cs) \in Nat /\ \A i \in 1..Len(cs) : cs[i] \in Int
  OBVIOUS
<1>2. ASSUME NEW c \in (low + 1)..high, cs[c] = 0, NEW d \in (low + 1)..high, cs[d] = 0 PROVE c = d
  <2>1. c \in 1..Len(cs) /\ d \in 1..Len(cs)
    BY <1>1
  <2>2. ~(c < d) /\ ~(d < c)
    BY <1>1, <1>2, <2>1 DEF Falling
  <2> QED
    BY <2>1, <2>2
<1> QED
  BY <1>2 DEF PlaceOf

(* The recursion has a solution, and every solution finds what it should.  *)
LEMMA BisectsExist ==
    ASSUME NEW cs, cs \in Seq(Int), Falling(cs)
    PROVE  \E F : Bisects(cs, F)
<1> DEFINE n == Len(cs)
           Is(a, b, r) == PlaceOf(cs, a, b, r)
           F == [range \in (0..n) \X (0..n) |-> CHOOSE r : Is(range[1], range[2], r)]
<1>1. \A a, b \in 0..n : Is(a, b, F[<<a, b>>])
  <2> TAKE a, b \in 0..n
  <2>1. \E r : Is(a, b, r)
    <3>1. CASE \E i \in (a + 1)..b : cs[i] = 0
      BY <3>1 DEF PlaceOf
    <3>2. CASE ~\E i \in (a + 1)..b : cs[i] = 0
      BY <3>2 DEF PlaceOf
    <3> QED
      BY <3>1, <3>2
  <2> HIDE DEF Is
  <2>2. F[<<a, b>>] = CHOOSE r : Is(a, b, r)
    OBVIOUS
  <2> HIDE DEF F
  <2>3. Is(a, b, CHOOSE r : Is(a, b, r))
    BY ONLY <2>1
  <2> QED
    BY ONLY <2>2, <2>3
<1> HIDE DEF F
<1>2. ASSUME NEW range \in (0..n) \X (0..n) PROVE F[range] = Halve(cs, F, range)
  <2>1. PICK a \in 0..n, b \in 0..n : range = <<a, b>>
    OBVIOUS
  <2>2. \A c, d \in 0..n : (d - c < b - a) => PlaceOf(cs, c, d, F[<<c, d>>])
    BY <1>1
  <2>3. PlaceOf(cs, a, b, Halve(cs, F, <<a, b>>))
    BY <2>2, HalveIs
  <2>4. PlaceOf(cs, a, b, F[<<a, b>>])
    BY <1>1
  <2>5. F[<<a, b>>] = Halve(cs, F, <<a, b>>)
    BY <2>3, <2>4, PlaceUnique
  <2> QED
    BY <2>1, <2>5
<1>3. F = [range \in (0..n) \X (0..n) |-> F[range]]
  BY DEF F
<1>4. Bisects(cs, F)
  BY <1>2, <1>3 DEF Bisects
<1> QED
  BY <1>4

(* Every solution finds the place, by induction on the range.              *)
LEMMA BisectsFind ==
    ASSUME NEW cs, cs \in Seq(Int), Falling(cs), NEW F, Bisects(cs, F),
           NEW low, low \in 0..Len(cs), NEW high, high \in 0..Len(cs)
    PROVE  PlaceOf(cs, low, high, F[<<low, high>>])
<1> DEFINE n == Len(cs)
           S == {m \in Nat : \A a, b \in 0..n : b - a < m => PlaceOf(cs, a, b, F[<<a, b>>])}
<1>1. n \in Nat /\ \A a, b \in 0..n : F[<<a, b>>] = Halve(cs, F, <<a, b>>)
  <2>1. n \in Nat
    OBVIOUS
  <2>2. F = [range \in (0..n) \X (0..n) |-> Halve(cs, F, range)]
    BY Zenon DEF Bisects
  <2> HIDE DEF n
  <2>3. ASSUME NEW a \in 0..n, NEW b \in 0..n PROVE F[<<a, b>>] = Halve(cs, F, <<a, b>>)
    <3>1. <<a, b>> \in (0..n) \X (0..n)
      OBVIOUS
    <3> QED
      BY <2>2, <3>1, Zenon
  <2> QED
    BY <2>1, <2>3
<1>2. ASSUME NEW m \in Nat, \A a, b \in 0..n : b - a < m => PlaceOf(cs, a, b, F[<<a, b>>]),
             NEW a \in 0..n, NEW b \in 0..n, b - a <= m
      PROVE  PlaceOf(cs, a, b, F[<<a, b>>])
  <2>1. \A c, d \in 0..n : d - c < b - a => PlaceOf(cs, c, d, F[<<c, d>>])
    <3> TAKE c, d \in 0..n
    <3> HAVE d - c < b - a
    <3>1. d - c < m
      BY <1>2
    <3> QED
      BY <1>2, <3>1
  <2>2. PlaceOf(cs, a, b, Halve(cs, F, <<a, b>>))
    BY <2>1, HalveIs
  <2> QED
    BY <1>1, <2>2
<1>3. 0 \in S
  <2> SUFFICES ASSUME NEW a \in 0..n, NEW b \in 0..n, b - a < 0 PROVE PlaceOf(cs, a, b, F[<<a, b>>])
    OBVIOUS
  <2>1. a >= b /\ \A i \in (a + 1)..b : FALSE
    BY <1>1
  <2>2. F[<<a, b>>] = 0
    BY <1>1, <2>1 DEF Halve
  <2> QED
    BY <2>1, <2>2 DEF PlaceOf
<1>4. ASSUME NEW m \in S PROVE m + 1 \in S
  <2>1. m \in Nat /\ \A a, b \in 0..n : b - a < m => PlaceOf(cs, a, b, F[<<a, b>>])
    BY <1>4
  <2>2. \A a, b \in 0..n : b - a < m + 1 => PlaceOf(cs, a, b, F[<<a, b>>])
    <3> TAKE a, b \in 0..n
    <3> HAVE b - a < m + 1
    <3>1. b - a <= m
      BY <1>1, <2>1
    <3> QED
      BY <1>2, <2>1, <3>1
  <2> QED
    BY <2>1, <2>2
<1>5. S = Nat
  <2> HIDE DEF S
  <2>1. S \subseteq Nat
    BY DEF S
  <2> QED
    BY <1>3, <1>4, <2>1, Induction
<1>6. n + 1 \in S
  <2> HIDE DEF S
  <2> QED
    BY <1>1, <1>5
<1>7. high - low < n + 1
  BY <1>1
<1>8. \A a, b \in 0..n : b - a < n + 1 => PlaceOf(cs, a, b, F[<<a, b>>])
  BY <1>6
<1> HIDE DEF S
<1> QED
  BY <1>7, <1>8

(* bsearch finds the place of the key if there is one.                     *)
LEMMA SearchFinds ==
    ASSUME NEW cs, cs \in Seq(Int), Falling(cs)
    PROVE  PlaceOf(cs, 0, Len(cs), Search(cs))
<1> DEFINE n == Len(cs)
           F == CHOOSE f : Bisects(cs, f)
<1>1. n \in Nat /\ 0 \in 0..n /\ n \in 0..n
  OBVIOUS
<1>2. Bisects(cs, F)
  BY BisectsExist
<1>3. Search(cs) = F[<<0, n>>]
  BY Zenon DEF Search, Bisects, Halve
<1>4. PlaceOf(cs, 0, n, F[<<0, n>>])
  <2> HIDE DEF F
  <2> QED
    BY <1>1, <1>2, BisectsFind
<1> HIDE DEF F
<1> QED
  BY <1>3, <1>4

-----------------------------------------------------------------------------
(* The strings of a sorted list, as the comparisons see a key.             *)
LEMMA FallingIs ==
    ASSUME NEW names, names \in Seq(Bytes), Ascends(names), NEW key, key \in Bytes,
           NEW cs, cs \in Seq(Int), Len(cs) = Len(names),
           \A i \in 1..Len(names) : cs[i] = symbol_compare(key, names[i])
    PROVE  Falling(cs)
<1>1. Len(names) \in Nat /\ \A i \in 1..Len(names) : names[i] \in Bytes
  BY ElementOfSeq
<1> SUFFICES ASSUME NEW i \in 1..Len(names), NEW j \in 1..Len(names), i < j, ~(cs[i] > 0) PROVE cs[j] < 0
  BY DEF Falling
<1> DEFINE a == names[i]
           b == names[j]
<1>2. a \in Bytes /\ b \in Bytes /\ Precedes(a, b) /\ cs[i] = symbol_compare(key, a) /\ cs[j] = symbol_compare(key, b)
  BY <1>1 DEF Ascends
<1> HIDE DEF a, b
<1>3. ~Precedes(a, key)
  BY <1>2, Comparisons
<1>4. Precedes(key, b)
  <2>1. CASE key = a
    BY <1>2, <2>1
  <2>2. CASE key # a
    <3>1. Precedes(key, a)
      BY <1>2, <1>3, <2>2, PrecedesOrders
    <3> QED
      BY <1>2, <3>1, PrecedesOrders
  <2> QED
    BY <2>1, <2>2
<1> QED
  BY <1>2, <1>4, Comparisons

-----------------------------------------------------------------------------
(* The region that symbol_compile makes of names, and the offsets.         *)
Terminated(names) == [i \in DOMAIN names |-> Append(names[i], 0)]
LaidOut(names, offsets, bytes) ==
    /\ bytes = FlattenSeq(Terminated(names))
    /\ offsets = [i \in DOMAIN names |-> Len(FlattenSeq([j \in 1..(i - 1) |-> Append(names[j], 0)])) + 1]

(* Strings with their NULs.                                                *)
LEMMA TerminatedType ==
    ASSUME NEW names, names \in Seq(Bytes)
    PROVE  /\ Terminated(names) \in Seq(Seq(0..255)) /\ Len(Terminated(names)) = Len(names)
           /\ Len(names) \in Nat /\ DOMAIN names = 1..Len(names)
           /\ \A i \in 1..Len(names) : Terminated(names)[i] = Append(names[i], 0) /\ names[i] \in Bytes
<1>1. Len(names) \in Nat /\ DOMAIN names = 1..Len(names)
  OBVIOUS
<1>2. ASSUME NEW i \in 1..Len(names) PROVE names[i] \in Bytes /\ Append(names[i], 0) \in Seq(0..255)
  <2> DEFINE s == names[i]
  <2>1. s \in Bytes
    BY ElementOfSeq
  <2> HIDE DEF s
  <2>2. s \in Seq(1..255) /\ (1..255) \subseteq (0..255)
    BY <2>1 DEF Bytes
  <2>3. s \in Seq(0..255) /\ 0 \in 0..255
    BY <2>2, SeqMonotonic
  <2>4. Append(s, 0) \in Seq(0..255)
    BY <2>3
  <2> QED
    BY <2>1, <2>4 DEF s
<1>3. Terminated(names) = [i \in 1..Len(names) |-> Append(names[i], 0)]
  BY <1>1 DEF Terminated
<1>4. \A i \in 1..Len(names) : Terminated(names)[i] = Append(names[i], 0)
  BY <1>3
<1>5. Terminated(names) \in [1..Len(names) -> Seq(0..255)]
  BY <1>2, <1>3
<1>6. Terminated(names) \in Seq(Seq(0..255)) /\ Len(Terminated(names)) = Len(names)
  <2> DEFINE T == Terminated(names)
             U == Seq(0..255)
             n == Len(names)
  <2>1. T \in [1..n -> U] /\ n \in Nat
    BY <1>1, <1>5
  <2> HIDE DEF T, U, n
  <2>2. T \in Seq(U) /\ Len(T) = n
    BY <2>1
  <2> QED
    BY <2>2 DEF T, U, n
<1> QED
  BY <1>1, <1>2, <1>4, <1>6

(* Each string is read back from its offset.                               *)
LEMMA ReadsBack ==
    ASSUME NEW names, names \in Seq(Bytes), LaidOut(names, list, region)
    PROVE  /\ DOMAIN list = 1..Len(names)
           /\ \A i \in 1..Len(names) : StringAt(list[i]) = names[i]
<1> DEFINE seqs == Terminated(names)
           T == 0..255
           n == Len(names)
<1>1. /\ seqs \in Seq(Seq(T)) /\ Len(seqs) = n /\ n \in Nat /\ DOMAIN names = 1..n
      /\ \A i \in 1..n : seqs[i] = Append(names[i], 0) /\ names[i] \in Bytes
  BY TerminatedType
<1> HIDE DEF seqs, T
<1>2. PICK F : Joined(T, seqs, F)
  BY <1>1, JoinedExists
<1>3. \A m \in 0..n : FlattenSeq([j \in 1..m |-> seqs[j]]) = F[m]
  BY <1>1, <1>2, FlattenIsJoined
<1>4. region = F[n]
  <2>1. seqs = [j \in 1..n |-> seqs[j]] /\ n \in 0..n
    BY <1>1
  <2>2. region = FlattenSeq(seqs)
    BY DEF LaidOut, seqs
  <2> QED
    BY <1>3, <2>1, <2>2, Zenon
<1>5. DOMAIN list = 1..n
  BY <1>1 DEF LaidOut
<1>6. ASSUME NEW i \in 1..n PROVE list[i] = Len(F[i - 1]) + 1
  <2>1. i - 1 \in 0..n /\ \A j \in 1..(i - 1) : j \in 1..n
    BY <1>1
  <2>2. [j \in 1..(i - 1) |-> Append(names[j], 0)] = [j \in 1..(i - 1) |-> seqs[j]]
    BY <1>1, <2>1
  <2>3. list[i] = Len(FlattenSeq([j \in 1..(i - 1) |-> Append(names[j], 0)])) + 1
    BY <1>1 DEF LaidOut
  <2> QED
    BY <1>3, <2>1, <2>2, <2>3
<1> HIDE DEF n
<1>8. ASSUME NEW i \in 1..n
      PROVE  /\ F[i - 1] \in Seq(T) /\ seqs[i] \in Seq(T) /\ F[i] = F[i - 1] \o seqs[i]
             /\ Len(F[i]) <= Len(F[n]) /\ Stands(seqs[i], F[n], Len(F[i - 1]))
  <2>1. i \in 1..Len(seqs) /\ Len(seqs) = n
    BY <1>1
  <2> QED
    BY ONLY <1>1, <1>2, <2>1, JoinedAt
<1>9. F[n] \in Seq(T) /\ Len(F[n]) \in Nat
  <2>1. n \in 0..Len(seqs)
    BY <1>1
  <2> QED
    BY ONLY <1>1, <1>2, <2>1, JoinedSteps
<1>7. ASSUME NEW i \in 1..n PROVE StringAt(list[i]) = names[i]
  <2> DEFINE s == names[i]
             p == Len(F[i - 1])
             l == Len(s)
             e == p + l + 1
             Z == {k \in (p + 1)..Len(region) : region[k] = 0}
  <2>1. /\ F[i - 1] \in Seq(T) /\ seqs[i] \in Seq(T) /\ F[i] = F[i - 1] \o seqs[i]
        /\ Len(F[i]) <= Len(F[n]) /\ Stands(seqs[i], F[n], Len(F[i - 1]))
    BY <1>8
  <2>2. s \in Seq(1..255) /\ seqs[i] = Append(s, 0) /\ l \in Nat /\ p \in Nat
    BY <1>1, <2>1 DEF Bytes
  <2>3. Len(seqs[i]) = l + 1 /\ seqs[i][l + 1] = 0 /\ (\A j \in 1..l : seqs[i][j] = s[j])
    <3> HIDE DEF s
    <3> QED
      BY <2>2
  <2>4. region[p + (l + 1)] = 0 /\ \A j \in 1..l : region[p + j] = s[j] /\ s[j] # 0
    <3>1. \A j \in 1..l : j \in 1..(l + 1)
      OBVIOUS
    <3>2. l + 1 \in 1..(l + 1)
      BY <2>2
    <3>3. \A j \in 1..l : s[j] # 0
      <4> TAKE j \in 1..l
      <4>1. s \in Bytes /\ j \in 1..Len(s)
        BY <2>2 DEF Bytes
      <4> HIDE DEF s, l
      <4>2. Byte(s, j) = s[j] /\ Byte(s, j) > 0
        BY <4>1, ByteIs
      <4> QED
        BY <4>2
    <3> HIDE DEF l, s, p
    <3> QED
      BY <1>4, <2>1, <2>3, <3>1, <3>2, <3>3 DEF Stands, p
  <2>5. region \in Seq(T) /\ Len(region) \in Nat /\ e <= Len(region)
    <3>1. F[n] \in Seq(T) /\ Len(F[n]) \in Nat
      BY <1>9
    <3>2. Len(F[i]) = p + (l + 1)
      <4> DEFINE u == F[i - 1]
                 w == seqs[i]
      <4>1. u \in Seq(T) /\ w \in Seq(T) /\ F[i] = u \o w /\ Len(u) = p /\ Len(w) = l + 1
        BY <2>1, <2>3
      <4> HIDE DEF u, w, p, l
      <4>3. \A x, y \in Seq(T) : Len(x \o y) = Len(x) + Len(y)
        BY ONLY TRUE
      <4>2. Len(u \o w) = Len(u) + Len(w)
        BY ONLY <4>1, <4>3, Zenon
      <4> QED
        BY <4>1, <4>2
    <3> HIDE DEF l, p
    <3> QED
      <4>1. Len(region) \in Nat /\ Len(F[i]) <= Len(region) /\ region \in Seq(T)
        BY <1>4, <2>1, <3>1
      <4> HIDE DEF e
      <4>2. e = Len(F[i])
        BY <2>2, <3>2 DEF e
      <4> QED
        BY <4>1, <4>2
  <2> HIDE DEF l, p
  <2>6. e \in Z /\ \A k \in Z : e <= k
    <3>1. e \in Z
      BY <2>2, <2>4, <2>5
    <3>2. ASSUME NEW k \in (p + 1)..Len(region), ~(e <= k) PROVE region[k] # 0
      <4>1. k - p \in 1..l /\ p + (k - p) = k
        BY <2>2, <2>5, <3>2
      <4> QED
        BY <2>4, <4>1
    <3> QED
      BY <3>1, <3>2
  <2>7. Min(Z) = e
    <3>1. Z \subseteq Nat
      BY <2>2, <2>5
    <3> HIDE DEF Z, e
    <3>2. \A x \in Z : (\A y \in Z : x <= y) => x = e
      BY <2>6, <3>1
    <3> QED
      BY <2>6, <3>2 DEF Min
  <2>8. StringAt(list[i]) = SubSeq(region, p + 1, e - 1)
    <3>1. list[i] = p + 1
      BY <1>6 DEF p
    <3> QED
      BY <2>7, <3>1 DEF StringAt
  <2>9. e - 1 = p + l
    BY <2>2
  <2>10. SubSeq(region, p + 1, p + l) = s
    <3> DEFINE a == p + 1
               x == SubSeq(region, a, e - 1)
    <3>1. a \in Nat /\ e \in Nat /\ 1 <= a /\ a <= e /\ e <= Len(region) + 1 /\ e - a = l
          /\ \A j \in 1..l : a + j - 1 = p + j
      BY <2>2, <2>5
    <3> HIDE DEF a, e
    <3>2. x \in Seq(T) /\ Len(x) = l /\ \A j \in 1..l : x[j] = region[a + j - 1]
      BY <2>5, <3>1, PartIs
    <3> HIDE DEF x
    <3>3. \A j \in 1..l : x[j] = s[j]
      BY <2>4, <3>1, <3>2
    <3>4. x = [j \in 1..l |-> x[j]]
      BY <3>2
    <3>5. s = [j \in 1..l |-> s[j]]
      BY <2>2 DEF l
    <3>6. x = s
      BY <3>3, <3>4, <3>5
    <3> QED
      BY <2>9, <3>6 DEF a, x
  <2> QED
    BY <2>8, <2>9, <2>10
<1> QED
  BY <1>5, <1>7 DEF n

-----------------------------------------------------------------------------
(* Part 7.                                                                 *)
-----------------------------------------------------------------------------

(* The room that a string takes in the arena, and in the region.           *)
Size == [s \in Strings |-> Len(s) + 1]
FrontSet(names, m) == {names[i] : i \in 1..m}

(* The names of a table are strings.                                       *)
LEMMA StringsAreBytes == Strings \subseteq Bytes /\ Size \in [Strings -> Int]
<1>1. Strings \subseteq Bytes
  BY SymbolsAssumption DEF Bytes
<1>2. \A s \in Strings : Len(s) + 1 \in Int
  BY <1>1, ByteIs
<1> QED
  BY <1>1, <1>2 DEF Size

(* Strings in ascending order are different from each other.               *)
LEMMA AscendingDiffer ==
    ASSUME NEW names, names \in Seq(Bytes), Ascends(names), NEW m, m \in Nat, m + 1 \in 1..Len(names)
    PROVE  names[m + 1] \notin FrontSet(names, m)
<1> SUFFICES ASSUME NEW i \in 1..m, names[i] = names[m + 1] PROVE FALSE
  BY DEF FrontSet
<1>1. Len(names) \in Nat /\ i \in 1..Len(names) /\ i < m + 1
  OBVIOUS
<1>2. names[i] \in Bytes /\ Precedes(names[i], names[m + 1])
  BY <1>1, ElementOfSeq DEF Ascends
<1> QED
  BY <1>2, PrecedesOrders

(* The region is as long as its strings take room.                         *)
LEMMA RegionLength ==
    ASSUME NEW names, names \in Seq(Strings), Ascends(names), LaidOut(names, list, region)
    PROVE  Len(region) = SumFunctionOnSet(Size, FrontSet(names, Len(names)))
<1> DEFINE n == Len(names)
           T == 0..255
           seqs == Terminated(names)
           RoomTo(m) == SumFunctionOnSet(Size, FrontSet(names, m))
<1>1. /\ names \in Seq(Bytes) /\ n \in Nat /\ (\A i \in 1..n : names[i] \in Strings /\ names[i] \in Bytes)
      /\ Size \in [Strings -> Int]
  <2>1. \A i \in 1..n : names[i] \in Strings
    BY ElementOfSeq
  <2> QED
    BY <2>1, StringsAreBytes, SeqMonotonic
<1>2. /\ seqs \in Seq(Seq(T)) /\ Len(seqs) = n /\ DOMAIN names = 1..n
      /\ \A i \in 1..n : seqs[i] = Append(names[i], 0)
  BY <1>1, TerminatedType
<1> HIDE DEF seqs, T
<1>3. PICK F : Joined(T, seqs, F)
  BY <1>2, JoinedExists
<1>4. region = F[n]
  <2>1. \A m \in 0..n : FlattenSeq([j \in 1..m |-> seqs[j]]) = F[m]
    BY <1>2, <1>3, FlattenIsJoined
  <2>2. seqs = [j \in 1..n |-> seqs[j]] /\ n \in 0..n
    BY <1>1, <1>2
  <2>3. region = FlattenSeq(seqs)
    BY DEF LaidOut, seqs
  <2> QED
    BY <2>1, <2>2, <2>3, Zenon
<1> HIDE DEF n
<1>5. /\ F[0] = <<>> /\ \A k \in 0..n : F[k] \in Seq(T)
      /\ \A k \in 1..n : F[k] = F[k - 1] \o seqs[k] /\ seqs[k] \in Seq(T)
  BY ONLY <1>2, <1>3, JoinedSteps
<1>6. ASSUME NEW m \in Nat, m + 1 \in 1..n PROVE Len(F[m + 1]) = Len(F[m]) + Size[names[m + 1]]
  <2> DEFINE u == F[m]
             w == seqs[m + 1]
             s == names[m + 1]
  <2>1. m \in 0..n /\ (m + 1) - 1 = m
    BY <1>1, <1>6
  <2>2. u \in Seq(T) /\ w \in Seq(T) /\ F[m + 1] = u \o w /\ w = Append(s, 0) /\ s \in Strings /\ s \in Seq(1..255)
    BY <1>1, <1>2, <1>5, <1>6, <2>1 DEF Bytes
  <2> HIDE DEF u, w, s
  <2>3. \A x, y \in Seq(T) : Len(x \o y) = Len(x) + Len(y)
    BY ONLY TRUE
  <2>4. Len(u \o w) = Len(u) + Len(w)
    BY ONLY <2>2, <2>3, Zenon
  <2>5. Len(w) = Len(s) + 1
    BY <2>2
  <2>6. Size[s] = Len(s) + 1
    BY <2>2 DEF Size
  <2> QED
    BY <2>2, <2>4, <2>5, <2>6 DEF u, s
<1>7. RoomTo(0) = 0
  <2>1. FrontSet(names, 0) = {}
    BY DEF FrontSet
  <2>2. \A x \in {} : Size[x] = 0
    OBVIOUS
  <2> QED
    BY <2>1, <2>2, SumZero, FS_EmptySet
<1>8. ASSUME NEW m \in Nat, m + 1 \in 1..n PROVE RoomTo(m + 1) = RoomTo(m) + Size[names[m + 1]]
  <2> DEFINE A == FrontSet(names, m)
             a == names[m + 1]
  <2>1. A \in SUBSET Strings /\ a \in Strings
    BY <1>1, <1>8 DEF FrontSet
  <2>2. IsFiniteSet(A)
    <3> DEFINE f == [i \in 1..m |-> names[i]]
    <3>1. IsFiniteSet(1..m)
      BY FS_Interval
    <3>2. f \in Surjection(1..m, A)
      BY DEF Surjection, FrontSet
    <3> HIDE DEF A, f
    <3> QED
      BY <3>1, <3>2, FS_Surjection
  <2>3. a \notin A
    BY <1>1, <1>8, AscendingDiffer DEF n
  <2>4. FrontSet(names, m + 1) = A \cup {a}
    <3>1. \A i \in 1..(m + 1) : i \in 1..m \/ i = m + 1
      OBVIOUS
    <3>2. m + 1 \in 1..(m + 1) /\ \A i \in 1..m : i \in 1..(m + 1)
      OBVIOUS
    <3> QED
      BY <3>1, <3>2 DEF FrontSet
  <2> HIDE DEF A, a
  <2>5. SumFunctionOnSet(Size, A \cup {a}) = SumFunctionOnSet(Size, A) + Size[a]
    BY <1>1, <2>1, <2>2, <2>3, SumGrow
  <2> QED
    BY <2>4, <2>5 DEF A, a
<1> DEFINE S == {m \in Nat : m <= n => Len(F[m]) = RoomTo(m)}
<1> HIDE DEF RoomTo
<1>9. 0 \in S
  <2>1. Len(F[0]) = 0
    BY <1>5
  <2> QED
    BY <1>7, <2>1
<1>10. ASSUME NEW m \in S PROVE m + 1 \in S
  <2>1. m \in Nat /\ (m <= n => Len(F[m]) = RoomTo(m))
    BY <1>10
  <2> SUFFICES ASSUME m + 1 <= n PROVE Len(F[m + 1]) = RoomTo(m + 1)
    BY <2>1
  <2>2. m + 1 \in 1..n /\ m <= n
    BY <1>1, <2>1
  <2> QED
    BY <1>6, <1>8, <2>1, <2>2
<1>11. n \in S
  <2>1. S \subseteq Nat
    OBVIOUS
  <2> HIDE DEF S
  <2>2. S = Nat
    BY <1>9, <1>10, <2>1, Induction
  <2> QED
    BY <1>1, <2>2
<1> QED
  BY <1>1, <1>4, <1>11 DEF RoomTo, n

-----------------------------------------------------------------------------
(* The bytes used of the blocks of an arena.                               *)
Used(bs) == SumFunction([k \in DOMAIN bs |-> bs[k].used])

(* A block with nothing in it adds nothing.                                *)
LEMMA UsedKept ==
    ASSUME NEW bs, bs \in Seq(Block), NEW cs, cs \in Seq(Block), Len(cs) = Len(bs) + 1,
           \A k \in 1..Len(bs) : cs[k].used = bs[k].used, cs[Len(cs)].used = 0
    PROVE  Used(cs) = Used(bs)
<1> DEFINE n == Len(bs)
           f == [k \in 1..n |-> bs[k].used]
           g == [k \in 1..(n + 1) |-> cs[k].used]
<1>1. n \in Nat /\ DOMAIN bs = 1..n /\ DOMAIN cs = 1..(n + 1) /\ \A k \in 1..(n + 1) : cs[k].used \in Nat
  <2>1. n \in Nat /\ DOMAIN bs = 1..n /\ DOMAIN cs = 1..(n + 1) /\ \A k \in 1..(n + 1) : cs[k] \in Block
    BY ElementOfSeq
  <2> QED
    BY <2>1 DEF Block
<1>2. g \in [1..(n + 1) -> Int] /\ (\A k \in 1..n : f[k] = bs[k].used /\ g[k] = f[k]) /\ g[n + 1] = 0
  BY <1>1
<1>3. Used(bs) = SumFunctionOnSet(f, 1..n) /\ Used(cs) = SumFunctionOnSet(g, 1..(n + 1))
  BY <1>1 DEF Used, SumFunction
<1> HIDE DEF f, g, n
<1> DEFINE D == 1..(n + 1)
           A == 1..n
           a == n + 1
<1>4. A \in SUBSET D /\ IsFiniteSet(A) /\ a \in D /\ a \notin A /\ A \cup {a} = D
  <2>1. IsFiniteSet(A)
    BY <1>1, FS_Interval
  <2>2. A \in SUBSET D /\ a \in D /\ a \notin A
    BY <1>1
  <2>3. A \cup {a} = D
    BY <1>1
  <2> QED
    BY <2>1, <2>2, <2>3
<1>9. Used(bs) = SumFunctionOnSet(f, A) /\ Used(cs) = SumFunctionOnSet(g, A \cup {a})
  BY <1>3, <1>4
<1>5. g \in [D -> Int] /\ g[a] = 0 /\ \A k \in A : f[k] = g[k]
  BY <1>2
<1> HIDE DEF D, A, a
<1>6. SumFunctionOnSet(g, A \cup {a}) = SumFunctionOnSet(g, A) + g[a]
  BY <1>4, <1>5, SumGrow
<1>7. SumFunctionOnSet(f, A) = SumFunctionOnSet(g, A)
  BY <1>5, SumAgree
<1>8. SumFunctionOnSet(g, A) \in Int
  <2>1. \E h \in [A -> Int] : \A k \in A : g[k] = h[k]
    <3>1. [k \in A |-> g[k]] \in [A -> Int]
      BY <1>4, <1>5
    <3> QED
      BY <3>1
  <2>2. PICK h \in [A -> Int] : \A k \in A : g[k] = h[k]
    BY <2>1
  <2>3. SumFunctionOnSet(g, A) = SumFunctionOnSet(h, A)
    BY <2>2, SumAgree
  <2>4. SumFunctionOnSet(h, A) \in Int
    BY <1>4, SumType
  <2> QED
    BY <2>3, <2>4
<1> QED
  BY <1>5, <1>6, <1>7, <1>8, <1>9

(* What the last block takes up is added.                                  *)
LEMMA UsedMore ==
    ASSUME NEW bs, bs \in Seq(Block), NEW cs, cs \in Seq(Block), Len(cs) = Len(bs), bs # <<>>,
           \A k \in 1..(Len(bs) - 1) : cs[k].used = bs[k].used
    PROVE  Used(cs) = Used(bs) + (cs[Len(bs)].used - bs[Len(bs)].used)
<1> DEFINE n == Len(bs)
           f == [k \in 1..n |-> bs[k].used]
           g == [k \in 1..n |-> cs[k].used]
           v == cs[n].used
<1>1. /\ n \in Nat /\ n # 0 /\ DOMAIN bs = 1..n /\ DOMAIN cs = 1..n
      /\ \A k \in 1..n : cs[k].used \in Nat /\ bs[k].used \in Nat
  <2>1. n \in Nat /\ n # 0 /\ DOMAIN bs = 1..n /\ DOMAIN cs = 1..n
    OBVIOUS
  <2>2. \A k \in 1..n : cs[k] \in Block /\ bs[k] \in Block
    BY <2>1, ElementOfSeq
  <2> QED
    BY <2>1, <2>2 DEF Block
<1>2. n \in 1..n /\ f \in [1..n -> Int] /\ g[n] = v /\ f[n] = bs[n].used /\ v \in Int
  BY <1>1
<1>3. \A k \in 1..n : k = n \/ k \in 1..(n - 1)
  <2> HIDE DEF n
  <2> QED
    BY <1>1
<1>4. g = [f EXCEPT ![n] = v]
  BY <1>1, <1>2, <1>3
<1>5. Used(bs) = SumFunctionOnSet(f, 1..n) /\ Used(cs) = SumFunctionOnSet(g, 1..n)
  BY <1>1 DEF Used, SumFunction
<1> HIDE DEF f, g, n, v
<1>6. \A x \in Int : SumFunctionOnSet([f EXCEPT ![n] = x], 1..n) = SumFunctionOnSet(f, 1..n) + (x - f[n])
  <2>1. IsFiniteSet(1..n)
    BY <1>1, FS_Interval
  <2> QED
    BY <1>2, <2>1, SumExcept
<1>7. SumFunctionOnSet(g, 1..n) = SumFunctionOnSet(f, 1..n) + (v - f[n])
  BY <1>2, <1>4, <1>6, Zenon
<1> QED
  BY <1>2, <1>5, <1>7 DEF n, v

-----------------------------------------------------------------------------
(* The table and its arena: as long as nothing has failed, the slots are   *)
(* the allocations in their order; the arena holds the strings, each with  *)
(* room for its NUL, and nothing else.                                     *)
Kept(strings) == {strings[k] : k \in DOMAIN strings}
Wanting == IF Appending THEN 1 ELSE 0
RoomInv ==
    /\ ~errors => /\ Len(base) = Len(memory) + Wanting
                  /\ \A i \in 1..Len(memory) : base[i] = i
    /\ Appending => request.size = Len(wanted) + 1 /\ request.align = 1
    /\ arena_used = SumFunctionOnSet(Size, Kept(memory))

(* arena_used adds up the blocks.                                          *)
LEMMA ArenaUsed == arena_used = Used(blocks)
BY DEF arena_used, Used

(* Nothing is kept in no blocks.                                           *)
LEMMA NothingKept == Used(<<>>) = 0 /\ SumFunctionOnSet(Size, Kept(<<>>)) = 0
<1>1. Kept(<<>>) = {} /\ IsFiniteSet({}) /\ \A x \in {} : Size[x] = 0
  BY FS_EmptySet DEF Kept
<1>2. DOMAIN <<>> = {}
  OBVIOUS
<1> DEFINE f == [k \in {} |-> <<>>[k].used]
<1>3. Used(<<>>) = SumFunctionOnSet(f, {})
  BY <1>2 DEF Used, SumFunction
<1>4. \A x \in {} : f[x] = 0
  OBVIOUS
<1> HIDE DEF f
<1> QED
  BY <1>1, <1>3, <1>4, SumZero

(* A table starts with nothing.                                            *)
LEMMA InitRoomInv == SymbolsInit => RoomInv
<1> SUFFICES ASSUME SymbolsInit PROVE RoomInv
  OBVIOUS
<1>1. blocks = <<>> /\ base = <<>> /\ memory = <<>> /\ ~Appending /\ ~errors
  BY DEF SymbolsInit, ArenaInit, Appending
<1>2. arena_used = 0 /\ SumFunctionOnSet(Size, Kept(memory)) = 0
  BY <1>1, NothingKept, ArenaUsed
<1>3. Len(base) = Len(memory) + Wanting /\ \A i \in 1..Len(memory) : FALSE
  BY <1>1 DEF Wanting
<1> QED
  BY <1>1, <1>2, <1>3 DEF RoomInv

(* symbol_append: the slot is counted, the room is asked for.              *)
LEMMA AppendSlotRoom ==
    ASSUME TInv, RoomInv, NEW s \in Strings, AppendSlot(s)
    PROVE  RoomInv'
<1>1. /\ base \in Seq(Nat) /\ ~Appending /\ ~errors /\ s # NoString /\ base' = Append(base, 0) /\ wanted' = s
      /\ UNCHANGED <<memory, errors, blocks>> /\ request' = [size |-> Len(s) + 1, align |-> 1]
      /\ memory \in Seq(Strings)
  BY SymbolsAssumption DEF TInv, SlotInv, AppendSlot, Open, Alloc, NoString
<1>2. Appending' /\ request'.size = Len(wanted') + 1 /\ request'.align = 1
  BY <1>1 DEF Appending
<1>3. arena_used' = arena_used
  BY <1>1 DEF arena_used
<1>4. /\ Len(base) = Len(memory) /\ \A i \in 1..Len(memory) : base[i] = i
  BY <1>1 DEF RoomInv, Wanting
<1>5. Len(base') = Len(memory) + 1 /\ \A i \in 1..Len(memory) : base'[i] = i
  BY <1>1, <1>4
<1>6. arena_used = SumFunctionOnSet(Size, Kept(memory))
  BY DEF RoomInv
<1> QED
  BY <1>1, <1>2, <1>3, <1>5, <1>6 DEF RoomInv, Wanting

(* The arena answers: the string is one more.                              *)
LEMMA FillRoom ==
    ASSUME TInv, RoomInv, Fill
    PROVE  RoomInv'
<1> DEFINE n == Len(blocks)
           b == blocks[n]
           m == Len(memory)
           A == Kept(memory)
<1>1. /\ base \in Seq(Nat) /\ memory \in Seq(Strings) /\ Appending /\ base # <<>> /\ ~errors /\ wanted \in Strings
      /\ (\A i \in 1..(Len(base) - 1) : memory[base[i]] # wanted) /\ blocks \in Seq(Block) /\ blocks # <<>>
      /\ Len(base) = m + 1 /\ (\A i \in 1..m : base[i] = i) /\ request.size = Len(wanted) + 1 /\ request.align = 1
      /\ arena_used = SumFunctionOnSet(Size, A) /\ blocks' \in Seq(Block) /\ n \in 1..n
  <2>1. AInv'
    BY ArenaSteps, NextAInv DEF TInv, SymbolsNext
  <2> QED
    BY <2>1 DEF TInv, AInv, ArenaTypeOK, SlotInv, RoomInv, Fill, Take, Appending, Wanting
<1>2. /\ base' = [base EXCEPT ![Len(base)] = Len(allocs) + 1] /\ memory' = Append(memory, wanted)
      /\ wanted' = NoString /\ UNCHANGED errors
      /\ blocks' = [blocks EXCEPT ![n].used = b.used + Total(b)] /\ Len(allocs) = m
  BY <1>1 DEF Fill, Take, TInv, SlotInv, Last
<1>3. b.base + b.used \in Int /\ b.used \in Nat
  <2>1. b \in Block
    BY <1>1
  <2> QED
    BY <2>1 DEF Block
<1>4. Total(b) = Len(wanted) + 1
  <2>1. \A x \in Int : (-x) % 1 = 0
    OBVIOUS
  <2>2. Padding(b) = 0
    BY <1>1, <1>3, <2>1 DEF Padding
  <2>3. Len(wanted) \in Nat
    BY <1>1, StringsAreBytes, ByteIs
  <2> QED
    BY <1>1, <2>2, <2>3 DEF Total
<1>5. /\ Len(blocks') = n /\ \A k \in 1..(n - 1) : blocks'[k].used = blocks[k].used
      /\ blocks'[n].used = b.used + Total(b)
  <2> DEFINE u == b.used + Total(b)
  <2> HIDE DEF u
  <2>1. blocks' = [blocks EXCEPT ![n] = [b EXCEPT !.used = u]] /\ n \in Nat /\ DOMAIN blocks = 1..n
    BY <1>1, <1>2 DEF u
  <2>2. b \in Block
    BY <1>1
  <2> DEFINE c == [b EXCEPT !.used = u]
  <2>3. c.used = u
    BY <2>2 DEF Block
  <2> HIDE DEF c, b, n
  <2>4. blocks' = [blocks EXCEPT ![n] = c]
    BY <2>1 DEF c
  <2>5. (\A k \in 1..(n - 1) : k \in 1..n /\ k # n) /\ n \in 1..n
    BY <1>1, <2>1
  <2>6. blocks'[n] = c /\ \A k \in 1..(n - 1) : blocks'[k] = blocks[k]
    BY <2>1, <2>4, <2>5
  <2>7. Len(blocks') = n
    BY <1>1, <2>1, <2>4
  <2> QED
    BY <2>3, <2>6, <2>7 DEF u
<1>6. Used(blocks') = Used(blocks) + (blocks'[n].used - b.used)
  <2> DEFINE bs == blocks
             cs == blocks'
  <2>1. /\ bs \in Seq(Block) /\ cs \in Seq(Block) /\ Len(cs) = Len(bs) /\ bs # <<>>
        /\ \A k \in 1..(Len(bs) - 1) : cs[k].used = bs[k].used
    BY <1>1, <1>5
  <2> HIDE DEF bs, cs
  <2>2. Used(cs) = Used(bs) + (cs[Len(bs)].used - bs[Len(bs)].used)
    BY <2>1, UsedMore
  <2> QED
    BY <2>2 DEF bs, cs
<1>7. A \in SUBSET Strings /\ IsFiniteSet(A) /\ wanted \notin A /\ m \in Nat /\ DOMAIN memory = 1..m
  <2>1. m \in Nat /\ DOMAIN memory = 1..m /\ \A k \in 1..m : memory[k] \in Strings
    BY <1>1, ElementOfSeq
  <2>2. A \in SUBSET Strings
    BY <2>1 DEF Kept
  <2>3. \A k \in 1..m : memory[k] # wanted
    <3>1. Len(base) - 1 = m
      BY <1>1, <2>1
    <3> QED
      BY <1>1, <3>1
  <2>4. IsFiniteSet(A)
    <3>1. IsFiniteSet(1..m)
      BY <2>1, FS_Interval
    <3>2. memory \in Surjection(1..m, A)
      BY <1>1, <2>1 DEF Surjection, Kept
    <3> HIDE DEF A, m
    <3> QED
      BY <3>1, <3>2, FS_Surjection
  <2> QED
    BY <2>1, <2>2, <2>3, <2>4 DEF Kept
<1>8. Kept(memory') = A \cup {wanted}
  <2>1. /\ DOMAIN memory' = 1..(m + 1) /\ memory'[m + 1] = wanted /\ \A k \in 1..m : memory'[k] = memory[k]
    BY <1>1, <1>2
  <2>2. \A k \in 1..(m + 1) : k = m + 1 \/ k \in 1..m
    BY <1>7
  <2>3. m + 1 \in 1..(m + 1) /\ \A k \in 1..m : k \in 1..(m + 1)
    BY <1>7
  <2> HIDE DEF m
  <2> QED
    BY <1>7, <2>1, <2>2, <2>3 DEF Kept
<1> HIDE DEF A
<1>9. SumFunctionOnSet(Size, A \cup {wanted}) = SumFunctionOnSet(Size, A) + Size[wanted]
  BY <1>1, <1>7, StringsAreBytes, SumGrow
<1>10. SumFunctionOnSet(Size, A) = Used(blocks) /\ Size[wanted] = Len(wanted) + 1 /\ Len(wanted) \in Nat
  <2>1. Len(wanted) \in Nat
    BY <1>1, StringsAreBytes, ByteIs
  <2> QED
    BY <1>1, <2>1, ArenaUsed DEF Size
<1>11. arena_used' = SumFunctionOnSet(Size, Kept(memory'))
  <2>1. arena_used' = Used(blocks')
    BY ArenaUsed DEF arena_used, Used
  <2>2. blocks'[n].used - b.used = Len(wanted) + 1
    <3> HIDE DEF b
    <3> QED
      BY <1>3, <1>4, <1>5, <1>10
  <2> QED
    BY <1>6, <1>8, <1>9, <1>10, <2>1, <2>2
<1>12. ~Appending'
  BY <1>2 DEF Appending
<1>13. Len(base') = Len(memory') /\ \A i \in 1..Len(memory') : base'[i] = i
  <2>1. Len(memory') = m + 1
    BY <1>1, <1>2
  <2> HIDE DEF m
  <2>2. base' = [base EXCEPT ![m + 1] = m + 1] /\ DOMAIN base = 1..(m + 1)
    BY <1>1, <1>2
  <2>3. Len(base') = m + 1
    BY <1>1, <1>7, <2>2
  <2>4. ASSUME NEW i \in 1..(m + 1) PROVE base'[i] = i
    <3>1. i = m + 1 \/ i \in 1..m
      BY <1>7
    <3> QED
      BY <1>1, <2>2, <3>1
  <2> QED
    BY <2>1, <2>3, <2>4
<1>14. Len(memory') \in Nat /\ Len(base') = Len(memory') + Wanting'
  <2>1. Len(memory') \in Nat
    BY <1>1, <1>2
  <2> QED
    BY <1>12, <1>13, <2>1 DEF Wanting
<1> QED
  BY <1>11, <1>12, <1>13, <1>14 DEF RoomInv

(* A new block has nothing in it.                                          *)
LEMMA GrowRoom ==
    ASSUME TInv, RoomInv, ArenaGrows
    PROVE  RoomInv'
<1>1. AInv'
  BY ArenaSteps, NextAInv DEF TInv, SymbolsNext
<1>2. blocks \in Seq(Block) /\ blocks' \in Seq(Block)
  BY <1>1 DEF AInv, ArenaTypeOK, TInv
<1>3. PICK b : blocks' = Append(blocks, b) /\ b.used = 0
  BY DEF ArenaGrows, Extend
<1>4. Len(blocks') = Len(blocks) + 1 /\ (\A k \in 1..Len(blocks) : blocks'[k].used = blocks[k].used)
      /\ blocks'[Len(blocks')].used = 0
  BY <1>2, <1>3
<1> DEFINE bs == blocks
           cs == blocks'
<1>5. /\ bs \in Seq(Block) /\ cs \in Seq(Block) /\ Len(cs) = Len(bs) + 1
      /\ (\A k \in 1..Len(bs) : cs[k].used = bs[k].used) /\ cs[Len(cs)].used = 0
  BY <1>2, <1>4
<1> HIDE DEF bs, cs
<1>6. Used(cs) = Used(bs)
  BY <1>5, UsedKept
<1>7. arena_used' = arena_used
  BY <1>6 DEF arena_used, Used, bs, cs
<1> QED
  BY <1>7 DEF RoomInv, ArenaGrows, Extend, Appending, Wanting

(* Every step keeps the table and its arena in agreement.                  *)
LEMMA NextRoomInv == TInv /\ RoomInv /\ [SymbolsNext]_symbolVars => RoomInv'
<1> SUFFICES ASSUME TInv, RoomInv, [SymbolsNext]_symbolVars PROVE RoomInv'
  OBVIOUS
<1>1. CASE UNCHANGED <<blocks, request, base, memory, wanted, errors>>
  BY <1>1 DEF RoomInv, Appending, Wanting, arena_used
<1>2. CASE \E s \in Strings : AppendRefused(s) \/ AppendDuplicate(s) \/ NoSlot(s)
  <2>1. UNCHANGED <<blocks, request, base, memory, wanted>> /\ errors' \in {errors, TRUE}
    BY <1>2 DEF AppendRefused, AppendDuplicate, NoSlot, arenaVars, symbolVars
  <2> QED
    BY <2>1 DEF RoomInv, Appending, Wanting, arena_used
<1>3. CASE \E s \in Strings : AppendSlot(s)
  BY <1>3, AppendSlotRoom
<1>4. CASE ArenaGrows
  BY <1>4, GrowRoom
<1>5. CASE Fill
  BY <1>5, FillRoom
<1>6. CASE NoRoom
  BY <1>6 DEF RoomInv, NoRoom, Fail, Appending, arena_used
<1>7. CASE Compile
  BY <1>1, <1>7 DEF Compile, arenaVars
<1>8. CASE FreeTable
  <2>1. /\ blocks' = <<>> /\ base' = <<>> /\ memory' = <<>> /\ UNCHANGED <<wanted, errors, request>> /\ ~Appending
    BY <1>8 DEF FreeTable, ArenaFree
  <2>2. arena_used' = Used(blocks') /\ ~Appending'
    BY <2>1 DEF arena_used, Used, Appending
  <2>3. arena_used' = SumFunctionOnSet(Size, Kept(memory'))
    BY <2>1, <2>2, NothingKept
  <2>4. Len(base') = Len(memory') + Wanting' /\ \A i \in 1..Len(memory') : FALSE
    BY <2>1, <2>2 DEF Wanting
  <2> QED
    BY <2>2, <2>3, <2>4 DEF RoomInv
<1>9. CASE UNCHANGED symbolVars
  BY <1>1, <1>9 DEF symbolVars, arenaVars
<1> QED
  BY <1>2, <1>3, <1>4, <1>5, <1>6, <1>7, <1>8, <1>9 DEF SymbolsNext

-----------------------------------------------------------------------------
(* What has been compiled is a sorted list of the strings of the table, as *)
(* long as the table is there.                                             *)
Compiled(names) ==
    /\ names \in Seq(Strings) /\ Ascends(names) /\ LaidOut(names, list, region)
    /\ base # <<>> => FrontSet(names, Len(names)) = Kept(memory)
CompiledInv == region # <<>> => ~errors /\ ~Appending /\ \E names : Compiled(names)

(* Without a failure the strings of the table are those that were appended.*)
LEMMA TableKeeps ==
    ASSUME TInv, RoomInv, ~errors, ~Appending
    PROVE  /\ Kept(memory) \in SUBSET Strings /\ IsFiniteSet(Kept(memory))
           /\ {memory[base[i]] : i \in DOMAIN base} = Kept(memory)
           /\ \A s : Known(s) <=> s \in Kept(memory)
<1> DEFINE m == Len(memory)
           A == Kept(memory)
<1>1. memory \in Seq(Strings) /\ m \in Nat /\ DOMAIN memory = 1..m /\ \A k \in 1..m : memory[k] \in Strings
  <2>1. memory \in Seq(Strings)
    BY DEF TInv, SlotInv
  <2> QED
    BY <2>1, ElementOfSeq
<1>2. DOMAIN base = 1..m /\ \A i \in 1..m : base[i] = i
  <2>1. base \in Seq(Nat) /\ Len(base) = m + 0 /\ \A i \in 1..m : base[i] = i
    BY DEF TInv, SlotInv, RoomInv, Wanting
  <2>2. Len(base) = m
    BY <1>1, <2>1
  <2> QED
    BY <2>1, <2>2
<1> HIDE DEF m
<1>3. A \in SUBSET Strings
  BY <1>1 DEF Kept
<1>4. IsFiniteSet(A)
  <2>1. IsFiniteSet(1..m)
    BY <1>1, FS_Interval
  <2>2. memory \in Surjection(1..m, A)
    <3>1. memory \in [1..m -> A] /\ \A y \in A : \E k \in 1..m : memory[k] = y
      BY <1>1 DEF Kept
    <3> QED
      BY <3>1 DEF Surjection
  <2> HIDE DEF A
  <2> QED
    BY <2>1, <2>2, FS_Surjection
<1>5. {memory[base[i]] : i \in DOMAIN base} = A /\ \A s : Known(s) <=> s \in A
  BY <1>1, <1>2 DEF Kept, Known
<1> QED
  BY <1>3, <1>4, <1>5

(* symbol_compile sorts the strings and lays them out.                     *)
LEMMA CompileCompiles ==
    ASSUME TInv, RoomInv, Compile
    PROVE  CompiledInv'
<1> DEFINE S == Kept(memory)
           names == Sorted(S)
<1>1. ~errors /\ ~Appending /\ UNCHANGED <<errors, wanted, base, memory>>
  BY DEF Compile, Open
<1>2. S \in SUBSET Strings /\ IsFiniteSet(S) /\ {memory[base[i]] : i \in DOMAIN base} = S
  BY <1>1, TableKeeps
<1>3. LaidOut(names, list', region')
  <2>1. /\ region' = FlattenSeq([i \in DOMAIN names |-> Append(names[i], 0)])
        /\ list' = [i \in DOMAIN names |-> Len(FlattenSeq([j \in 1..(i - 1) |-> Append(names[j], 0)])) + 1]
    BY <1>2, Zenon DEF Compile
  <2> QED
    BY <2>1, Zenon DEF LaidOut, Terminated
<1>4. Lists(names, S)
  <2> HIDE DEF S
  <2> QED
    BY <1>2, StringsAreBytes, SortedLists
<1> HIDE DEF names
<1>5. names \in Seq(S) /\ Ascends(names) /\ \A s \in S : \E i \in 1..Len(names) : names[i] = s
  BY <1>4 DEF Lists
<1>6. names \in Seq(Strings)
  BY <1>2, <1>5, SeqMonotonic
<1>7. FrontSet(names, Len(names)) = S
  <2>1. \A i \in 1..Len(names) : names[i] \in S
    BY <1>5, ElementOfSeq
  <2> HIDE DEF S
  <2> QED
    BY <1>5, <2>1 DEF FrontSet
<1> PICK sorted : sorted = names
  OBVIOUS
<1>8. Compiled(sorted)'
  <2>1. Kept(memory') = S
    BY <1>1 DEF Kept
  <2>2. /\ sorted \in Seq(Strings) /\ Ascends(sorted) /\ LaidOut(sorted, list', region')
        /\ FrontSet(sorted, Len(sorted)) = Kept(memory')
    BY <1>3, <1>5, <1>6, <1>7, <2>1
  <2> QED
    BY <2>2 DEF Compiled
<1> QED
  BY <1>1, <1>8 DEF CompiledInv, Appending

(* Compiled once, and not changed afterwards.                              *)
LEMMA NextCompiledInv == TInv /\ RoomInv /\ CompiledInv /\ [SymbolsNext]_symbolVars => CompiledInv'
<1> SUFFICES ASSUME TInv, RoomInv, CompiledInv, [SymbolsNext]_symbolVars PROVE CompiledInv'
  OBVIOUS
<1>1. CASE Compile
  BY <1>1, CompileCompiles
<1>2. CASE /\ UNCHANGED <<list, region>>
           /\ region # <<>> => UNCHANGED <<errors, wanted>> /\ (base' = <<>> \/ UNCHANGED <<base, memory>>)
  <2> SUFFICES ASSUME region' # <<>> PROVE CompiledInv'
    BY DEF CompiledInv
  <2>1. UNCHANGED <<list, region, errors, wanted>> /\ (base' = <<>> \/ UNCHANGED <<base, memory>>)
    BY <1>2
  <2>2. PICK names : Compiled(names)
    BY <2>1 DEF CompiledInv
  <2>3. Compiled(names)'
    BY <2>1, <2>2 DEF Compiled, Kept
  <2>4. ~errors' /\ ~Appending'
    BY <2>1 DEF CompiledInv, Appending
  <2> QED
    BY <2>3, <2>4 DEF CompiledInv
<1>3. CASE \E s \in Strings : AppendRefused(s) \/ AppendDuplicate(s) \/ AppendSlot(s) \/ NoSlot(s)
  BY <1>2, <1>3 DEF AppendRefused, AppendDuplicate, AppendSlot, NoSlot, Open, symbolVars
<1>4. CASE ArenaGrows \/ Fill \/ NoRoom
  <2>1. UNCHANGED <<list, region>>
    BY <1>4 DEF ArenaGrows, Fill, NoRoom
  <2>2. Pending
    BY <1>4 DEF ArenaGrows, Fill, NoRoom, Extend, Take, Fail, NeedsBlock
  <2>3. region = <<>>
    BY <2>2 DEF TInv, SlotInv
  <2> QED
    BY <1>2, <2>1, <2>3
<1>5. CASE FreeTable
  BY <1>2, <1>5 DEF FreeTable
<1>6. CASE UNCHANGED symbolVars
  BY <1>2, <1>6 DEF symbolVars
<1> QED
  BY <1>1, <1>3, <1>4, <1>5, <1>6 DEF SymbolsNext

(* The three invariants hold of every table, however it is used.           *)
THEOREM TablesInvariant == SymbolsSpec => [](TInv /\ RoomInv /\ CompiledInv)
<1>1. SymbolsInit => CompiledInv
  BY DEF SymbolsInit, CompiledInv
<1> QED
  BY <1>1, InitTInv, InitRoomInv, NextTInv, NextRoomInv, NextCompiledInv, PTL DEF SymbolsSpec

(* The region is as long as the arena is used.                             *)
LEMMA RegionOfInv == TInv /\ RoomInv /\ CompiledInv => RegionFilledExactly
<1> SUFFICES ASSUME RoomInv, CompiledInv, region # <<>>, base # <<>> PROVE Len(region) = arena_used
  BY DEF RegionFilledExactly
<1>1. PICK names : Compiled(names)
  BY DEF CompiledInv
<1>2. /\ names \in Seq(Strings) /\ Ascends(names) /\ LaidOut(names, list, region)
      /\ FrontSet(names, Len(names)) = Kept(memory)
  BY <1>1 DEF Compiled
<1>3. Len(region) = SumFunctionOnSet(Size, FrontSet(names, Len(names)))
  BY <1>2, RegionLength
<1> QED
  BY <1>2, <1>3 DEF RoomInv

(* A search of the list, by either comparison.                             *)
LEMMA SearchesList ==
    ASSUME NEW names, Compiled(names), NEW s \in Strings
    PROVE  /\ symbol_nresolve(s) = symbol_resolve(s)
           /\ symbol_nresolve(s) # 0 => symbol_lookup(symbol_nresolve(s)) = s
           /\ symbol_nresolve(s) # 0 <=> s \in FrontSet(names, Len(names))
<1> DEFINE n == Len(names)
           cs == [i \in 1..n |-> symbol_compare(s, names[i])]
           r == Search(cs)
<1>1. names \in Seq(Bytes) /\ Ascends(names) /\ LaidOut(names, list, region) /\ n \in Nat /\ s \in Bytes
      /\ \A i \in 1..n : names[i] \in Bytes
  <2>1. names \in Seq(Strings) /\ Ascends(names) /\ LaidOut(names, list, region)
    BY DEF Compiled
  <2>2. names \in Seq(Bytes)
    BY <2>1, StringsAreBytes, SeqMonotonic
  <2> QED
    BY <2>1, <2>2, StringsAreBytes, ElementOfSeq
<1>2. DOMAIN list = 1..n /\ \A i \in 1..n : Listed[i] = names[i]
  <2>1. DOMAIN list = 1..n /\ \A i \in 1..n : StringAt(list[i]) = names[i]
    BY <1>1, ReadsBack
  <2> QED
    BY <2>1 DEF Listed
<1>3. \A i \in 1..n : /\ symbol_ncompare(s, Listed[i]) = symbol_compare(s, names[i])
                      /\ symbol_compare(s, names[i]) \in Int
                      /\ symbol_compare(s, names[i]) = 0 <=> s = names[i]
  BY <1>1, <1>2, Comparisons
<1>4. symbol_nresolve(s) = r /\ symbol_resolve(s) = r
  <2>1. [i \in DOMAIN list |-> symbol_ncompare(s, Listed[i])] = cs
    BY <1>2, <1>3
  <2>2. [i \in DOMAIN list |-> symbol_compare(s, Listed[i])] = cs
    BY <1>2
  <2> HIDE DEF cs
  <2> QED
    BY <2>1, <2>2, Zenon DEF symbol_nresolve, symbol_resolve
<1>5. cs \in Seq(Int) /\ Len(cs) = n /\ \A i \in 1..n : cs[i] = symbol_compare(s, names[i])
  <2>1. cs \in [1..n -> Int]
    BY <1>3
  <2> HIDE DEF n
  <2> QED
    BY <1>1, <2>1
<1> HIDE DEF cs
<1>6. Falling(cs)
  BY <1>1, <1>5, FallingIs
<1>7. PlaceOf(cs, 0, n, r)
  BY <1>5, <1>6, SearchFinds
<1> HIDE DEF r, n
<1>8. (r \in 1..n /\ names[r] = s) \/ (r = 0 /\ \A i \in 1..n : names[i] # s)
  <2>1. 0 + 1 = 1 /\ 0 \notin 1..n
    OBVIOUS
  <2> QED
    BY <1>3, <1>5, <1>7, <2>1 DEF PlaceOf
<1>9. r # 0 <=> s \in FrontSet(names, n)
  <2>1. \A i \in 1..n : i # 0
    OBVIOUS
  <2> QED
    BY <1>8, <2>1 DEF FrontSet
<1>10. r # 0 => symbol_lookup(r) = s
  BY <1>2, <1>8 DEF symbol_lookup
<1> QED
  BY <1>4, <1>9, <1>10 DEF n

(* Found if and only if appended.                                          *)
LEMMA ResolvesOfInv == TInv /\ RoomInv /\ CompiledInv => ResolvesExactly
<1> SUFFICES ASSUME TInv, RoomInv, CompiledInv, region # <<>>, NEW s \in Strings
             PROVE  /\ symbol_nresolve(s) = symbol_resolve(s)
                    /\ symbol_nresolve(s) # 0 => symbol_lookup(symbol_nresolve(s)) = s
                    /\ base # <<>> => (symbol_nresolve(s) # 0 <=> Known(s))
  BY DEF ResolvesExactly
<1>1. PICK names : Compiled(names)
  BY DEF CompiledInv
<1>2. /\ symbol_nresolve(s) = symbol_resolve(s)
      /\ symbol_nresolve(s) # 0 => symbol_lookup(symbol_nresolve(s)) = s
      /\ symbol_nresolve(s) # 0 <=> s \in FrontSet(names, Len(names))
  BY <1>1, SearchesList
<1>3. base # <<>> => (Known(s) <=> s \in FrontSet(names, Len(names)))
  <2>1. Known(s) <=> s \in Kept(memory)
    BY TableKeeps DEF CompiledInv
  <2> QED
    BY <1>1, <2>1 DEF Compiled
<1> QED
  BY <1>2, <1>3

(* symbol_compile writes its region, sized by arena_used, to the last byte *)
(* and not beyond: an arena that holds strings holds nothing else.         *)
THEOREM RegionIsFilled == SymbolsSpec => []RegionFilledExactly
BY TablesInvariant, RegionOfInv, PTL

(* A string is found in the compiled list, by either search, if and only   *)
(* if it was appended, and the place found is its own: the sort by strcmp, *)
(* both comparisons and the halving of bsearch agree, for all strings and  *)
(* numbers of strings, and after the table is freed.                       *)
THEOREM StringsResolve == SymbolsSpec => []ResolvesExactly
BY TablesInvariant, ResolvesOfInv, PTL
=============================================================================
