------------------------------ MODULE BoundedSets ------------------------------
(***************************************************************************)
(* Facts the other proofs share.  Bounded sets of numbers have a greatest  *)
(* one: versions, orders, numbers of requests are found as the largest in  *)
(* use plus one.  Lists gain and lose one, and hold each once as before;   *)
(* filtered they keep their order, sorted they get one and keep ties.      *)
(***************************************************************************)
EXTENDS Arrays, Integers, Sequences, SequencesExt, Functions, FiniteSetsExt, FiniteSetTheorems, SequenceTheorems,
        WellFoundedInduction, TLAPS

(* A bounded set of numbers has a greatest one.                            *)

LEMMA HasGreatest ==
    ASSUME NEW S \in SUBSET Nat, S # {}, NEW n \in Nat, \A s \in S : s <= n
    PROVE  \E m \in S : \A s \in S : s <= m
<1> DEFINE U == {k \in Nat : \A s \in S : s <= k}
           R == OpToRel(<, Nat)
<1>1. n \in U /\ U \subseteq Nat
  OBVIOUS
<1>2. IsWellFoundedOn(R, Nat)
  BY NatLessThanWellFounded
<1>3. \A x, y \in Nat : <<x, y>> \in R <=> x < y
  BY DEF OpToRel
<1> HIDE DEF R
<1>4. PICK m \in U : \A k \in Nat : <<k, m>> \in R => k \notin U
  BY <1>1, <1>2, WFMin
<1>5. \A k \in Nat : k < m => \E s \in S : ~(s <= k)
  BY <1>3, <1>4
<1>6. m \in S
  <2>1. CASE m = 0
    <3>1. PICK s \in S : s <= 0
      BY <2>1, <1>4
    <3>2. s = 0
      BY <3>1
    <3>3. QED
      BY <2>1, <3>2
  <2>2. CASE m > 0
    <3>1. m - 1 \in Nat /\ m - 1 < m
      BY <2>2
    <3>2. PICK s \in S : ~(s <= m - 1)
      BY <1>5, <3>1
    <3>3. s <= m /\ s \in Nat
      BY <1>4
    <3>4. QED
      BY <3>2, <3>3
  <2>3. m \in Nat
    BY <1>4
  <2>4. QED
    BY <2>1, <2>2, <2>3
<1>7. QED
  BY <1>4, <1>6

(* Any set of numbers has a least one.                                     *)
LEMMA HasLeast ==
    ASSUME NEW S \in SUBSET Nat, S # {}
    PROVE  \E m \in S : \A s \in S : m <= s
<1> DEFINE R == OpToRel(<, Nat)
<1>1. IsWellFoundedOn(R, Nat)
  BY NatLessThanWellFounded
<1>2. \A x, y \in Nat : <<x, y>> \in R <=> x < y
  BY DEF OpToRel
<1> HIDE DEF R
<1>3. PICK m \in S : \A k \in Nat : <<k, m>> \in R => k \notin S
  BY <1>1, WFMin
<1>4. ASSUME NEW s \in S PROVE m <= s
  <2>1. s \in Nat /\ m \in Nat
    OBVIOUS
  <2>2. ~(s < m)
    BY <1>2, <1>3, <2>1
  <2>3. QED
    BY <2>1, <2>2
<1>5. QED
  BY <1>4

(* Max is such a number.                                                   *)
LEMMA MaxIsGreatest ==
    ASSUME NEW S \in SUBSET Nat, S # {}, NEW n \in Nat, \A s \in S : s <= n
    PROVE  Max(S) \in S /\ \A s \in S : s <= Max(S)
<1>1. \E m \in S : \A s \in S : m >= s
  <2>1. PICK m \in S : \A s \in S : s <= m
    BY HasGreatest
  <2>2. \A s \in S : m >= s
    BY <2>1
  <2>3. QED
    BY <2>2
<1>2. Max(S) \in S /\ \A s \in S : Max(S) >= s
  BY <1>1 DEF Max
<1>3. QED
  BY <1>2

(* Of two.                                                                 *)
LEMMA MaxOfTwo ==
    ASSUME NEW a \in Int, NEW b \in Int
    PROVE  Max({a, b}) = IF a < b THEN b ELSE a
<1> DEFINE m == IF a < b THEN b ELSE a
<1>1. m \in {a, b} /\ \A y \in {a, b} : m >= y
  OBVIOUS
<1>2. \A x \in {a, b} : (\A y \in {a, b} : x >= y) => x = m
  OBVIOUS
<1> HIDE DEF m
<1>3. Max({a, b}) = m
  BY <1>1, <1>2 DEF Max
<1>4. QED
  BY <1>3 DEF m

LEMMA MinOfTwo ==
    ASSUME NEW a \in Int, NEW b \in Int
    PROVE  Min({a, b}) = IF a < b THEN a ELSE b
<1> DEFINE m == IF a < b THEN a ELSE b
<1>1. m \in {a, b} /\ \A y \in {a, b} : m <= y
  OBVIOUS
<1>2. \A x \in {a, b} : (\A y \in {a, b} : x <= y) => x = m
  OBVIOUS
<1> HIDE DEF m
<1>3. Min({a, b}) = m
  BY <1>1, <1>2 DEF Min
<1>4. QED
  BY <1>3 DEF m

(* Two sequences that grow by the same rule are the same.                  *)
LEMMA SameByRule ==
    ASSUME NEW n \in Nat, NEW f, NEW g,
           \A i \in 1..n : (i = 1 \/ f[i - 1] = g[i - 1]) => f[i] = g[i]
    PROVE  \A i \in 1..n : f[i] = g[i]
<1> DEFINE D == {i \in 1..n : f[i] # g[i]}
<1>1. SUFFICES ASSUME D # {} PROVE FALSE
  OBVIOUS
<1>2. PICK m \in D : \A i \in D : m <= i
  <2>1. D \in SUBSET Nat
    OBVIOUS
  <2> HIDE DEF D
  <2> QED
    BY <1>1, <2>1, HasLeast
<1>3. m \in 1..n /\ m # 1 /\ f[m - 1] # g[m - 1]
  OBVIOUS
<1>4. m - 1 \in D
  BY <1>3
<1>5. m - 1 \in Nat /\ m \in Nat /\ m <= m - 1
  BY <1>2, <1>3, <1>4
<1>6. QED
  BY <1>5

(* The same, for any two of them at once.                                  *)
LEMMA SameSteps ==
    ASSUME NEW n \in Nat
    PROVE  \A f, g : (\A i \in 1..n : (i = 1 \/ f[i - 1] = g[i - 1]) => f[i] = g[i])
                       => \A i \in 1..n : f[i] = g[i]
<1> SUFFICES ASSUME NEW f, NEW g, \A i \in 1..n : (i = 1 \/ f[i - 1] = g[i - 1]) => f[i] = g[i]
             PROVE  \A i \in 1..n : f[i] = g[i]
  OBVIOUS
<1> QED
  BY SameByRule

(* Sets made of one value for each of finitely many.                       *)
LEMMA FiniteImage ==
    ASSUME NEW S, IsFiniteSet(S), NEW f, DOMAIN f = S
    PROVE  IsFiniteSet({f[x] : x \in S})
<1> DEFINE T == {f[x] : x \in S}
           g == [x \in S |-> f[x]]
<1>1. g \in Surjection(S, T)
  BY DEF Surjection
<1>2. QED
  BY <1>1, FS_Surjection

(* What a list holds is finitely many.                                     *)
LEMMA RangeIsFinite ==
    ASSUME NEW S, NEW s \in Seq(S)
    PROVE  IsFiniteSet(Range(s))
<1>1. DOMAIN s = 1..Len(s) /\ Len(s) \in Nat
  BY LenProperties
<1>2. IsFiniteSet(DOMAIN s)
  BY <1>1, FS_Interval
<1>3. Range(s) = {s[i] : i \in DOMAIN s}
  BY DEF Range
<1>4. QED
  BY <1>2, <1>3, FiniteImage

(* A finite set of integers has a least and a greatest one.                *)
LEMMA FiniteHasLeast ==
    ASSUME NEW S \in SUBSET Int, IsFiniteSet(S), S # {}
    PROVE  \E m \in S : \A s \in S : m <= s
<1> DEFINE Bad(n) == \E T \in SUBSET Int : /\ IsFiniteSet(T) /\ T # {} /\ Cardinality(T) = n
                                           /\ ~\E m \in T : \A s \in T : m <= s
           B == {n \in Nat : Bad(n)}
<1>1. SUFFICES ASSUME B # {} PROVE FALSE
  BY FS_CardinalityType
<1>2. PICK n \in B : \A k \in B : n <= k
  BY <1>1, HasLeast
<1>3. PICK T \in SUBSET Int : /\ IsFiniteSet(T) /\ T # {} /\ Cardinality(T) = n
                              /\ ~\E m \in T : \A s \in T : m <= s
  OBVIOUS
<1>4. PICK x \in T : TRUE
  BY <1>3
<1> DEFINE U == T \ {x}
<1>5. IsFiniteSet(U) /\ Cardinality(U) = n - 1 /\ U \subseteq Int
  BY <1>3, FS_RemoveElement
<1>6. U # {}
  BY <1>3
<1>7. n - 1 \in Nat
  BY <1>5, FS_CardinalityType
<1>8. n - 1 \notin B
  BY <1>2, <1>7
<1>9. PICK m \in U : \A s \in U : m <= s
  BY <1>5, <1>6, <1>7, <1>8
<1>10. CASE x <= m
  BY <1>3, <1>9, <1>10
<1>11. CASE ~(x <= m)
  BY <1>3, <1>9, <1>11
<1>12. QED
  BY <1>10, <1>11

LEMMA FiniteHasGreatest ==
    ASSUME NEW S \in SUBSET Int, IsFiniteSet(S), S # {}
    PROVE  \E m \in S : \A s \in S : s <= m
<1> DEFINE f == [s \in S |-> -s]
           T == {f[s] : s \in S}
<1>1. IsFiniteSet(T)
  <2>1. DOMAIN f = S
    OBVIOUS
  <2> HIDE DEF f
  <2>2. QED
    BY <2>1, FiniteImage
<1>2. T \in SUBSET Int /\ T # {}
  <2>1. \A s \in S : f[s] \in Int
    OBVIOUS
  <2>2. PICK s \in S : TRUE
    OBVIOUS
  <2> HIDE DEF f
  <2>3. f[s] \in T
    OBVIOUS
  <2>4. T \subseteq Int
    BY <2>1
  <2>5. QED
    BY <2>3, <2>4
<1>3. PICK m \in T : \A t \in T : m <= t
  BY <1>1, <1>2, FiniteHasLeast
<1>4. PICK s \in S : m = -s
  OBVIOUS
<1>5. \A u \in S : -u \in T
  OBVIOUS
<1>6. \A u \in S : u <= s
  BY <1>3, <1>4, <1>5
<1>7. QED
  BY <1>6

-----------------------------------------------------------------------------
(* Sequences that gain or lose one.                                         *)

(* What is left of a sequence without its i-th place.                     *)
LEMMA RemovedAt ==
    ASSUME NEW S, NEW s \in Seq(S), NEW i \in 1 .. Len(s)
    PROVE  /\ RemoveAt(s, i) \in Seq(S)
           /\ Len(RemoveAt(s, i)) = Len(s) - 1
           /\ \A k \in 1 .. (Len(s) - 1) :
                RemoveAt(s, i)[k] = IF k < i THEN s[k] ELSE s[k + 1]
<1> DEFINE a == SubSeq(s, 1, i - 1)
           b == SubSeq(s, i + 1, Len(s))
<1>1. /\ a \in Seq(S) /\ Len(a) = i - 1
      /\ \A k \in 1 .. (i - 1) : a[k] = s[k]
  BY SubSeqProperties, LenProperties
<1>2. /\ b \in Seq(S) /\ Len(b) = Len(s) - i
      /\ \A k \in 1 .. (Len(s) - i) : b[k] = s[k + i]
  BY SubSeqProperties, LenProperties
<1>3. RemoveAt(s, i) = a \o b
  BY DEF RemoveAt
<1> HIDE DEF a, b
<1>4. /\ a \o b \in Seq(S)
      /\ Len(a \o b) = Len(a) + Len(b)
      /\ \A k \in 1 .. (Len(a) + Len(b)) :
           (a \o b)[k] = IF k <= Len(a) THEN a[k] ELSE b[k - Len(a)]
  BY <1>1, <1>2, ConcatProperties
<1>5. QED
  BY <1>1, <1>2, <1>3, <1>4, LenProperties

(* A sequence with one more in the i-th place.                             *)
LEMMA InsertedAt ==
    ASSUME NEW S, NEW s \in Seq(S), NEW e \in S, NEW i \in 1 .. (Len(s) + 1)
    PROVE  /\ InsertAt(s, i, e) \in Seq(S)
           /\ Len(InsertAt(s, i, e)) = Len(s) + 1
           /\ \A k \in 1 .. (Len(s) + 1) :
                InsertAt(s, i, e)[k] =
                  IF k < i THEN s[k] ELSE IF k = i THEN e ELSE s[k - 1]
<1> DEFINE a == SubSeq(s, 1, i - 1)
           b == SubSeq(s, i, Len(s))
           c == a \o <<e>>
<1>1. /\ a \in Seq(S) /\ Len(a) = i - 1
      /\ \A k \in 1 .. (i - 1) : a[k] = s[k]
  BY SubSeqProperties, LenProperties
<1>2. /\ b \in Seq(S) /\ Len(b) = Len(s) - i + 1
      /\ \A k \in 1 .. (Len(s) - i + 1) : b[k] = s[k + i - 1]
  BY SubSeqProperties, LenProperties
<1>3. InsertAt(s, i, e) = c \o b
  BY DEF InsertAt
<1> HIDE DEF a, b
<1>4. /\ c \in Seq(S) /\ Len(c) = i /\ c[i] = e
      /\ \A k \in 1 .. (i - 1) : c[k] = s[k]
  BY <1>1, ConcatProperties, SMTT(30)
<1> HIDE DEF c
<1>5. /\ c \o b \in Seq(S)
      /\ Len(c \o b) = Len(c) + Len(b)
      /\ \A k \in 1 .. (Len(c) + Len(b)) :
           (c \o b)[k] = IF k <= Len(c) THEN c[k] ELSE b[k - Len(c)]
  BY <1>4, <1>2, ConcatProperties
<1>6. Len(c) + Len(b) = Len(s) + 1
  BY <1>4, <1>2, LenProperties
<1>7. ASSUME NEW k \in 1 .. (Len(s) + 1)
      PROVE  (c \o b)[k] = IF k < i THEN s[k] ELSE IF k = i THEN e ELSE s[k - 1]
  <2>1. CASE k < i
    BY <2>1, <1>4, <1>5, <1>6
  <2>2. CASE k = i
    BY <2>2, <1>4, <1>5, <1>6
  <2>3. CASE k > i
    <3>1. (c \o b)[k] = b[k - i]
      BY <2>3, <1>4, <1>5, <1>6
    <3>2. k - i \in 1 .. (Len(s) - i + 1)
      BY <2>3, LenProperties
    <3>3. QED
      BY <3>1, <3>2, <1>2, <2>3
  <2>4. QED
    <3>1. k < i \/ k = i \/ k > i
      BY LenProperties
    <3>2. QED
      BY <2>1, <2>3, <2>2, <3>1
<1>8. QED
  BY <1>3, <1>5, <1>6, <1>7

(* If it was not there before, each is still there once.                  *)
LEMMA InsertedOnce ==
    ASSUME NEW T, NEW r \in Seq(T), IsInjective(r), NEW a \in T, a \notin Range(r),
           NEW p \in 1 .. Len(r) + 1
    PROVE  LET d == InsertAt(r, p, a)
           IN  /\ d \in Seq(T) /\ Len(d) = Len(r) + 1 /\ IsInjective(d) /\ Range(d) = Range(r) \cup {a}
               /\ \A i \in 1 .. Len(r) + 1 : d[i] = IF i < p THEN r[i] ELSE IF i = p THEN a ELSE r[i - 1]
<1> DEFINE d == InsertAt(r, p, a)
<1>1. /\ d \in Seq(T) /\ Len(d) = Len(r) + 1
      /\ \A i \in 1 .. Len(r) + 1 : d[i] = IF i < p THEN r[i] ELSE IF i = p THEN a ELSE r[i - 1]
  <2>1. \A S : \A s \in Seq(S) : \A e \in S : \A i \in 1 .. (Len(s) + 1) :
          /\ InsertAt(s, i, e) \in Seq(S)
          /\ Len(InsertAt(s, i, e)) = Len(s) + 1
          /\ \A k \in 1 .. (Len(s) + 1) :
               InsertAt(s, i, e)[k] = IF k < i THEN s[k] ELSE IF k = i THEN e ELSE s[k - 1]
    BY InsertedAt
  <2>2. d \in Seq(T)
    BY <2>1
  <2>3. Len(d) = Len(r) + 1
    BY <2>1
  <2>4. \A i \in 1 .. Len(r) + 1 : d[i] = IF i < p THEN r[i] ELSE IF i = p THEN a ELSE r[i - 1]
    BY <2>1
  <2>5. QED
    BY <2>2, <2>3, <2>4
<1> HIDE DEF d
<1>2. DOMAIN r = 1 .. Len(r) /\ DOMAIN d = 1 .. Len(r) + 1 /\ Len(r) \in Nat
  BY <1>1, LenProperties
<1>3. /\ \A i \in 1 .. Len(r) : r[i] # a
      /\ \A i, j \in 1 .. Len(r) : r[i] = r[j] => i = j
  BY <1>2 DEF Range, IsInjective
<1>4. d[p] = a
  BY <1>1
<1>5. IsInjective(d)
  <2> DEFINE from(i) == IF i < p THEN i ELSE i - 1
  <2>1. ASSUME NEW i \in 1 .. Len(r) + 1, i # p
        PROVE  from(i) \in 1 .. Len(r) /\ d[i] = r[from(i)] /\ d[i] # a
    <3>1. from(i) \in 1 .. Len(r)
      BY <1>2, <2>1
    <3>2. d[i] = r[from(i)]
      BY <1>1, <1>2, <2>1
    <3>3. QED
      BY <1>3, <3>1, <3>2
  <2>2. ASSUME NEW i \in 1 .. Len(r) + 1, NEW j \in 1 .. Len(r) + 1, d[i] = d[j] PROVE i = j
    <3>1. CASE i = p \/ j = p
      BY <1>4, <2>1, <2>2, <3>1
    <3>2. CASE i # p /\ j # p
      <4>1. from(i) = from(j)
        BY <1>3, <2>1, <2>2, <3>2
      <4>2. QED
        BY <1>2, <3>2, <4>1
    <3>3. QED
      BY <3>1, <3>2
  <2>3. QED
    BY <1>2, <2>2 DEF IsInjective
<1>6. Range(d) = Range(r) \cup {a}
  <2>1. ASSUME NEW i \in 1 .. Len(r) PROVE \E k \in 1 .. Len(r) + 1 : d[k] = r[i]
    <3>1. CASE i < p
      <4>1. i \in 1 .. Len(r) + 1
        BY <1>2
      <4>2. QED
        BY <1>1, <3>1, <4>1
    <3>2. CASE ~(i < p)
      <4>1. i + 1 \in 1 .. Len(r) + 1 /\ ~(i + 1 < p) /\ i + 1 # p /\ i + 1 - 1 = i
        BY <1>2, <3>2
      <4>2. d[i + 1] = r[i]
        BY <1>1, <4>1
      <4>3. QED
        BY <4>1, <4>2
    <3>3. QED
      BY <3>1, <3>2
  <2>2. ASSUME NEW k \in 1 .. Len(r) + 1, k # p PROVE \E i \in 1 .. Len(r) : d[k] = r[i]
    <3>1. CASE k < p
      <4>1. k \in 1 .. Len(r)
        BY <1>2, <3>1
      <4>2. QED
        BY <1>1, <3>1, <4>1
    <3>2. CASE ~(k < p)
      <4>1. k - 1 \in 1 .. Len(r)
        BY <1>2, <2>2, <3>2
      <4>2. QED
        BY <1>1, <2>2, <3>2, <4>1
    <3>3. QED
      BY <3>1, <3>2
  <2>3. p \in DOMAIN d
    BY <1>2
  <2>4. \A x \in Range(r) \cup {a} : x \in Range(d)
    BY <1>2, <1>4, <2>1, <2>3 DEF Range
  <2>5. \A k \in 1 .. Len(r) + 1 : d[k] \in Range(r) \cup {a}
    BY <1>2, <1>4, <2>2 DEF Range
  <2>6. \A x \in Range(d) : x \in Range(r) \cup {a}
    BY <1>2, <2>5 DEF Range
  <2>7. QED
    BY <2>4, <2>6
<1>7. QED
  BY <1>1, <1>5, <1>6 DEF d

(* What is kept of a list, up to one of its places.                        *)
KeptOf(s, S, n, F) ==
    F = [i \in 0..n |-> IF i = 0 THEN <<>> ELSE IF s[i] \in S THEN Append(F[i - 1], s[i]) ELSE F[i - 1]]

LEMMA KeptStep ==
    ASSUME NEW s, NEW S, NEW m \in Nat, m > 0, NEW F, KeptOf(s, S, m - 1, F)
    PROVE  \E G : KeptOf(s, S, m, G)
<1> DEFINE last == IF s[m] \in S THEN Append(F[m - 1], s[m]) ELSE F[m - 1]
           G == [i \in 0..m |-> IF i = m THEN last ELSE F[i]]
<1>1. \A i \in 0..(m - 1) : G[i] = F[i]
  OBVIOUS
<1>2. G[m] = last
  OBVIOUS
<1>3. \A i \in 0..(m - 1) :
        F[i] = IF i = 0 THEN <<>> ELSE IF s[i] \in S THEN Append(F[i - 1], s[i]) ELSE F[i - 1]
  <2>1. \A i \in DOMAIN F :
          F[i] = IF i = 0 THEN <<>> ELSE IF s[i] \in S THEN Append(F[i - 1], s[i]) ELSE F[i - 1]
    BY ZenonT(40) DEF KeptOf
  <2>2. DOMAIN F = 0..(m - 1)
    BY ZenonT(40) DEF KeptOf
  <2>3. QED
    BY <2>1, <2>2
<1>4. ASSUME NEW i \in 0..m
      PROVE  G[i] = IF i = 0 THEN <<>> ELSE IF s[i] \in S THEN Append(G[i - 1], s[i]) ELSE G[i - 1]
  <2> HIDE DEF G
  <2>1. CASE i = m
    <3>1. m - 1 \in 0..(m - 1) /\ i # 0
      BY <2>1
    <3>2. G[m - 1] = F[m - 1]
      BY <1>1, <3>1
    <3>3. QED
      BY <1>2, <2>1, <3>1, <3>2
  <2>2. CASE i # m
    <3>1. i \in 0..(m - 1) /\ (i # 0 => i - 1 \in 0..(m - 1))
      BY <2>2
    <3>2. G[i] = F[i] /\ (i # 0 => G[i - 1] = F[i - 1])
      BY <1>1, <3>1
    <3>3. QED
      BY <1>3, <3>1, <3>2
  <2>3. QED
    BY <2>1, <2>2
<1>5. DOMAIN G = 0..m /\ G = [i \in 0..m |-> G[i]]
  OBVIOUS
<1> HIDE DEF G
<1>6. KeptOf(s, S, m, G)
  BY <1>4, <1>5 DEF KeptOf
<1>7. QED
  BY <1>6

LEMMA KeptExists ==
    ASSUME NEW s, NEW S, NEW n \in Nat
    PROVE  \E F : KeptOf(s, S, n, F)
<1> DEFINE B == {k \in Nat : ~\E F : KeptOf(s, S, k, F)}
<1>1. SUFFICES ASSUME B # {} PROVE FALSE
  OBVIOUS
<1>2. PICK m \in B : \A k \in B : m <= k
  <2>1. B \in SUBSET Nat
    OBVIOUS
  <2> HIDE DEF B
  <2>2. QED
    BY <1>1, <2>1, HasLeast
<1>3. CASE m = 0
  <2> DEFINE F == [i \in 0..0 |-> <<>>]
  <2>1. F = [i \in 0..0 |-> IF i = 0 THEN <<>> ELSE IF s[i] \in S THEN Append(F[i - 1], s[i]) ELSE F[i - 1]]
    <3>1. \A i \in 0..0 : i = 0
      OBVIOUS
    <3>2. QED
      BY <3>1
  <2> HIDE DEF F
  <2>2. KeptOf(s, S, 0, F)
    BY <2>1 DEF KeptOf
  <2>3. QED
    BY <1>3, <2>2
<1>4. CASE m > 0
  <2>1. m - 1 \in Nat /\ ~(m <= m - 1)
    BY <1>4
  <2>2. m - 1 \notin B
    BY <1>2, <2>1
  <2>3. PICK F : KeptOf(s, S, m - 1, F)
    BY <2>1, <2>2
  <2>4. \E G : KeptOf(s, S, m, G)
    BY <1>4, <2>3, KeptStep
  <2>5. QED
    BY <2>4
<1>5. m = 0 \/ m > 0
  BY <1>2
<1>6. QED
  BY <1>3, <1>4, <1>5

(* Which places of a list its kept part comes from: e[a] is the place of   *)
(* the a-th one kept, of the first i.                                      *)
PlacedIn(s, S, i, k, e) ==
    /\ e \in Seq(1..i) /\ Len(e) = Len(k) /\ Len(k) <= i
    /\ \A a \in 1..Len(k) : k[a] = s[e[a]] /\ s[e[a]] \in S
    /\ \A a, b \in 1..Len(k) : a < b => e[a] < e[b]
    /\ \A j \in 1..i : s[j] \in S => \E a \in 1..Len(k) : e[a] = j

LEMMA PlacedNext ==
    ASSUME NEW T, NEW s \in Seq(T), NEW S, NEW m \in 1..Len(s), NEW k \in Seq(T), NEW e,
           PlacedIn(s, S, m - 1, k, e), s[m] \in S
    PROVE  PlacedIn(s, S, m, Append(k, s[m]), Append(e, m))
<1> DEFINE n == Len(k)
           l == Append(k, s[m])
           d == Append(e, m)
<1>1. m \in Nat /\ m - 1 \in Nat /\ Len(s) \in Nat /\ n \in Nat /\ m > 0
  BY LenProperties
<1>2. e \in Seq(1..(m - 1)) /\ Len(e) = n /\ n <= m - 1
  BY DEF PlacedIn
<1>3. \A a \in 1..n : e[a] \in 1..(m - 1)
  BY <1>2, ElementOfSeq
<1>4. 1..(m - 1) \subseteq 1..m /\ m \in 1..m
  BY <1>1
<1>5. e \in Seq(1..m)
  <2>1. \A a \in 1..n : e[a] \in 1..m
    BY <1>3, <1>4
  <2>2. e = [a \in 1..n |-> e[a]]
    BY <1>2, SeqDef
  <2>3. QED
    BY <1>1, <2>1, <2>2, SeqDef
<1>6. d \in Seq(1..m) /\ Len(d) = n + 1 /\ d[n + 1] = m /\ \A a \in 1..n : d[a] = e[a]
  BY <1>2, <1>4, <1>5, AppendProperties
<1>7. s[m] \in T
  BY ElementOfSeq
<1>8. l \in Seq(T) /\ Len(l) = n + 1 /\ l[n + 1] = s[m] /\ \A a \in 1..n : l[a] = k[a]
  BY <1>7, AppendProperties
<1> HIDE DEF l, d
<1>9. \A a \in 1..(n + 1) : a \in 1..n \/ a = n + 1
  BY <1>1
<1>10. \A a \in 1..n : k[a] = s[e[a]] /\ s[e[a]] \in S
  BY DEF PlacedIn
<1>11. \A a \in 1..(n + 1) : l[a] = s[d[a]] /\ s[d[a]] \in S
  BY <1>6, <1>8, <1>9, <1>10
<1>12. ASSUME NEW a \in 1..(n + 1), NEW b \in 1..(n + 1), a < b
       PROVE  d[a] < d[b]
  <2>1. a \in 1..n
    BY <1>1, <1>12
  <2>2. d[a] = e[a] /\ e[a] \in 1..(m - 1)
    BY <1>3, <1>6, <2>1
  <2>3. CASE b = n + 1
    BY <1>1, <1>6, <2>2, <2>3
  <2>4. CASE b \in 1..n
    <3>1. e[a] < e[b]
      BY <1>12, <2>1, <2>4 DEF PlacedIn
    <3>2. QED
      BY <1>6, <2>2, <2>4, <3>1
  <2>5. QED
    BY <1>9, <2>3, <2>4
<1>13. ASSUME NEW j \in 1..m, s[j] \in S
       PROVE  \E a \in 1..(n + 1) : d[a] = j
  <2>1. CASE j = m
    <3>1. n + 1 \in 1..(n + 1)
      BY <1>1
    <3>2. QED
      BY <1>6, <2>1, <3>1
  <2>2. CASE j # m
    <3>1. j \in 1..(m - 1)
      BY <1>1, <2>2
    <3>2. PICK a \in 1..n : e[a] = j
      BY <1>13, <3>1 DEF PlacedIn
    <3>3. a \in 1..(n + 1)
      BY <1>1
    <3>4. QED
      BY <1>6, <3>2, <3>3
  <2>3. QED
    BY <2>1, <2>2
<1>14. n + 1 <= m
  BY <1>1, <1>2
<1>15. PlacedIn(s, S, m, l, d)
  BY <1>6, <1>8, <1>11, <1>12, <1>13, <1>14 DEF PlacedIn
<1>16. QED
  BY <1>15 DEF l, d

LEMMA PlacedSame ==
    ASSUME NEW T, NEW s \in Seq(T), NEW S, NEW m \in 1..Len(s), NEW k \in Seq(T), NEW e,
           PlacedIn(s, S, m - 1, k, e), s[m] \notin S
    PROVE  PlacedIn(s, S, m, k, e)
<1> DEFINE n == Len(k)
<1>1. m \in Nat /\ m - 1 \in Nat /\ Len(s) \in Nat /\ n \in Nat /\ m > 0
  BY LenProperties
<1>2. e \in Seq(1..(m - 1)) /\ Len(e) = n /\ n <= m - 1
  BY DEF PlacedIn
<1>3. \A a \in 1..n : e[a] \in 1..(m - 1)
  BY <1>2, ElementOfSeq
<1>4. 1..(m - 1) \subseteq 1..m
  BY <1>1
<1>5. e \in Seq(1..m)
  <2>1. \A a \in 1..n : e[a] \in 1..m
    BY <1>3, <1>4
  <2>2. e = [a \in 1..n |-> e[a]]
    BY <1>2, SeqDef
  <2>3. QED
    BY <1>1, <2>1, <2>2, SeqDef
<1>6. n <= m
  BY <1>1, <1>2
<1>7. ASSUME NEW j \in 1..m, s[j] \in S
      PROVE  \E a \in 1..n : e[a] = j
  <2>1. j # m
    BY <1>7
  <2>2. j \in 1..(m - 1)
    BY <1>1, <2>1
  <2>3. QED
    BY <1>7, <2>2 DEF PlacedIn
<1>8. /\ \A a \in 1..n : k[a] = s[e[a]] /\ s[e[a]] \in S
      /\ \A a, b \in 1..n : a < b => e[a] < e[b]
  BY DEF PlacedIn
<1>9. QED
  BY <1>2, <1>5, <1>6, <1>7, <1>8 DEF PlacedIn

(* What is kept of a list, with the places it comes from.                  *)
LEMMA KeptPlaces ==
    ASSUME NEW T, NEW s \in Seq(T), NEW S
    PROVE  Kept(s, S) \in Seq(T) /\ \E e : PlacedIn(s, S, Len(s), Kept(s, S), e)
<1> DEFINE n == Len(s)
           F == CHOOSE G : KeptOf(s, S, n, G)
<1>1. n \in Nat /\ DOMAIN s = 1..n
  BY LenProperties
<1>2. KeptOf(s, S, n, F)
  BY <1>1, KeptExists
<1>3. Kept(s, S) = F[n]
  BY DEF Kept, KeptOf
<1> HIDE DEF F
<1>4. \A i \in 0..n :
        F[i] = IF i = 0 THEN <<>> ELSE IF s[i] \in S THEN Append(F[i - 1], s[i]) ELSE F[i - 1]
  <2>1. \A i \in DOMAIN F :
          F[i] = IF i = 0 THEN <<>> ELSE IF s[i] \in S THEN Append(F[i - 1], s[i]) ELSE F[i - 1]
    BY <1>2, ZenonT(40) DEF KeptOf
  <2>2. DOMAIN F = 0..n
    BY <1>2, ZenonT(40) DEF KeptOf
  <2>3. QED
    BY <2>1, <2>2
<1> DEFINE Good(i) == F[i] \in Seq(T) /\ \E e : PlacedIn(s, S, i, F[i], e)
           B == {i \in 0..n : ~Good(i)}
<1>5. Good(0)
  <2>1. F[0] = <<>>
    BY <1>1, <1>4
  <2>2. PlacedIn(s, S, 0, <<>>, <<>>)
    BY DEF PlacedIn
  <2>3. QED
    BY <2>1, <2>2
<1>6. B = {}
  <2>1. SUFFICES ASSUME B # {} PROVE FALSE
    OBVIOUS
  <2>2. PICK m \in B : \A k \in B : m <= k
    <3>1. B \in SUBSET Nat
      BY <1>1
    <3> HIDE DEF B
    <3>2. QED
      BY <2>1, <3>1, HasLeast
  <2>3. m # 0
    <3> HIDE DEF Good
    <3>1. QED
      BY <1>5, <2>2
  <2>4. m \in 1..n /\ m - 1 \in 0..n /\ ~(m <= m - 1)
    BY <1>1, <2>3
  <2>5. Good(m - 1)
    <3> HIDE DEF Good
    <3>1. QED
      BY <2>2, <2>4
  <2>6. PICK e : PlacedIn(s, S, m - 1, F[m - 1], e)
    BY <2>5
  <2>7. F[m - 1] \in Seq(T)
    BY <2>5
  <2>8. F[m] = IF s[m] \in S THEN Append(F[m - 1], s[m]) ELSE F[m - 1]
    BY <1>4, <2>3, <2>4
  <2>9. Good(m)
    <3>1. CASE s[m] \in S
      <4>1. PlacedIn(s, S, m, Append(F[m - 1], s[m]), Append(e, m))
        BY <2>4, <2>6, <2>7, <3>1, PlacedNext
      <4>2. s[m] \in T
        BY <2>4, ElementOfSeq
      <4>3. Append(F[m - 1], s[m]) \in Seq(T)
        BY <2>7, <4>2, AppendProperties
      <4>4. QED
        BY <2>8, <3>1, <4>1, <4>3
    <3>2. CASE s[m] \notin S
      <4>1. PlacedIn(s, S, m, F[m - 1], e)
        BY <2>4, <2>6, <2>7, <3>2, PlacedSame
      <4>2. QED
        BY <2>7, <2>8, <3>2, <4>1
    <3>3. QED
      BY <3>1, <3>2
  <2> HIDE DEF Good
  <2>10. QED
    BY <2>2, <2>9
<1>7. Good(n)
  <2> HIDE DEF Good
  <2>1. QED
    BY <1>1, <1>6
<1>8. QED
  BY <1>3, <1>7

(* It is no longer than the list, and has those of its elements in S.      *)
LEMMA KeptHas ==
    ASSUME NEW T, NEW s \in Seq(T), NEW S
    PROVE  /\ Kept(s, S) \in Seq(T) /\ Len(Kept(s, S)) <= Len(s)
           /\ Range(Kept(s, S)) = Range(s) \cap S
<1> DEFINE k == Kept(s, S)
<1>1. PICK e : PlacedIn(s, S, Len(s), k, e)
  BY KeptPlaces
<1>2. k \in Seq(T)
  BY KeptPlaces
<1> HIDE DEF k
<1>3. DOMAIN k = 1..Len(k) /\ DOMAIN s = 1..Len(s)
  BY <1>2, LenProperties
<1>4. \A a \in 1..Len(k) : e[a] \in 1..Len(s) /\ k[a] = s[e[a]] /\ s[e[a]] \in S
  <2>1. e \in Seq(1..Len(s)) /\ Len(e) = Len(k)
    BY <1>1 DEF PlacedIn
  <2>2. QED
    BY <1>1, <2>1, ElementOfSeq DEF PlacedIn
<1>5. Range(k) \subseteq Range(s) \cap S
  BY <1>3, <1>4 DEF Range
<1>6. \A j \in 1..Len(s) : s[j] \in S => \E a \in 1..Len(k) : e[a] = j
  BY <1>1 DEF PlacedIn
<1>7. Range(s) \cap S \subseteq Range(k)
  <2>1. ASSUME NEW x \in Range(s), x \in S PROVE x \in Range(k)
    <3>1. PICK j \in 1..Len(s) : s[j] = x
      BY <1>3 DEF Range
    <3>2. PICK a \in 1..Len(k) : e[a] = j
      BY <1>6, <2>1, <3>1
    <3>3. k[a] = x
      BY <1>4, <3>1, <3>2
    <3>4. QED
      BY <1>3, <3>3 DEF Range
  <2>2. QED
    BY <2>1
<1>8. Len(k) <= Len(s)
  BY <1>1 DEF PlacedIn
<1>9. QED
  BY <1>2, <1>5, <1>7, <1>8 DEF k

(* Of a list of different ones, the kept ones in their order, each once.   *)
LEMMA KeptIs ==
    ASSUME NEW T, NEW s \in Seq(T), IsInjective(s), NEW S
    PROVE  Kept(s, S) \in Seq(T) /\ IsInjective(Kept(s, S)) /\ Range(Kept(s, S)) = Range(s) \cap S
<1> DEFINE k == Kept(s, S)
<1>1. PICK e : PlacedIn(s, S, Len(s), k, e)
  BY KeptPlaces
<1>2. k \in Seq(T) /\ Range(k) = Range(s) \cap S
  BY KeptHas
<1> HIDE DEF k
<1>3. DOMAIN k = 1..Len(k) /\ DOMAIN s = 1..Len(s) /\ Len(k) \in Nat
  BY <1>2, LenProperties
<1>4. e \in Seq(1..Len(s)) /\ Len(e) = Len(k)
  BY <1>1 DEF PlacedIn
<1>5. \A a \in 1..Len(k) : e[a] \in 1..Len(s) /\ k[a] = s[e[a]]
  BY <1>1, <1>4, ElementOfSeq DEF PlacedIn
<1>6. ASSUME NEW a \in 1..Len(k), NEW b \in 1..Len(k), k[a] = k[b] PROVE a = b
  <2>1. e[a] = e[b]
    BY <1>3, <1>5, <1>6 DEF IsInjective
  <2>2. ~(a < b) /\ ~(b < a)
    <3>1. (a < b => e[a] < e[b]) /\ (b < a => e[b] < e[a])
      BY <1>1 DEF PlacedIn
    <3>2. e[a] \in Int
      BY <1>5
    <3>3. QED
      BY <2>1, <3>1, <3>2
  <2>3. QED
    BY <1>3, <2>2
<1>7. IsInjective(k)
  BY <1>3, <1>6 DEF IsInjective
<1>8. QED
  BY <1>2, <1>7 DEF k

(* The kept ones are in the order they had.                                *)
LEMMA KeptInOrder ==
    ASSUME NEW T, NEW s \in Seq(T), NEW S
    PROVE  /\ \A a, b \in 1..Len(Kept(s, S)) : a < b =>
                 \E i, j \in 1..Len(s) : i < j /\ s[i] = Kept(s, S)[a] /\ s[j] = Kept(s, S)[b]
           /\ \A i, j \in 1..Len(s) : (i < j /\ s[i] \in S /\ s[j] \in S) =>
                 \E a, b \in 1..Len(Kept(s, S)) : a < b /\ Kept(s, S)[a] = s[i] /\ Kept(s, S)[b] = s[j]
<1> DEFINE k == Kept(s, S)
<1>1. PICK e : PlacedIn(s, S, Len(s), k, e)
  BY KeptPlaces
<1>2. k \in Seq(T)
  BY KeptPlaces
<1> HIDE DEF k
<1>3. e \in Seq(1..Len(s)) /\ Len(e) = Len(k)
  BY <1>1 DEF PlacedIn
<1>4. \A a \in 1..Len(k) : e[a] \in 1..Len(s) /\ k[a] = s[e[a]]
  BY <1>1, <1>3, ElementOfSeq DEF PlacedIn
<1>5. \A a, b \in 1..Len(k) : a < b => e[a] < e[b]
  BY <1>1 DEF PlacedIn
<1>6. ASSUME NEW a \in 1..Len(k), NEW b \in 1..Len(k), a < b
      PROVE  \E i, j \in 1..Len(s) : i < j /\ s[i] = k[a] /\ s[j] = k[b]
  <2>1. e[a] < e[b] /\ e[a] \in 1..Len(s) /\ e[b] \in 1..Len(s) /\ s[e[a]] = k[a] /\ s[e[b]] = k[b]
    BY <1>4, <1>5, <1>6
  <2>2. QED
    BY <2>1
<1>7. ASSUME NEW i \in 1..Len(s), NEW j \in 1..Len(s), i < j, s[i] \in S, s[j] \in S
      PROVE  \E a, b \in 1..Len(k) : a < b /\ k[a] = s[i] /\ k[b] = s[j]
  <2>1. PICK a \in 1..Len(k) : e[a] = i
    BY <1>1, <1>7 DEF PlacedIn
  <2>2. PICK b \in 1..Len(k) : e[b] = j
    BY <1>1, <1>7 DEF PlacedIn
  <2>3. a < b
    <3>1. a # b /\ ~(b < a)
      <4>1. b < a => e[b] < e[a]
        BY <1>5
      <4>2. i \in Int /\ j \in Int
        OBVIOUS
      <4>3. QED
        BY <1>7, <2>1, <2>2, <4>1, <4>2
    <3>2. QED
      BY <3>1
  <2>4. QED
    BY <1>4, <2>1, <2>2, <2>3
<1>8. QED
  BY <1>6, <1>7 DEF k

(* What is sorted of a list, up to one of its places.                      *)
SortedOf(s, R, n, F) ==
    F = [i \in 0..n |-> IF i = 0 THEN <<>>
                        ELSE InsertAt(F[i - 1], PlaceFor(F[i - 1], s[i], R), s[i])]

LEMMA SortedStep ==
    ASSUME NEW s, NEW R, NEW m \in Nat, m > 0, NEW F, SortedOf(s, R, m - 1, F)
    PROVE  \E G : SortedOf(s, R, m, G)
<1> DEFINE last == InsertAt(F[m - 1], PlaceFor(F[m - 1], s[m], R), s[m])
           G == [i \in 0..m |-> IF i = m THEN last ELSE F[i]]
<1>1. \A i \in 0..(m - 1) : G[i] = F[i]
  OBVIOUS
<1>2. G[m] = last
  OBVIOUS
<1>3. \A i \in 0..(m - 1) :
        F[i] = IF i = 0 THEN <<>> ELSE InsertAt(F[i - 1], PlaceFor(F[i - 1], s[i], R), s[i])
  <2>1. \A i \in DOMAIN F :
          F[i] = IF i = 0 THEN <<>> ELSE InsertAt(F[i - 1], PlaceFor(F[i - 1], s[i], R), s[i])
    BY ZenonT(40) DEF SortedOf
  <2>2. DOMAIN F = 0..(m - 1)
    BY ZenonT(40) DEF SortedOf
  <2>3. QED
    BY <2>1, <2>2
<1>4. ASSUME NEW i \in 0..m
      PROVE  G[i] = IF i = 0 THEN <<>> ELSE InsertAt(G[i - 1], PlaceFor(G[i - 1], s[i], R), s[i])
  <2> HIDE DEF G
  <2>1. CASE i = m
    <3>1. m - 1 \in 0..(m - 1) /\ i # 0
      BY <2>1
    <3>2. G[m - 1] = F[m - 1]
      BY <1>1, <3>1
    <3>3. QED
      BY <1>2, <2>1, <3>1, <3>2
  <2>2. CASE i # m
    <3>1. i \in 0..(m - 1) /\ (i # 0 => i - 1 \in 0..(m - 1))
      BY <2>2
    <3>2. G[i] = F[i] /\ (i # 0 => G[i - 1] = F[i - 1])
      BY <1>1, <3>1
    <3>3. QED
      BY <1>3, <3>1, <3>2
  <2>3. QED
    BY <2>1, <2>2
<1>5. DOMAIN G = 0..m /\ G = [i \in 0..m |-> G[i]]
  OBVIOUS
<1> HIDE DEF G
<1>6. SortedOf(s, R, m, G)
  BY <1>4, <1>5 DEF SortedOf
<1>7. QED
  BY <1>6

LEMMA SortedExists ==
    ASSUME NEW s, NEW R, NEW n \in Nat
    PROVE  \E F : SortedOf(s, R, n, F)
<1> DEFINE B == {k \in Nat : ~\E F : SortedOf(s, R, k, F)}
<1>1. SUFFICES ASSUME B # {} PROVE FALSE
  OBVIOUS
<1>2. PICK m \in B : \A k \in B : m <= k
  <2>1. B \in SUBSET Nat
    OBVIOUS
  <2> HIDE DEF B
  <2>2. QED
    BY <1>1, <2>1, HasLeast
<1>3. CASE m = 0
  <2> DEFINE F == [i \in 0..0 |-> <<>>]
  <2>1. F = [i \in 0..0 |-> IF i = 0 THEN <<>>
                            ELSE InsertAt(F[i - 1], PlaceFor(F[i - 1], s[i], R), s[i])]
    <3>1. \A i \in 0..0 : i = 0
      OBVIOUS
    <3>2. QED
      BY <3>1
  <2> HIDE DEF F
  <2>2. SortedOf(s, R, 0, F)
    BY <2>1 DEF SortedOf
  <2>3. QED
    BY <1>3, <2>2
<1>4. CASE m > 0
  <2>1. m - 1 \in Nat /\ ~(m <= m - 1)
    BY <1>4
  <2>2. m - 1 \notin B
    BY <1>2, <2>1
  <2>3. PICK F : SortedOf(s, R, m - 1, F)
    BY <2>1, <2>2
  <2>4. \E G : SortedOf(s, R, m, G)
    BY <1>4, <2>3, SortedStep
  <2>5. QED
    BY <2>4
<1>5. m = 0 \/ m > 0
  BY <1>2
<1>6. QED
  BY <1>3, <1>4, <1>5

(* Where the next one goes.                                                *)
LEMMA PlaceForIs ==
    ASSUME NEW T, NEW d \in Seq(T), NEW x, NEW R
    PROVE  /\ PlaceFor(d, x, R) \in 1..(Len(d) + 1)
           /\ \A i \in 1..(PlaceFor(d, x, R) - 1) : <<x, d[i]>> \notin R
           /\ PlaceFor(d, x, R) <= Len(d) => <<x, d[PlaceFor(d, x, R)]>> \in R
<1> DEFINE B == {i \in 1..(Len(d) + 1) : i <= Len(d) => <<x, d[i]>> \in R}
<1>1. Len(d) \in Nat
  BY LenProperties
<1>2. Len(d) + 1 \in B /\ B \in SUBSET Nat
  BY <1>1
<1>3. PICK p \in B : \A k \in B : p <= k
  <2> HIDE DEF B
  <2>1. QED
    BY <1>2, HasLeast
<1>4. ASSUME NEW i \in 1..(p - 1) PROVE <<x, d[i]>> \notin R
  <2>1. i \in 1..(Len(d) + 1) /\ i <= Len(d) /\ ~(p <= i)
    BY <1>1, <1>3
  <2>2. i \notin B
    BY <1>3, <2>1
  <2>3. QED
    BY <2>1, <2>2
<1>5. p \in 1..(Len(d) + 1) /\ (p <= Len(d) => <<x, d[p]>> \in R)
  BY <1>3
<1>6. QED
  BY <1>4, <1>5 DEF PlaceFor

(* In order: none precedes one before it, and two of which neither         *)
(* precedes the other are as they were in the list.                        *)
StablyOrdered(s, R, d) ==
    \A a, b \in 1..Len(d) : a < b =>
        /\ <<d[b], d[a]>> \notin R
        /\ <<d[a], d[b]>> \in R \/ \E i, j \in 1..Len(s) : i < j /\ s[i] = d[a] /\ s[j] = d[b]

(* Two never precede one another, and who precedes another precedes a      *)
(* third or the third precedes the other.                                  *)
WeakOrder(R, X) ==
    /\ \A x, y \in X : <<x, y>> \in R => <<y, x>> \notin R
    /\ \A x, y, z \in X : <<x, z>> \in R => <<x, y>> \in R \/ <<y, z>> \in R

LEMMA InsertedInOrder ==
    ASSUME NEW T, NEW s \in Seq(T), NEW R, WeakOrder(R, T), NEW m \in 1..Len(s),
           NEW d \in Seq(T), Range(d) = {s[j] : j \in 1..(m - 1)}, StablyOrdered(s, R, d)
    PROVE  StablyOrdered(s, R, InsertAt(d, PlaceFor(d, s[m], R), s[m]))
<1> DEFINE x == s[m]
           n == Len(d)
           p == PlaceFor(d, x, R)
           l == InsertAt(d, p, x)
<1>1. m \in Nat /\ m > 0 /\ Len(s) \in Nat /\ n \in Nat
  BY LenProperties
<1>2. x \in T
  BY ElementOfSeq
<1>3. /\ p \in 1..(n + 1)
      /\ \A i \in 1..(p - 1) : <<x, d[i]>> \notin R
      /\ p <= n => <<x, d[p]>> \in R
  BY PlaceForIs
<1> HIDE DEF p
<1>4. Len(l) = n + 1 /\ \A i \in 1..(n + 1) : l[i] = IF i < p THEN d[i] ELSE IF i = p THEN x ELSE d[i - 1]
  <2>1. \A S : \A t \in Seq(S) : \A e \in S : \A i \in 1 .. (Len(t) + 1) :
          /\ Len(InsertAt(t, i, e)) = Len(t) + 1
          /\ \A k \in 1 .. (Len(t) + 1) :
               InsertAt(t, i, e)[k] = IF k < i THEN t[k] ELSE IF k = i THEN e ELSE t[k - 1]
    BY InsertedAt
  <2>2. Len(l) = n + 1
    BY <1>2, <1>3, <2>1
  <2>3. \A i \in 1..(n + 1) : l[i] = IF i < p THEN d[i] ELSE IF i = p THEN x ELSE d[i - 1]
    BY <1>2, <1>3, <2>1
  <2>4. QED
    BY <2>2, <2>3
<1> HIDE DEF l
<1>5. \A i \in 1..n : d[i] \in T
  BY ElementOfSeq
<1>6. \A i \in 1..n : \E j \in 1..Len(s) : j < m /\ s[j] = d[i]
  <2>1. ASSUME NEW i \in 1..n PROVE \E j \in 1..Len(s) : j < m /\ s[j] = d[i]
    <3>1. d[i] \in Range(d)
      BY LenProperties DEF Range
    <3>2. PICK j \in 1..(m - 1) : d[i] = s[j]
      BY <3>1
    <3>3. j \in 1..Len(s) /\ j < m
      BY <1>1
    <3>4. QED
      BY <3>2, <3>3
  <2>2. QED
    BY <2>1
<1>7. ASSUME NEW a \in 1..(n + 1), NEW b \in 1..(n + 1), a < b
      PROVE  /\ <<l[b], l[a]>> \notin R
             /\ <<l[a], l[b]>> \in R \/ \E i, j \in 1..Len(s) : i < j /\ s[i] = l[a] /\ s[j] = l[b]
  <2>1. CASE a # p /\ b # p
    <3> DEFINE e == IF a < p THEN a ELSE a - 1
               f == IF b < p THEN b ELSE b - 1
    <3>1. e \in 1..n /\ f \in 1..n /\ e < f
      BY <1>1, <1>3, <1>7, <2>1
    <3>2. l[a] = d[e] /\ l[b] = d[f]
      BY <1>1, <1>3, <1>4, <2>1
    <3> HIDE DEF e, f
    <3>3. QED
      BY <3>1, <3>2 DEF StablyOrdered
  <2>2. CASE b = p
    <3>1. a \in 1..(p - 1) /\ a \in 1..n /\ a < p
      BY <1>1, <1>3, <1>7, <2>2
    <3>2. l[a] = d[a] /\ l[b] = x
      BY <1>4, <2>2, <3>1
    <3>3. <<x, d[a]>> \notin R
      BY <1>3, <3>1
    <3>4. PICK j \in 1..Len(s) : j < m /\ s[j] = d[a]
      BY <1>6, <3>1
    <3>5. QED
      BY <3>2, <3>3, <3>4
  <2>3. CASE a = p
    <3> DEFINE c == b - 1
    <3>1. c \in 1..n /\ p \in 1..n /\ p <= n /\ (p = c \/ p < c)
      BY <1>1, <1>3, <1>7, <2>3
    <3>2. l[a] = x /\ l[b] = d[c]
      <4>1. ~(b < p) /\ b # p
        BY <1>7, <2>3
      <4>2. l[b] = d[c]
        BY <1>4, <4>1
      <4>3. l[a] = x
        BY <1>3, <1>4, <2>3
      <4>4. QED
        BY <4>2, <4>3
    <3> HIDE DEF c
    <3>3. <<x, d[p]>> \in R
      BY <1>3, <3>1
    <3>4. <<x, d[c]>> \in R
      <4>1. CASE p = c
        BY <3>3, <4>1
      <4>2. CASE p < c
        <5>1. <<d[c], d[p]>> \notin R
          BY <3>1, <4>2 DEF StablyOrdered
        <5>2. d[c] \in T /\ d[p] \in T
          BY <1>5, <3>1
        <5>3. QED
          BY <1>2, <3>3, <5>1, <5>2 DEF WeakOrder
      <4>3. QED
        BY <3>1, <4>1, <4>2
    <3>5. d[c] \in T
      BY <1>5, <3>1
    <3>6. <<d[c], x>> \notin R
      BY <1>2, <3>4, <3>5 DEF WeakOrder
    <3>7. QED
      BY <3>2, <3>4, <3>6
  <2>4. QED
    BY <2>1, <2>2, <2>3
<1>8. StablyOrdered(s, R, l)
  BY <1>4, <1>7 DEF StablyOrdered
<1>9. QED
  BY <1>8 DEF l, p

(* Sorting a list of different ones gives the same ones, each once, and    *)
(* in order if there is one.                                               *)
LEMMA SortedIs ==
    ASSUME NEW T, NEW s \in Seq(T), IsInjective(s), NEW R
    PROVE  /\ Sorted(s, R) \in Seq(T) /\ IsInjective(Sorted(s, R)) /\ Len(Sorted(s, R)) = Len(s)
           /\ Range(Sorted(s, R)) = Range(s)
           /\ WeakOrder(R, T) => StablyOrdered(s, R, Sorted(s, R))
<1> DEFINE n == Len(s)
           F == CHOOSE G : SortedOf(s, R, n, G)
<1>1. n \in Nat /\ DOMAIN s = 1..n
  BY LenProperties
<1>2. SortedOf(s, R, n, F)
  BY <1>1, SortedExists
<1>3. Sorted(s, R) = F[n]
  BY DEF Sorted, SortedOf
<1> HIDE DEF F
<1>4. \A i \in 0..n :
        F[i] = IF i = 0 THEN <<>> ELSE InsertAt(F[i - 1], PlaceFor(F[i - 1], s[i], R), s[i])
  <2>1. \A i \in DOMAIN F :
          F[i] = IF i = 0 THEN <<>> ELSE InsertAt(F[i - 1], PlaceFor(F[i - 1], s[i], R), s[i])
    BY <1>2, ZenonT(40) DEF SortedOf
  <2>2. DOMAIN F = 0..n
    BY <1>2, ZenonT(40) DEF SortedOf
  <2>3. QED
    BY <2>1, <2>2
<1> DEFINE Good(i) == /\ F[i] \in Seq(T) /\ Len(F[i]) = i /\ IsInjective(F[i])
                      /\ Range(F[i]) = {s[j] : j \in 1..i}
                      /\ WeakOrder(R, T) => StablyOrdered(s, R, F[i])
           B == {i \in 0..n : ~Good(i)}
<1>5. Good(0)
  <2>1. F[0] = <<>>
    BY <1>1, <1>4
  <2>2. F[0] \in Seq(T) /\ IsInjective(F[0]) /\ Range(F[0]) = {}
    BY <2>1 DEF IsInjective, Range
  <2>3. {s[j] : j \in 1..0} = {}
    OBVIOUS
  <2>4. Len(F[0]) = 0
    BY <2>1
  <2>5. StablyOrdered(s, R, F[0])
    BY <2>4 DEF StablyOrdered
  <2>6. QED
    BY <2>2, <2>3, <2>4, <2>5
<1>6. B = {}
  <2>1. SUFFICES ASSUME B # {} PROVE FALSE
    OBVIOUS
  <2>2. PICK m \in B : \A k \in B : m <= k
    <3>1. B \in SUBSET Nat
      BY <1>1
    <3> HIDE DEF B
    <3>2. QED
      BY <2>1, <3>1, HasLeast
  <2>3. m # 0
    <3> HIDE DEF Good
    <3>1. QED
      BY <1>5, <2>2
  <2>4. m \in 1..n /\ m - 1 \in 0..n /\ ~(m <= m - 1)
    BY <1>1, <2>3
  <2>5. Good(m - 1)
    <3> HIDE DEF Good
    <3>1. QED
      BY <2>2, <2>4
  <2> DEFINE d == F[m - 1]
             x == s[m]
             p == PlaceFor(d, x, R)
             before == {s[j] : j \in 1..(m - 1)}
  <2>6. /\ d \in Seq(T) /\ Len(d) = m - 1 /\ IsInjective(d) /\ Range(d) = before
        /\ WeakOrder(R, T) => StablyOrdered(s, R, d)
    BY <2>5
  <2>7. F[m] = InsertAt(d, p, x)
    BY <1>4, <2>3, <2>4
  <2>8. x \in T /\ x \notin before
    <3>1. x \in T
      BY <1>1, <2>4, ElementOfSeq
    <3>2. ASSUME NEW j \in 1..(m - 1) PROVE s[j] # x
      <4>1. j \in 1..n /\ j # m
        BY <1>1, <2>4
      <4>2. QED
        BY <1>1, <2>4, <4>1 DEF IsInjective
    <3>3. QED
      BY <3>1, <3>2
  <2>9. WeakOrder(R, T) => StablyOrdered(s, R, F[m])
    <3>1. ASSUME WeakOrder(R, T) PROVE StablyOrdered(s, R, InsertAt(d, p, x))
      <4>1. Range(d) = {s[j] : j \in 1..(m - 1)} /\ StablyOrdered(s, R, d) /\ d \in Seq(T)
        BY <2>6, <3>1
      <4> HIDE DEF d
      <4>2. QED
        BY <2>4, <3>1, <4>1, InsertedInOrder
    <3>2. QED
      BY <2>7, <3>1
  <2>10. {s[j] : j \in 1..m} = before \cup {x}
    <3>1. 1..m = 1..(m - 1) \cup {m}
      BY <2>4
    <3>2. QED
      BY <3>1
  <2>11. p \in 1..Len(d) + 1
    BY <2>6, PlaceForIs
  <2> HIDE DEF d, x, p, before
  <2>12. LET l == InsertAt(d, p, x)
         IN  l \in Seq(T) /\ Len(l) = Len(d) + 1 /\ IsInjective(l) /\ Range(l) = Range(d) \cup {x}
    BY <2>6, <2>8, <2>11, InsertedOnce
  <2>13. F[m] \in Seq(T) /\ Len(F[m]) = m /\ IsInjective(F[m]) /\ Range(F[m]) = before \cup {x}
    <3>1. m - 1 + 1 = m
      BY <2>4
    <3>2. QED
      BY <2>6, <2>7, <2>12, <3>1
  <2>14. Good(m)
    BY <2>9, <2>10, <2>13
  <2> HIDE DEF Good
  <2>15. QED
    BY <2>2, <2>14
<1>7. Good(n)
  <2> HIDE DEF Good
  <2>1. QED
    BY <1>1, <1>6
<1>8. Range(s) = {s[j] : j \in 1..n}
  BY <1>1 DEF Range
<1>9. QED
  BY <1>3, <1>7, <1>8

-----------------------------------------------------------------------------
(* Orders by the first of several that tells two apart.                    *)
\* By the first of some orders that tells two apart.
ByFirst(F, n, X) ==
    {p \in X \X X : \E i \in 1..n :
        p \in F[i] /\ \A j \in 1..(i - 1) : <<p[2], p[1]>> \notin F[j] /\ p \notin F[j]}

LEMMA ByFirstIs ==
    ASSUME NEW F, NEW n \in Nat, NEW X, NEW x \in X, NEW y \in X
    PROVE  <<x, y>> \in ByFirst(F, n, X) <=>
             \E i \in 1..n : <<x, y>> \in F[i] /\ \A j \in 1..(i - 1) : <<y, x>> \notin F[j] /\ <<x, y>> \notin F[j]
  BY DEF ByFirst

LEMMA ByFirstOneWay ==
    ASSUME NEW F, NEW n \in Nat, NEW X, \A i \in 1..n : WeakOrder(F[i], X),
           NEW x \in X, NEW y \in X, <<x, y>> \in ByFirst(F, n, X)
    PROVE  <<y, x>> \notin ByFirst(F, n, X)
<1>1. PICK i \in 1..n : <<x, y>> \in F[i] /\ \A j \in 1..(i - 1) : <<y, x>> \notin F[j] /\ <<x, y>> \notin F[j]
  BY ByFirstIs
<1>2. SUFFICES ASSUME NEW k \in 1..n, <<y, x>> \in F[k],
                      \A j \in 1..(k - 1) : <<x, y>> \notin F[j] /\ <<y, x>> \notin F[j]
               PROVE  FALSE
  BY ByFirstIs
<1>3. i < k => i \in 1..(k - 1)
  OBVIOUS
<1>4. k < i => k \in 1..(i - 1)
  OBVIOUS
<1>5. i = k => <<y, x>> \notin F[k]
  BY <1>1 DEF WeakOrder
<1>6. i < k \/ k < i \/ i = k
  OBVIOUS
<1>7. QED
  BY <1>1, <1>2, <1>3, <1>4, <1>5, <1>6

LEMMA ByFirstThird ==
    ASSUME NEW F, NEW n \in Nat, NEW X, \A i \in 1..n : WeakOrder(F[i], X),
           NEW x \in X, NEW y \in X, NEW z \in X, <<x, y>> \in ByFirst(F, n, X)
    PROVE  <<x, z>> \in ByFirst(F, n, X) \/ <<z, y>> \in ByFirst(F, n, X)
<1>1. PICK i \in 1..n : <<x, y>> \in F[i] /\ \A j \in 1..(i - 1) : <<y, x>> \notin F[j] /\ <<x, y>> \notin F[j]
  BY ByFirstIs
<1> DEFINE Apart(j) == <<x, z>> \in F[j] \/ <<z, x>> \in F[j] \/ <<z, y>> \in F[j] \/ <<y, z>> \in F[j]
           D == {j \in 1..n : j <= i /\ Apart(j)}
<1>2. \A j \in 1..n : \A a, b, c \in X : <<a, b>> \in F[j] => <<a, c>> \in F[j] \/ <<c, b>> \in F[j]
  BY DEF WeakOrder
<1>3. i \in D
  BY <1>1, <1>2
<1>4. PICK m \in D : \A j \in D : m <= j
  <2>1. D \in SUBSET Nat
    OBVIOUS
  <2> HIDE DEF D
  <2>2. QED
    BY <1>3, <2>1, HasLeast
<1>5. m \in 1..n /\ m <= i /\ Apart(m)
  BY <1>4
<1>6. \A j \in 1..(m - 1) : j \in 1..n /\ j <= i /\ ~(m <= j) /\ j \in 1..(i - 1)
  BY <1>5
<1>7. \A j \in 1..(m - 1) : ~Apart(j)
  BY <1>4, <1>6
<1>8. ASSUME <<x, z>> \in F[m] PROVE <<x, z>> \in ByFirst(F, n, X)
  <2>1. \A j \in 1..(m - 1) : <<z, x>> \notin F[j] /\ <<x, z>> \notin F[j]
    BY <1>7
  <2>2. m \in 1..n /\ <<x, z>> \in F[m]
    BY <1>5, <1>8
  <2>3. QED
    BY <2>1, <2>2, ByFirstIs
<1>9. ASSUME <<z, y>> \in F[m] PROVE <<z, y>> \in ByFirst(F, n, X)
  <2>1. \A j \in 1..(m - 1) : <<y, z>> \notin F[j] /\ <<z, y>> \notin F[j]
    BY <1>7
  <2>2. m \in 1..n /\ <<z, y>> \in F[m]
    BY <1>5, <1>9
  <2>3. QED
    BY <2>1, <2>2, ByFirstIs
<1>10. <<x, z>> \in F[m] \/ <<z, y>> \in F[m]
  <2>1. CASE m = i
    BY <1>1, <1>2, <2>1
  <2>2. CASE m # i
    <3>1. m \in 1..(i - 1)
      BY <1>5, <2>2
    <3>2. <<y, x>> \notin F[m] /\ <<x, y>> \notin F[m]
      BY <1>1, <3>1
    <3>3. <<z, x>> \in F[m] => <<z, y>> \in F[m] \/ <<y, x>> \in F[m]
      BY <1>2, <1>5
    <3>4. <<y, z>> \in F[m] => <<y, x>> \in F[m] \/ <<x, z>> \in F[m]
      BY <1>2, <1>5
    <3>5. QED
      BY <1>5, <3>2, <3>3, <3>4
  <2>3. QED
    BY <2>1, <2>2
<1>11. QED
  BY <1>8, <1>9, <1>10

LEMMA ByFirstOrders ==
    ASSUME NEW F, NEW n \in Nat, NEW X, \A i \in 1..n : WeakOrder(F[i], X)
    PROVE  WeakOrder(ByFirst(F, n, X), X)
<1>1. \A x, y \in X : <<x, y>> \in ByFirst(F, n, X) => <<y, x>> \notin ByFirst(F, n, X)
  BY ByFirstOneWay
<1>2. \A x, y, z \in X : <<x, z>> \in ByFirst(F, n, X) =>
                            <<x, y>> \in ByFirst(F, n, X) \/ <<y, z>> \in ByFirst(F, n, X)
  BY ByFirstThird
<1>3. QED
  BY <1>1, <1>2 DEF WeakOrder

(* Those of two sorts of a list that are shown: what one does not tell     *)
(* apart is in the order of the other, if neither does more.               *)
LEMMA TiesStay ==
    ASSUME NEW T, NEW p \in Seq(T), IsInjective(p), NEW R, WeakOrder(R, T), NEW Q, WeakOrder(Q, T), NEW K,
           NEW i \in 1..Len(Kept(Sorted(p, Q), K)), NEW j \in 1..Len(Kept(Sorted(p, Q), K)), i < j
    PROVE  LET c == Kept(Sorted(p, R), K)
               d == Kept(Sorted(p, Q), K)
           IN /\ <<d[j], d[i]>> \notin Q
              /\ (<<d[i], d[j]>> \in Q <=> <<d[i], d[j]>> \in R) /\ (<<d[j], d[i]>> \in Q <=> <<d[j], d[i]>> \in R) =>
                    \E a, b \in 1..Len(c) : a < b /\ c[a] = d[i] /\ c[b] = d[j]
<1> DEFINE s == Sorted(p, R)
           t == Sorted(p, Q)
           c == Kept(s, K)
           d == Kept(t, K)
           x == d[i]
           y == d[j]
<1>1. s \in Seq(T) /\ IsInjective(s) /\ Range(s) = Range(p) /\ StablyOrdered(p, R, s)
  BY SortedIs
<1>2. t \in Seq(T) /\ IsInjective(t) /\ Range(t) = Range(p) /\ StablyOrdered(p, Q, t)
  BY SortedIs
<1> HIDE DEF s, t
<1>3. PICK k, l \in 1..Len(t) : k < l /\ t[k] = x /\ t[l] = y
  <2>1. \A a, b \in 1..Len(d) : a < b => \E m, n \in 1..Len(t) : m < n /\ t[m] = d[a] /\ t[n] = d[b]
    BY <1>2, KeptInOrder
  <2>2. i \in 1..Len(d) /\ j \in 1..Len(d)
    BY DEF t
  <2>3. QED
    BY <2>1, <2>2
<1>4. <<y, x>> \notin Q
  BY <1>2, <1>3 DEF StablyOrdered
<1>5. <<x, y>> \in Q \/ \E a, b \in 1..Len(p) : a < b /\ p[a] = x /\ p[b] = y
  <2>1. \A a, b \in 1..Len(t) : a < b =>
           <<t[a], t[b]>> \in Q \/ \E m, n \in 1..Len(p) : m < n /\ p[m] = t[a] /\ p[n] = t[b]
    BY <1>2 DEF StablyOrdered
  <2> HIDE DEF x, y
  <2>2. <<t[k], t[l]>> \in Q \/ \E m, n \in 1..Len(p) : m < n /\ p[m] = t[k] /\ p[n] = t[l]
    BY <1>3, <2>1
  <2>3. QED
    BY <1>3, <2>2
<1>6. x \in K /\ y \in K /\ x \in Range(s) /\ y \in Range(s)
  <2>1. d \in Seq(T) /\ Range(d) = Range(t) \cap K
    BY <1>2, KeptHas
  <2>2. i \in DOMAIN d /\ j \in DOMAIN d
    BY <2>1, LenProperties DEF t
  <2> HIDE DEF d
  <2>3. x \in Range(d) /\ y \in Range(d)
    BY <2>2 DEF Range
  <2>4. QED
    BY <1>1, <1>2, <2>1, <2>3
<1>7. x # y
  <2>1. DOMAIN t = 1..Len(t)
    BY <1>2, LenProperties
  <2>2. k # l
    BY <1>3
  <2>3. QED
    BY <1>2, <1>3, <2>1, <2>2 DEF IsInjective
<1>8. DOMAIN s = 1..Len(s) /\ DOMAIN p = 1..Len(p)
  BY <1>1, LenProperties
<1>9. PICK a \in 1..Len(s), b \in 1..Len(s) : s[a] = x /\ s[b] = y
  BY <1>6, <1>8 DEF Range
<1> HIDE DEF x, y, c, d
<1>10. ASSUME <<x, y>> \in Q <=> <<x, y>> \in R, <<y, x>> \in Q <=> <<y, x>> \in R
       PROVE  \E m, n \in 1..Len(c) : m < n /\ c[m] = x /\ c[n] = y
  <2>1. a # b
    BY <1>7, <1>9
  <2>2. ~(b < a)
    <3>1. SUFFICES ASSUME b < a PROVE FALSE
      OBVIOUS
    <3>2. /\ <<x, y>> \notin R
          /\ <<y, x>> \in R \/ \E m, n \in 1..Len(p) : m < n /\ p[m] = y /\ p[n] = x
      <4>1. \A g, h \in 1..Len(s) : g < h =>
              /\ <<s[h], s[g]>> \notin R
              /\ <<s[g], s[h]>> \in R \/ \E m, n \in 1..Len(p) : m < n /\ p[m] = s[g] /\ p[n] = s[h]
        BY <1>1 DEF StablyOrdered
      <4>2. /\ <<s[a], s[b]>> \notin R
            /\ <<s[b], s[a]>> \in R \/ \E m, n \in 1..Len(p) : m < n /\ p[m] = s[b] /\ p[n] = s[a]
        BY <3>1, <4>1
      <4>3. QED
        BY <1>9, <4>2
    <3>3. PICK m, n \in 1..Len(p) : m < n /\ p[m] = y /\ p[n] = x
      BY <1>4, <1>10, <3>2
    <3>4. PICK g, h \in 1..Len(p) : g < h /\ p[g] = x /\ p[h] = y
      BY <1>5, <1>10, <3>2
    <3>5. g = n /\ h = m
      BY <1>8, <3>3, <3>4 DEF IsInjective
    <3>6. QED
      BY <3>3, <3>4, <3>5
  <2>3. a < b
    BY <2>1, <2>2
  <2>4. \A m, n \in 1..Len(s) : (m < n /\ s[m] \in K /\ s[n] \in K) =>
           \E g, h \in 1..Len(c) : g < h /\ c[g] = s[m] /\ c[h] = s[n]
    BY <1>1, KeptInOrder, SMTT(30) DEF c
  <2>5. \E g, h \in 1..Len(c) : g < h /\ c[g] = s[a] /\ c[h] = s[b]
    <3>1. s[a] \in K /\ s[b] \in K
      BY <1>6, <1>9
    <3>2. QED
      BY <2>3, <2>4, <3>1
  <2>6. QED
    BY <1>9, <2>5
<1>11. QED
  BY <1>4, <1>10 DEF x, y, c, d, s, t

(* Lists of the same, each once, are as long.                              *)
LEMMA SameLength ==
    ASSUME NEW T, NEW s \in Seq(T), IsInjective(s), NEW t \in Seq(T), IsInjective(t), Range(s) = Range(t)
    PROVE  Len(s) = Len(t)
<1>1. ASSUME NEW q \in Seq(T), IsInjective(q) PROVE Cardinality(Range(q)) = Len(q)
  <2>1. Len(q) \in Nat /\ q \in [1..Len(q) -> Range(q)] /\ DOMAIN q = 1..Len(q)
    BY SeqDef, LenProperties DEF Range
  <2>2. \A x \in Range(q) : \E i \in 1..Len(q) : q[i] = x
    BY <2>1 DEF Range
  <2>3. q \in Bijection(1..Len(q), Range(q))
    BY <1>1, <2>1, <2>2 DEF Bijection, Injection, Surjection
  <2>4. ExistsBijection(1..Len(q), Range(q))
    BY <2>3 DEF ExistsBijection
  <2>5. QED
    BY <2>1, <2>4, FS_CountingElements
<1>2. Cardinality(Range(s)) = Len(s) /\ Cardinality(Range(t)) = Len(t)
  BY <1>1
<1>3. QED
  BY <1>2

================================================================================
