---------------------------- MODULE BasicLemmas -----------------------------
(***************************************************************************)
(* What the proofs of several modules need: what erasing from and          *)
(* inserting into a sequence does to its elements (std::list and the       *)
(* sorted chains of the memory tier are sequences here), and remainders    *)
(* and powers of two (the hash functions of the indexes take keys modulo   *)
(* the length of a table that doubles).                                    *)
(***************************************************************************)
EXTENDS Integers, Sequences, FiniteSets, SequencesExt, SequenceTheorems,
        FiniteSetTheorems, WellFoundedInduction, TLAPS

-----------------------------------------------------------------------------
(* Sequences.                                                              *)

\* Erasing one element of a sequence shifts the later ones down by one.
LEMMA RemoveAtProperties ==
  ASSUME NEW S, NEW s \in Seq(S), NEW i \in 1 .. Len(s)
  PROVE  /\ RemoveAt(s, i) \in Seq(S)
         /\ Len(RemoveAt(s, i)) = Len(s) - 1
         /\ \A j \in 1 .. (Len(s) - 1) :
              RemoveAt(s, i)[j] = IF j < i THEN s[j] ELSE s[j + 1]
  <1> DEFINE front == SubSeq(s, 1, i - 1)
             back == SubSeq(s, i + 1, Len(s))
  <1>1. Len(s) \in Nat /\ i \in Nat /\ i >= 1 /\ i <= Len(s)
    OBVIOUS
  <1>2. \A j \in 1 .. Len(s) : s[j] \in S
    BY ElementOfSeq
  <1>3. /\ front \in Seq(S) /\ Len(front) = i - 1
        /\ \A j \in 1 .. (i - 1) : front[j] = s[j]
    <2>1. \A j \in 1 .. (i - 1) : s[j] \in S
      BY <1>1, <1>2
    <2>2. /\ front \in Seq(S)
          /\ Len(front) = IF 1 <= i - 1 THEN (i - 1) - 1 + 1 ELSE 0
          /\ \A j \in 1 .. ((i - 1) - 1 + 1) : front[j] = s[1 + j - 1]
      BY <1>1, <2>1, SubSeqProperties
    <2> HIDE DEF front
    <2> QED  BY <1>1, <2>2
  <1>4. /\ back \in Seq(S) /\ Len(back) = Len(s) - i
        /\ \A j \in 1 .. (Len(s) - i) : back[j] = s[i + j]
    <2>1. \A j \in (i + 1) .. Len(s) : s[j] \in S
      BY <1>1, <1>2
    <2>2. /\ back \in Seq(S)
          /\ Len(back) = IF i + 1 <= Len(s) THEN Len(s) - (i + 1) + 1 ELSE 0
          /\ \A j \in 1 .. (Len(s) - (i + 1) + 1) : back[j] = s[i + 1 + j - 1]
      BY <1>1, <2>1, SubSeqProperties
    <2> HIDE DEF back
    <2> QED  BY <1>1, <2>2
  <1>5. RemoveAt(s, i) = front \o back
    BY DEF RemoveAt
  <1> HIDE DEF front, back
  <1>6. /\ front \o back \in Seq(S)
        /\ Len(front \o back) = Len(front) + Len(back)
        /\ \A j \in 1 .. (Len(front) + Len(back)) :
             (front \o back)[j] =
                IF j <= Len(front) THEN front[j] ELSE back[j - Len(front)]
    BY <1>3, <1>4, ConcatProperties
  <1>7. ASSUME NEW j \in 1 .. (Len(s) - 1)
        PROVE  (front \o back)[j] = IF j < i THEN s[j] ELSE s[j + 1]
    <2>1. CASE j < i
      BY <1>1, <1>3, <1>4, <1>6, <2>1
    <2>2. CASE j >= i
      <3>1. j - (i - 1) \in 1 .. (Len(s) - i) /\ i + (j - (i - 1)) = j + 1
        BY <1>1, <2>2
      <3>2. (front \o back)[j] = back[j - (i - 1)]
        BY <1>1, <1>3, <1>4, <1>6, <2>2
      <3> QED  BY <1>1, <1>4, <2>2, <3>1, <3>2
    <2>3. j \in Int /\ (j < i \/ j >= i)
      BY <1>1
    <2> QED  BY <2>1, <2>2, <2>3
  <1> QED  BY <1>1, <1>3, <1>4, <1>5, <1>6, <1>7

\* Inserting an element at position i shifts those from i on up by one.
LEMMA InsertAtProperties ==
  ASSUME NEW S, NEW s \in Seq(S), NEW i \in 1 .. (Len(s) + 1), NEW e \in S
  PROVE  /\ InsertAt(s, i, e) \in Seq(S)
         /\ Len(InsertAt(s, i, e)) = Len(s) + 1
         /\ \A j \in 1 .. (Len(s) + 1) :
              InsertAt(s, i, e)[j] =
                 IF j < i THEN s[j] ELSE IF j = i THEN e ELSE s[j - 1]
  <1> DEFINE front == SubSeq(s, 1, i - 1)
             back == SubSeq(s, i, Len(s))
  <1>1. Len(s) \in Nat /\ i \in Nat /\ i >= 1 /\ i <= Len(s) + 1
    OBVIOUS
  <1>2. \A j \in 1 .. Len(s) : s[j] \in S
    BY ElementOfSeq
  <1>3. /\ front \in Seq(S) /\ Len(front) = i - 1
        /\ \A j \in 1 .. (i - 1) : front[j] = s[j]
    <2>1. \A j \in 1 .. (i - 1) : s[j] \in S
      BY <1>1, <1>2
    <2>2. /\ front \in Seq(S)
          /\ Len(front) = IF 1 <= i - 1 THEN (i - 1) - 1 + 1 ELSE 0
          /\ \A j \in 1 .. ((i - 1) - 1 + 1) : front[j] = s[1 + j - 1]
      BY <1>1, <2>1, SubSeqProperties
    <2> HIDE DEF front
    <2> QED  BY <1>1, <2>2
  <1>4. /\ back \in Seq(S) /\ Len(back) = Len(s) + 1 - i
        /\ \A j \in 1 .. (Len(s) + 1 - i) : back[j] = s[i + j - 1]
    <2>1. \A j \in i .. Len(s) : s[j] \in S
      BY <1>1, <1>2
    <2>2. /\ back \in Seq(S)
          /\ Len(back) = IF i <= Len(s) THEN Len(s) - i + 1 ELSE 0
          /\ \A j \in 1 .. (Len(s) - i + 1) : back[j] = s[i + j - 1]
      BY <1>1, <2>1, SubSeqProperties
    <2> HIDE DEF back
    <2> QED  BY <1>1, <2>2
  <1>5. InsertAt(s, i, e) = (front \o <<e>>) \o back
    BY <1>3, <1>4, ConcatAssociative, <<e>> \in Seq(S) DEF InsertAt
  <1> HIDE DEF front, back
  <1>6. /\ <<e>> \in Seq(S) /\ Len(<<e>>) = 1 /\ <<e>>[1] = e
    OBVIOUS
  <1>7. /\ front \o <<e>> \in Seq(S)
        /\ Len(front \o <<e>>) = i
        /\ \A j \in 1 .. i : (front \o <<e>>)[j] = IF j < i THEN s[j] ELSE e
    <2>1. /\ front \o <<e>> \in Seq(S)
          /\ Len(front \o <<e>>) = Len(front) + 1
          /\ \A j \in 1 .. (Len(front) + 1) : (front \o <<e>>)[j] =
                IF j <= Len(front) THEN front[j] ELSE <<e>>[j - Len(front)]
      BY <1>3, <1>6, ConcatProperties
    <2> QED  BY <1>1, <1>3, <1>6, <2>1
  <1> DEFINE whole == front \o <<e>>
  <1>8. whole \in Seq(S) /\ Len(whole) = i
          /\ \A j \in 1 .. i : whole[j] = IF j < i THEN s[j] ELSE e
    BY <1>7
  <1> HIDE DEF whole
  <1>9. /\ whole \o back \in Seq(S)
        /\ Len(whole \o back) = Len(whole) + Len(back)
        /\ \A j \in 1 .. (Len(whole) + Len(back)) : (whole \o back)[j] =
             IF j <= Len(whole) THEN whole[j] ELSE back[j - Len(whole)]
    BY <1>4, <1>8, ConcatProperties
  <1>10. ASSUME NEW j \in 1 .. (Len(s) + 1)
         PROVE  (whole \o back)[j] =
                   IF j < i THEN s[j] ELSE IF j = i THEN e ELSE s[j - 1]
    <2>1. CASE j <= i
      BY <1>1, <1>4, <1>8, <1>9, <2>1
    <2>2. CASE j > i
      <3>1. j - i \in 1 .. (Len(s) + 1 - i) /\ i + (j - i) - 1 = j - 1
        BY <1>1, <2>2
      <3>2. (whole \o back)[j] = back[j - i]
        BY <1>1, <1>4, <1>8, <1>9, <2>2
      <3> QED  BY <1>1, <1>4, <2>2, <3>1, <3>2
    <2>3. j \in Int /\ (j <= i \/ j > i)
      BY <1>1
    <2> QED  BY <2>1, <2>2, <2>3
  <1>11. InsertAt(s, i, e) = whole \o back
    BY <1>5 DEF whole
  <1> QED  BY <1>1, <1>4, <1>8, <1>9, <1>10, <1>11

\* Pushing an element in front shifts all others up by one.
LEMMA PushFrontProperties ==
  ASSUME NEW S, NEW s \in Seq(S), NEW e \in S
  PROVE  /\ <<e>> \o s \in Seq(S)
         /\ Len(<<e>> \o s) = Len(s) + 1
         /\ \A j \in 1 .. (Len(s) + 1) :
              (<<e>> \o s)[j] = IF j = 1 THEN e ELSE s[j - 1]
  <1>1. <<e>> \in Seq(S) /\ Len(<<e>>) = 1 /\ <<e>>[1] = e
    OBVIOUS
  <1>2. /\ <<e>> \o s \in Seq(S)
        /\ Len(<<e>> \o s) = Len(<<e>>) + Len(s)
        /\ \A j \in 1 .. (Len(<<e>>) + Len(s)) : (<<e>> \o s)[j] =
              IF j <= Len(<<e>>) THEN <<e>>[j] ELSE s[j - Len(<<e>>)]
    BY <1>1, ConcatProperties
  <1>3. Len(s) \in Nat
    OBVIOUS
  <1> QED  BY <1>1, <1>2, <1>3

-----------------------------------------------------------------------------
(* The entries of a bucket or a page: a function from finitely many keys.  *)
(* In a sequence they are ordered by their keys.                           *)

Contents == UNION {[S -> Nat] : S \in {T \in SUBSET Nat : IsFiniteSet(T)}}

LEMMA ContentsFacts ==
  ASSUME NEW c
  PROVE  c \in Contents <=>
           /\ DOMAIN c \in SUBSET Nat /\ IsFiniteSet(DOMAIN c)
           /\ c \in [DOMAIN c -> Nat]
<1>1. ASSUME c \in Contents
      PROVE  DOMAIN c \in SUBSET Nat /\ IsFiniteSet(DOMAIN c) /\ c \in [DOMAIN c -> Nat]
  <2>1. PICK S \in {T \in SUBSET Nat : IsFiniteSet(T)} : c \in [S -> Nat]
    BY <1>1 DEF Contents
  <2>2. DOMAIN c = S
    BY <2>1
  <2> QED  BY <2>1, <2>2
<1>2. ASSUME DOMAIN c \in SUBSET Nat, IsFiniteSet(DOMAIN c), c \in [DOMAIN c -> Nat]
      PROVE  c \in Contents
  BY <1>2 DEF Contents
<1> QED  BY <1>1, <1>2

LEMMA ContentsCount ==
  ASSUME NEW c \in Contents
  PROVE  /\ Cardinality(DOMAIN c) \in Nat
         /\ Cardinality(DOMAIN c) = 0 <=> DOMAIN c = {}
BY ContentsFacts, FS_CardinalityType, FS_EmptySet

Ranked(S) ==
  [i \in 1 .. Cardinality(S) |-> CHOOSE k \in S : Cardinality({x \in S : x < k}) = i - 1]

\* Every key of a finite set has its place in the order, and one only.
LEMMA RankedProperties ==
  ASSUME NEW S \in SUBSET Nat, IsFiniteSet(S)
  PROVE  /\ Ranked(S) \in Seq(S) /\ Len(Ranked(S)) = Cardinality(S)
         /\ \A k \in S : \E i \in DOMAIN Ranked(S) :
              \A j \in DOMAIN Ranked(S) : Ranked(S)[j] = k <=> j = i
<1> DEFINE n == Cardinality(S)
           Below(k) == {x \in S : x < k}
           rank == [k \in S |-> Cardinality(Below(k))]
<1>1. n \in Nat
  BY FS_CardinalityType
<1>2. ASSUME NEW k \in S
      PROVE  IsFiniteSet(Below(k)) /\ Cardinality(Below(k)) \in 0 .. (n - 1)
  <2>1. IsFiniteSet(S \ {k}) /\ Cardinality(S \ {k}) = n - 1
    BY FS_RemoveElement
  <2>2. Below(k) \in SUBSET (S \ {k})
    OBVIOUS
  <2> HIDE DEF Below, n
  <2>3. IsFiniteSet(Below(k)) /\ Cardinality(Below(k)) <= Cardinality(S \ {k})
    BY <2>1, <2>2, FS_Subset
  <2>4. Cardinality(Below(k)) \in Nat
    BY <2>3, FS_CardinalityType
  <2> QED  BY <1>1, <2>1, <2>3, <2>4
<1>3. ASSUME NEW j \in S, NEW k \in S, j < k
      PROVE  Cardinality(Below(j)) # Cardinality(Below(k))
  <2>0. \A x \in S : x < j => x < k
    BY <1>3
  <2>1. Below(j) \in SUBSET Below(k) /\ j \in Below(k) /\ j \notin Below(j)
    <3>1. Below(j) \subseteq Below(k)
      BY <2>0
    <3>2. j \in Below(k)
      BY <1>3
    <3>3. j \notin Below(j)
      <4>1. j \in Nat
        OBVIOUS
      <4>2. ~ (j < j)
        BY <4>1
      <4> QED  BY <4>2
    <3> QED  BY <3>1, <3>2, <3>3
  <2> HIDE DEF Below, n
  <2> QED  BY <1>2, <2>1, FS_Subset
<1>4. rank \in Injection(S, 0 .. (n - 1))
  <2>1. rank \in [S -> 0 .. (n - 1)]
    BY <1>2
  <2>2. ASSUME NEW j \in S, NEW k \in S, rank[j] = rank[k] PROVE j = k
    <3>1. j \in Nat /\ k \in Nat
      OBVIOUS
    <3>2. ~ (j < k) /\ ~ (k < j)
      BY <1>3, <2>2
    <3> QED  BY <3>1, <3>2
  <2> HIDE DEF rank
  <2> QED  BY <2>1, <2>2 DEF Injection, IsInjective
<1>5. IsFiniteSet(0 .. (n - 1)) /\ Cardinality(0 .. (n - 1)) = n
  <2> HIDE DEF n
  <2>1. 0 \in Int /\ n - 1 \in Int
    BY <1>1
  <2>2. /\ IsFiniteSet(0 .. (n - 1))
        /\ Cardinality(0 .. (n - 1)) = IF 0 > n - 1 THEN 0 ELSE (n - 1) - 0 + 1
    BY <2>1, FS_Interval
  <2> QED  BY <1>1, <2>2
<1>6. rank \in Surjection(S, 0 .. (n - 1))
  <2> HIDE DEF rank
  <2> QED  BY <1>4, <1>5, FS_Injection
<1>7. ASSUME NEW i \in 1 .. n PROVE \E k \in S : Cardinality(Below(k)) = i - 1
  <2>1. i - 1 \in 0 .. (n - 1)
    BY <1>1
  <2>2. \E k \in S : rank[k] = i - 1
    BY <1>6, <2>1 DEF Surjection
  <2> QED  BY <2>2
<1>8. Ranked(S) = [i \in 1 .. n |-> CHOOSE k \in S : Cardinality(Below(k)) = i - 1]
  BY DEF Ranked
<1> HIDE DEF Below
<1>9. Ranked(S) \in [1 .. n -> S]
  BY <1>7, <1>8
<1>10. \A i \in 1 .. n : Cardinality(Below(Ranked(S)[i])) = i - 1
  BY <1>7, <1>8
<1>11. ASSUME NEW k \in S
       PROVE  \E i \in 1 .. n : \A j \in 1 .. n : Ranked(S)[j] = k <=> j = i
  <2> DEFINE i == Cardinality(Below(k)) + 1
  <2>1. i \in 1 .. n /\ i - 1 = Cardinality(Below(k))
    BY <1>1, <1>2
  <2>2. Ranked(S)[i] = k
    <3> DEFINE l == Ranked(S)[i]
    <3>1. l \in S /\ Cardinality(Below(l)) = Cardinality(Below(k))
      BY <1>9, <1>10, <2>1
    <3> HIDE DEF l
    <3>2. ~ (l < k) /\ ~ (k < l) /\ l \in Nat /\ k \in Nat
      BY <1>3, <3>1
    <3> QED  BY <3>2 DEF l
  <2>3. ASSUME NEW j \in 1 .. n, Ranked(S)[j] = k PROVE j = i
    <3>1. Cardinality(Below(k)) = j - 1
      BY <1>10, <2>3
    <3> QED  BY <1>1, <2>1, <3>1
  <2> HIDE DEF i
  <2> QED  BY <2>1, <2>2, <2>3
<1>12. DOMAIN Ranked(S) = 1 .. n
  BY <1>9
<1>13. Ranked(S) \in Seq(S) /\ Len(Ranked(S)) = n
  BY <1>1, <1>9
<1> QED  BY <1>11, <1>12, <1>13 DEF n

-----------------------------------------------------------------------------
(* Arithmetic.                                                             *)

\* A set of naturals has a least member.
LEMMA LeastOfNats ==
  ASSUME NEW B \in SUBSET Nat, B # {}
  PROVE  \E x \in B : \A y \in B : x <= y
<1> DEFINE R == {ss \in Nat \X Nat : ss[1] < ss[2]}
<1>1. IsWellFoundedOn(R, Nat)
  BY NatLessThanWellFounded DEF OpToRel
<1> HIDE DEF R
<1>2. PICK x \in B : \A y \in B : ~ (<<y, x>> \in R)
  BY <1>1, WFMin
<1>3. ASSUME NEW y \in B PROVE x <= y
  <2>1. x \in Nat /\ y \in Nat
    OBVIOUS
  <2>2. ASSUME y < x PROVE FALSE
    BY <1>2, <2>1, <2>2 DEF R
  <2> QED  BY <2>1, <2>2
<1> QED  BY <1>3

\* Induction, for a property given as the set of the numbers that have it.
LEMMA NatSetInduction ==
  ASSUME NEW T, 0 \in T, \A n \in Nat : n \in T => n + 1 \in T
  PROVE  Nat \subseteq T
<1> DEFINE B == Nat \ T
<1>1. SUFFICES ASSUME B # {} PROVE FALSE
  OBVIOUS
<1>2. PICK x \in B : \A y \in B : x <= y
  BY <1>1, LeastOfNats
<1>3. x \in Nat /\ x # 0 /\ x \notin T
  OBVIOUS
<1>4. x - 1 \in Nat /\ (x - 1) + 1 = x /\ ~ (x <= x - 1)
  BY <1>3
<1>5. x - 1 \notin T
  BY <1>3, <1>4
<1> QED  BY <1>2, <1>4, <1>5

-----------------------------------------------------------------------------
(* Quotient and remainder.                                                 *)

LEMMA QuotientAndRemainder ==
  ASSUME NEW a \in Nat, NEW b \in Nat \ {0}
  PROVE  /\ a \div b \in Nat /\ (a % b) \in 0 .. (b - 1)
         /\ a = b * (a \div b) + (a % b)
OBVIOUS

\* They are the only numbers with that property.
LEMMA RemainderIsUnique ==
  ASSUME NEW m \in Nat \ {0}, NEW q \in Nat, NEW r \in 0 .. (m - 1)
  PROVE  ((m * q + r) % m) = r /\ ((m * q + r) \div m) = q
<1> DEFINE a == m * q + r
           u == a \div m
           s == (a % m)
<1>1. m * q \in Nat
  OBVIOUS
<1>2. a \in Nat
  BY <1>1
<1> HIDE DEF a
<1>3. u \in Nat /\ s \in 0 .. (m - 1) /\ a = m * u + s
  BY <1>2, QuotientAndRemainder
<1> HIDE DEF u, s
<1>4. \A x, y \in Nat : x < y => m * x + m <= m * y
  <2>1. SUFFICES ASSUME NEW x \in Nat, NEW y \in Nat, x < y PROVE m * x + m <= m * y
    OBVIOUS
  <2>2. m * (x + 1) = m * x + m
    OBVIOUS
  <2>3. x + 1 <= y
    BY <2>1
  <2>4. m * (x + 1) <= m * y
    BY <2>3
  <2> QED  BY <2>2, <2>4
<1>5. m * u \in Nat /\ m * q \in Nat
  BY <1>3
<1>6. a = m * q + r
  BY DEF a
<1> DEFINE mu == m * u
           mq == m * q
<1>7. mu \in Nat /\ mq \in Nat /\ mu + s = mq + r
  BY <1>3, <1>5, <1>6
<1>8. (u < q => mu + m <= mq) /\ (q < u => mq + m <= mu)
  BY <1>3, <1>4
<1> HIDE DEF mu, mq
<1>9. ~ (u < q) /\ ~ (q < u)
  BY <1>3, <1>7, <1>8
<1>10. u = q
  BY <1>3, <1>9
<1>11. mu = mq
  BY <1>10 DEF mu, mq
<1>12. s = r
  BY <1>3, <1>7, <1>11
<1> QED  BY <1>10, <1>12 DEF u, s, a

\* Dividing twice, by a multiple first, leaves the same remainder.
LEMMA RemainderOfMultiple ==
  ASSUME NEW m \in Nat \ {0}, NEW q \in Nat \ {0}, NEW i \in Nat
  PROVE  ((i % (q * m)) % m) = (i % m)
<1> DEFINE n == q * m
           a == i \div n
           r == (i % n)
<1>1. n \in Nat \ {0}
  OBVIOUS
<1> HIDE DEF n
<1>2. a \in Nat /\ r \in 0 .. (n - 1) /\ i = n * a + r
  BY <1>1, QuotientAndRemainder
<1> HIDE DEF a, r
<1> DEFINE b == r \div m
           c == (r % m)
<1>3. r \in Nat
  BY <1>1, <1>2
<1>4. b \in Nat /\ c \in 0 .. (m - 1) /\ r = m * b + c
  BY <1>3, QuotientAndRemainder
<1> HIDE DEF b, c
<1>5. n * a = m * (q * a) /\ q * a \in Nat
  BY <1>2 DEF n
<1>6. m * (q * a + b) = m * (q * a) + m * b /\ q * a + b \in Nat
  BY <1>4, <1>5
<1>7. i = m * (q * a + b) + c
  <2> DEFINE x == m * (q * a)
             y == m * b
  <2>1. x \in Nat /\ y \in Nat
    BY <1>4, <1>5
  <2>2. i = x + (y + c)
    BY <1>2, <1>4, <1>5
  <2>3. m * (q * a + b) = x + y
    BY <1>6
  <2> HIDE DEF x, y
  <2> QED  BY <1>4, <2>1, <2>2, <2>3
<1>8. (i % m) = c
  BY <1>4, <1>6, <1>7, RemainderIsUnique
<1> QED  BY <1>8 DEF c, r, n

\* The remainder for twice the divisor is that for the divisor, or m more; which of
\* the two is a matter of one bit of i.
LEMMA RemainderOfDouble ==
  ASSUME NEW m \in Nat \ {0}, NEW i \in Nat
  PROVE  (i % (2 * m)) = IF (i \div m) % 2 = 0 THEN (i % m) ELSE (i % m) + m
<1> DEFINE q == i \div m
           r == (i % m)
           h == q \div 2
           t == (q % 2)
<1>1. q \in Nat /\ r \in 0 .. (m - 1) /\ i = m * q + r
  BY QuotientAndRemainder
<1> HIDE DEF q, r
<1>2. h \in Nat /\ t \in 0 .. 1 /\ q = 2 * h + t
  BY <1>1
<1> HIDE DEF h, t
<1>3. m * q = (2 * m) * h + m * t
  BY <1>2
<1>4. 2 * m \in Nat \ {0}
  OBVIOUS
<1>5. CASE t = 0
  <2>1. m * t = 0
    BY <1>5
  <2>2. i = (2 * m) * h + r
    BY <1>1, <1>3, <2>1, <1>2
  <2>3. r \in 0 .. (2 * m - 1)
    BY <1>1
  <2>4. (i % (2 * m)) = r
    BY <1>2, <1>4, <2>2, <2>3, RemainderIsUnique
  <2> QED  BY <1>5, <2>4 DEF q, r, t
<1>6. CASE t = 1
  <2>1. m * t = m
    BY <1>6
  <2>2. i = (2 * m) * h + (r + m)
    <3> DEFINE x == (2 * m) * h
               y == m * q
    <3>1. x \in Nat /\ y = x + m /\ i = y + r
      BY <1>1, <1>2, <1>3, <1>4, <2>1
    <3> HIDE DEF x, y
    <3>2. i = x + (r + m)
      BY <1>1, <3>1
    <3> QED  BY <3>2 DEF x
  <2>3. r + m \in 0 .. (2 * m - 1)
    BY <1>1
  <2>4. (i % (2 * m)) = r + m
    BY <1>2, <1>4, <2>2, <2>3, RemainderIsUnique
  <2> QED  BY <1>6, <2>4 DEF q, r, t
<1> QED  BY <1>2, <1>5, <1>6

-----------------------------------------------------------------------------
(* Powers of two.                                                          *)

LEMMA PowerType ==
  ASSUME NEW n \in Nat
  PROVE  2^n \in Nat \ {0}
<1>1. IsFiniteSet(1 .. n) /\ Cardinality(1 .. n) = n
  BY FS_Interval
<1>2. IsFiniteSet(SUBSET (1 .. n)) /\ Cardinality(SUBSET (1 .. n)) = 2^n
  BY <1>1, FS_SUBSET
<1>3. Cardinality(SUBSET (1 .. n)) \in Nat
  BY <1>2, FS_CardinalityType
<1>4. Cardinality(SUBSET (1 .. n)) # 0
  BY <1>2, FS_EmptySet
<1> QED  BY <1>2, <1>3, <1>4

LEMMA PowerOfNext ==
  ASSUME NEW n \in Nat
  PROVE  2^(n + 1) = 2 * 2^n
<1> DEFINE Low == SUBSET (1 .. n)
           High == {T \cup {n + 1} : T \in Low}
           All == SUBSET (1 .. (n + 1))
<1>1. IsFiniteSet(1 .. n) /\ Cardinality(1 .. n) = n
  BY FS_Interval
<1>2. IsFiniteSet(1 .. (n + 1)) /\ Cardinality(1 .. (n + 1)) = n + 1
  BY FS_Interval
<1>3. IsFiniteSet(Low) /\ Cardinality(Low) = 2^n
  BY <1>1, FS_SUBSET
<1>4. Cardinality(All) = 2^(n + 1)
  BY <1>2, FS_SUBSET
<1>5. IsFiniteSet(High) /\ Cardinality(High) = Cardinality(Low)
  <2> DEFINE f == [T \in Low |-> T \cup {n + 1}]
  <2>1. f \in [Low -> High] /\ \A S \in High : \E T \in Low : f[T] = S
    OBVIOUS
  <2>2. ASSUME NEW S \in Low, NEW T \in Low, f[S] = f[T] PROVE S = T
    <3>1. n + 1 \notin S /\ n + 1 \notin T
      OBVIOUS
    <3>2. S \cup {n + 1} = T \cup {n + 1}
      BY <2>2
    <3>3. S = (S \cup {n + 1}) \ {n + 1} /\ T = (T \cup {n + 1}) \ {n + 1}
      BY <3>1
    <3> QED  BY <3>2, <3>3
  <2> HIDE DEF f
  <2>3. f \in Bijection(Low, High)
    BY <2>1, <2>2 DEF Bijection, Injection, Surjection, IsInjective
  <2>4. ExistsBijection(Low, High)
    BY <2>3 DEF ExistsBijection
  <2> HIDE DEF High
  <2> QED  BY <1>3, <2>4, FS_Bijection
<1>6. All = Low \cup High
  <2>1. ASSUME NEW S \in All PROVE S \in Low \cup High
    <3>1. CASE n + 1 \in S
      <4>1. S \ {n + 1} \in Low
        OBVIOUS
      <4>2. S = (S \ {n + 1}) \cup {n + 1}
        BY <3>1
      <4> QED  BY <4>1, <4>2
    <3>2. CASE n + 1 \notin S
      <4>1. S \in Low
        BY <3>2
      <4> QED  BY <4>1
    <3> QED  BY <3>1, <3>2
  <2>2. Low \subseteq All
    OBVIOUS
  <2>3. ASSUME NEW T \in Low PROVE T \cup {n + 1} \in All
    <3>1. \A x \in 1 .. n : x \in 1 .. (n + 1)
      OBVIOUS
    <3>2. n + 1 \in 1 .. (n + 1)
      OBVIOUS
    <3> QED  BY <3>1, <3>2
  <2>4. All = SUBSET (1 .. (n + 1)) /\ High = {T \cup {n + 1} : T \in Low}
    OBVIOUS
  <2> HIDE DEF All, Low, High
  <2>5. High \subseteq All
    BY <2>3, <2>4
  <2> QED  BY <2>1, <2>2, <2>5
<1>7. Low \cap High = {}
  OBVIOUS
<1>8. Cardinality(Low) \in Nat
  BY <1>3, FS_CardinalityType
<1> HIDE DEF Low, High, All
<1>9. Cardinality(All) = Cardinality(Low) + Cardinality(High) - Cardinality({})
  BY <1>3, <1>5, <1>6, <1>7, FS_Union
<1>10. Cardinality({}) = 0
  BY FS_EmptySet
<1> QED  BY <1>3, <1>4, <1>5, <1>8, <1>9, <1>10

\* A power divides every higher one.
LEMMA PowerDivides ==
  ASSUME NEW d \in Nat, NEW e \in Nat, d <= e
  PROVE  \E q \in Nat \ {0} : 2^e = q * 2^d
<1> DEFINE T == {j \in Nat : \E q \in Nat \ {0} : 2^(d + j) = q * 2^d}
<1>1. 2^d \in Nat
  BY PowerType
<1>2. 0 \in T
  <2>1. d + 0 = d /\ 2^d = 1 * 2^d
    BY <1>1
  <2> QED  BY <2>1
<1>3. ASSUME NEW j \in Nat, j \in T PROVE j + 1 \in T
  <2>1. PICK q \in Nat \ {0} : 2^(d + j) = q * 2^d
    BY <1>3
  <2>2. d + (j + 1) = (d + j) + 1 /\ d + j \in Nat
    OBVIOUS
  <2>3. 2^(d + (j + 1)) = 2 * 2^(d + j)
    BY <2>2, PowerOfNext
  <2>4. 2 * (q * 2^d) = (2 * q) * 2^d /\ 2 * q \in Nat \ {0}
    BY <1>1
  <2>5. 2^(d + (j + 1)) = (2 * q) * 2^d
    <3> DEFINE p == 2^(d + (j + 1))
               r == 2^(d + j)
               t == q * 2^d
    <3>1. p = 2 * r /\ r = t /\ 2 * t = (2 * q) * 2^d
      BY <2>1, <2>3, <2>4
    <3> HIDE DEF p, r, t
    <3>2. p = (2 * q) * 2^d
      BY <3>1
    <3> QED  BY <3>2 DEF p
  <2>6. j + 1 \in Nat
    OBVIOUS
  <2> QED  BY <2>4, <2>5, <2>6
<1> HIDE DEF T
<1>4. e - d \in T
  <2>1. Nat \subseteq T
    BY <1>2, <1>3, NatSetInduction
  <2> QED  BY <2>1
<1>5. d + (e - d) = e
  OBVIOUS
<1> QED  BY <1>4, <1>5 DEF T

\* The low d bits of the low e bits are the low d bits.
LEMMA LowBits ==
  ASSUME NEW d \in Nat, NEW e \in Nat, d <= e, NEW i \in Nat
  PROVE  ((i % 2^e) % 2^d) = (i % 2^d)
<1>1. PICK q \in Nat \ {0} : 2^e = q * 2^d
  BY PowerDivides
<1> DEFINE m == 2^d
           n == 2^e
<1>2. m \in Nat \ {0} /\ n = q * m
  BY <1>1, PowerType
<1> HIDE DEF m, n
<1>3. ((i % (q * m)) % m) = (i % m)
  BY <1>2, RemainderOfMultiple
<1>4. ((i % n) % m) = (i % m)
  BY <1>2, <1>3
<1> QED  BY <1>4 DEF m, n

LEMMA LowBitsType ==
  ASSUME NEW d \in Nat, NEW i \in Nat
  PROVE  (i % 2^d) \in 0 .. (2^d - 1)
BY PowerType, QuotientAndRemainder

LEMMA LowBitsOfSmall ==
  ASSUME NEW d \in Nat, NEW i \in 0 .. (2^d - 1)
  PROVE  (i % 2^d) = i
<1> DEFINE m == 2^d
<1>1. m \in Nat \ {0} /\ i \in 0 .. (m - 1)
  BY PowerType
<1> HIDE DEF m
<1>2. i = m * 0 + i
  BY <1>1
<1>3. (i % m) = i
  BY <1>1, <1>2, RemainderIsUnique
<1> QED  BY <1>3 DEF m

\* One more bit gives one of two numbers.
LEMMA OneMoreBit ==
  ASSUME NEW d \in Nat, NEW i \in Nat
  PROVE  (i % 2^(d + 1)) =
           IF (i \div 2^d) % 2 = 0 THEN (i % 2^d) ELSE (i % 2^d) + 2^d
BY PowerType, PowerOfNext, RemainderOfDouble

LEMMA PowersAscend ==
  ASSUME NEW d \in Nat, NEW e \in Nat, d <= e
  PROVE  2^d <= 2^e
<1>1. PICK q \in Nat \ {0} : 2^e = q * 2^d
  BY PowerDivides
<1> DEFINE m == 2^d
<1>2. m \in Nat \ {0}
  BY PowerType
<1> HIDE DEF m
<1>3. m <= q * m
  BY <1>2
<1> QED  BY <1>1, <1>3 DEF m
=============================================================================
