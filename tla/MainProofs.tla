----------------------------- MODULE MainProofs -----------------------------
(***************************************************************************)
(* The parts that Main composes, beside the LSM trees: the lazy-split hash *)
(* for every length of its table; the skip list of the TNC tree for any    *)
(* number of levels and nodes; the page store of the hashes for every      *)
(* number of pages in a chunk and of chunks; and the processes of the TNC  *)
(* tree and their queue for any number of runs and of rounds.  At the end, *)
(* what holds of each part is shown to hold of main, which runs it.        *)
(***************************************************************************)
EXTENDS Main, LSMTreeProofs, SequenceTheorems

-----------------------------------------------------------------------------
(* The lazy-split hash.                                                    *)

LEMMA NumbersHaveBits ==
  ASSUME NEW n \in Nat
  PROVE  \E b \in 0 .. n : n < 2^b /\ (b > 0 => n >= 2^(b - 1))
<1> DEFINE T == {m \in Nat : m < 2^m}
<1>1. n \in T
  <2>1. 0 \in T
    <3>1. 2^0 = 1
      OBVIOUS
    <3> QED  BY <3>1
  <2>2. \A m \in Nat : m \in T => m + 1 \in T
    <3>1. SUFFICES ASSUME NEW m \in Nat, m < 2^m PROVE m + 1 < 2^(m + 1)
      OBVIOUS
    <3>2. 2^(m + 1) = 2 * 2^m /\ 2^m \in Nat \ {0}
      BY PowerOfNext, PowerType
    <3> DEFINE power == 2^m
    <3> HIDE DEF power
    <3>3. power \in Nat \ {0} /\ m < power
      BY <3>1, <3>2 DEF power
    <3>4. m + 1 < 2 * power
      BY <3>3
    <3> QED  BY <3>2, <3>4 DEF power
  <2>3. Nat \subseteq T
    <3> HIDE DEF T
    <3> QED  BY <2>1, <2>2, NatSetInduction
  <2> QED  BY <2>3
<1> DEFINE B == {b \in Nat : n < 2^b}
<1>2. \E b \in B : \A c \in B : b <= c
  <2>1. B \in SUBSET Nat /\ n \in B
    BY <1>1
  <2> HIDE DEF B
  <2> QED  BY <2>1, LeastOfNats
<1>3. PICK b \in B : \A c \in B : b <= c
  BY <1>2
<1>4. b \in 0 .. n
  BY <1>1, <1>3
<1>5. ASSUME b > 0 PROVE n >= 2^(b - 1)
  <2>1. b - 1 \in Nat /\ b - 1 \notin B
    BY <1>3, <1>5
  <2>2. 2^(b - 1) \in Nat
    BY <2>1, PowerType
  <2> QED  BY <2>1, <2>2
<1> QED  BY <1>3, <1>4, <1>5

\* A number has one length only.
LEMMA BitsAreUnique ==
  ASSUME NEW n \in Nat, NEW b \in Nat, NEW c \in Nat,
         n < 2^b, b > 0 => n >= 2^(b - 1),
         n < 2^c, c > 0 => n >= 2^(c - 1)
  PROVE  b = c
<1>1. \A d, e \in Nat : n < 2^d /\ (e > 0 => n >= 2^(e - 1)) => ~(d < e)
  <2>1. SUFFICES ASSUME NEW d \in Nat, NEW e \in Nat, n < 2^d, n >= 2^(e - 1), d < e
                 PROVE  FALSE
    OBVIOUS
  <2>2. e - 1 \in Nat /\ d <= e - 1
    BY <2>1
  <2>3. 2^d <= 2^(e - 1) /\ 2^d \in Nat /\ 2^(e - 1) \in Nat
    BY <2>2, PowersAscend, PowerType
  <2> QED  BY <2>1, <2>3
<1>2. ~(b < c) /\ ~(c < b)
  BY <1>1
<1> QED  BY <1>2

LEMMA BitsAreThose ==
  ASSUME NEW n \in Nat, NEW b \in Nat, n < 2^b, b > 0 => n >= 2^(b - 1)
  PROVE  GetBits(n) = b
<1> DEFINE P(c) == n < 2^c /\ (c > 0 => n >= 2^(c - 1))
<1>1. \E c \in 0 .. n : P(c)
  BY NumbersHaveBits
<1>2. GetBits(n) \in 0 .. n /\ P(GetBits(n))
  BY <1>1, Zenon DEF GetBits
<1>3. GetBits(n) \in Nat
  BY <1>2
<1> QED  BY <1>2, <1>3, BitsAreUnique

DueBucket(key, p) ==
  IF key % (2 * p) < TableBaseSize THEN key % (2 * p) ELSE key % p

LargestPower(p) == p \in {2^i : i \in 0 .. TableBaseSize} /\ p <= TableBaseSize /\ TableBaseSize < 2 * p

\* BucketOf is linear hashing's rule, for every length of the table.
LEMMA BucketIsDue ==
  ASSUME NEW key \in Nat, NEW p, LargestPower(p)
  PROVE  BucketOf(key) = DueBucket(key, p) /\ BucketOf(key) \in 0 .. (TableBaseSize - 1)
<1>1. TableBaseSize \in Nat \ {0}
  BY LazySplitAssumption
<1>2. PICK i \in 0 .. TableBaseSize : p = 2^i
  BY DEF LargestPower
<1>3. /\ i \in Nat /\ i + 1 \in Nat /\ i + 1 > 0 /\ (i + 1) - 1 = i
      /\ p \in Nat \ {0} /\ 2^(i + 1) = 2 * p
      /\ p <= TableBaseSize /\ TableBaseSize < 2 * p
  BY <1>1, <1>2, PowerType, PowerOfNext DEF LargestPower
<1>4. GetBits(TableBaseSize) = i + 1
  BY <1>1, <1>2, <1>3, BitsAreThose
<1>5. Masked(key) = (key % (2 * p))
  BY <1>3, <1>4 DEF Masked, BitHashfunc
<1> DEFINE m == (key % (2 * p))
<1>6. m \in 0 .. (2 * p - 1)
  BY <1>3, LowBitsType
<1>7. CASE m < TableBaseSize
  BY <1>1, <1>5, <1>6, <1>7 DEF BucketOf, DueBucket
<1>8. CASE ~(m < TableBaseSize)
  <2>1. GetBits(m) = i + 1
    <3> HIDE DEF m
    <3>1. m \in Nat /\ m < 2^(i + 1) /\ m >= 2^((i + 1) - 1)
      BY <1>1, <1>2, <1>3, <1>6, <1>8
    <3> QED  BY <1>3, <3>1, BitsAreThose
  <2>2. BucketOf(key) = (m % 2^i)
    <3>1. BucketOf(key) = BitHashfunc(m, GetBits(m) - 1)
      BY <1>5, <1>8 DEF BucketOf
    <3> QED  BY <1>3, <2>1, <3>1 DEF BitHashfunc
  <2>3. (m % 2^i) = (key % p)
    <3>1. i <= i + 1
      BY <1>3
    <3>2. ((key % 2^(i + 1)) % 2^i) = (key % 2^i)
      BY <1>3, <3>1, LowBits
    <3> QED  BY <1>2, <1>3, <3>2
  <2>4. (key % p) \in 0 .. (p - 1)
    BY <1>3, QuotientAndRemainder
  <2>5. BucketOf(key) = DueBucket(key, p)
    BY <1>8, <2>2, <2>3 DEF DueBucket
  <2>6. BucketOf(key) \in 0 .. (TableBaseSize - 1)
    <3> DEFINE r == (key % p)
    <3>1. r \in 0 .. (p - 1) /\ BucketOf(key) = r
      BY <2>2, <2>3, <2>4
    <3> HIDE DEF r
    <3> QED  BY <1>1, <1>3, <3>1
  <2> QED  BY <2>5, <2>6
<1> QED  BY <1>7, <1>8

LEMMA LargestPowerExists == \E p : LargestPower(p)
<1>1. TableBaseSize \in Nat \ {0}
  BY LazySplitAssumption
<1>2. PICK b \in 0 .. TableBaseSize :
        TableBaseSize < 2^b /\ (b > 0 => TableBaseSize >= 2^(b - 1))
  BY <1>1, NumbersHaveBits
<1>3. b # 0
  <2>1. SUFFICES ASSUME b = 0 PROVE FALSE
    OBVIOUS
  <2>2. TableBaseSize < 2^0 /\ 2^0 = 1
    BY <1>2, <2>1
  <2> QED  BY <1>1, <2>2
<1>4. b - 1 \in 0 .. TableBaseSize /\ b - 1 \in Nat /\ (b - 1) + 1 = b
  BY <1>1, <1>2, <1>3
<1>5. 2^b = 2 * 2^(b - 1)
  BY <1>4, PowerOfNext
<1>6. LargestPower(2^(b - 1))
  BY <1>2, <1>3, <1>4, <1>5 DEF LargestPower
<1> QED  BY <1>6

LSInv ==
  /\ bucketList \in [0 .. (TableBaseSize - 1) -> Seq(LSKey)]
  /\ EntriesWhereDue

\* Entries are where linear hashing wants them
THEOREM EntriesStayWhereDue == LSSpec => []EntriesWhereDue
<1> DEFINE p == CHOOSE p \in {2^i : i \in 0 .. TableBaseSize} :
                  p <= TableBaseSize /\ TableBaseSize < 2 * p
<1>0. LargestPower(p)
  <2>1. \E q \in {2^i : i \in 0 .. TableBaseSize} : q <= TableBaseSize /\ TableBaseSize < 2 * q
    BY LargestPowerExists DEF LargestPower
  <2> QED  BY <2>1 DEF LargestPower
<1> DEFINE Due == \A b \in DOMAIN bucketList : \A i \in DOMAIN bucketList[b] :
                    b = DueBucket(bucketList[b][i], p)
<1>1. EntriesWhereDue <=> Due
  BY DEF EntriesWhereDue, DueBucket
<1>2. EntriesWhereDue' <=> Due'
  BY DEF EntriesWhereDue, DueBucket
<1> HIDE DEF p
<1>3. LSInit => LSInv
  <2> SUFFICES ASSUME LSInit PROVE LSInv
    OBVIOUS
  <2>1. << >> \in Seq(LSKey) /\ DOMAIN << >> = {}
    OBVIOUS
  <2>2. bucketList = [b \in 0 .. (TableBaseSize - 1) |-> << >>]
    BY DEF LSInit, NewBucket
  <2>3. Due
    BY <2>1, <2>2
  <2> HIDE DEF Due
  <2> QED  BY <1>1, <2>1, <2>2, <2>3 DEF LSInv
<1>4. LSInv /\ [LSNext]_lsvars => LSInv'
  <2> SUFFICES ASSUME LSInv, [LSNext]_lsvars PROVE LSInv'
    OBVIOUS
  <2>1. bucketList \in [0 .. (TableBaseSize - 1) -> Seq(LSKey)] /\ Due
    BY <1>1 DEF LSInv
  <2>2. CASE UNCHANGED bucketList
    <3>1. Due'
      BY <2>1, <2>2
    <3> HIDE DEF Due
    <3> QED  BY <1>2, <2>1, <2>2, <3>1 DEF LSInv
  <2>3. ASSUME NEW key \in LSKey,
               bucketList' = [bucketList EXCEPT ![BucketOf(key)] = BucketInsert(@, key)]
        PROVE  LSInv'
    <3> DEFINE h == BucketOf(key)
    <3>1. key \in Nat
      BY LazySplitAssumption
    <3>2. h = DueBucket(key, p) /\ h \in 0 .. (TableBaseSize - 1)
      BY <1>0, <3>1, BucketIsDue
    <3> HIDE DEF h
    <3>3. bucketList' = [bucketList EXCEPT ![h] = Append(bucketList[h], key)]
      BY <2>3 DEF BucketInsert, h
    <3>4. /\ bucketList[h] \in Seq(LSKey) /\ Append(bucketList[h], key) \in Seq(LSKey)
          /\ Len(bucketList[h]) \in Nat
          /\ DOMAIN bucketList[h] = 1 .. Len(bucketList[h])
          /\ DOMAIN Append(bucketList[h], key) = 1 .. (Len(bucketList[h]) + 1)
          /\ \A i \in 1 .. Len(bucketList[h]) : Append(bucketList[h], key)[i] = bucketList[h][i]
          /\ Append(bucketList[h], key)[Len(bucketList[h]) + 1] = key
      BY <2>1, <3>2
    <3>5. bucketList' \in [0 .. (TableBaseSize - 1) -> Seq(LSKey)]
      BY <2>1, <3>3, <3>4
    <3>6. ASSUME NEW b \in DOMAIN bucketList', NEW i \in DOMAIN bucketList'[b]
          PROVE  b = DueBucket(bucketList'[b][i], p)
      <4>1. CASE b # h
        BY <2>1, <3>3, <3>6, <4>1
      <4>2. CASE b = h
        <5>1. bucketList'[b] = Append(bucketList[h], key)
          BY <2>1, <3>2, <3>3, <4>2
        <5>2. i \in 1 .. Len(bucketList[h]) \/ i = Len(bucketList[h]) + 1
          BY <3>4, <5>1
        <5>3. h \in DOMAIN bucketList
          BY <2>1, <3>2
        <5> QED  BY <2>1, <3>2, <3>4, <4>2, <5>1, <5>2, <5>3
      <4> QED  BY <4>1, <4>2
    <3>7. Due'
      BY <3>6
    <3> HIDE DEF Due
    <3> QED  BY <1>2, <3>5, <3>7 DEF LSInv
  <2> QED
    BY <2>2, <2>3 DEF LSNext, LSInsert, LSRetrieval, LSUpdate, BDataRead, lsvars
<1>5. LSInv => EntriesWhereDue
  BY DEF LSInv
<1> QED  BY <1>3, <1>4, <1>5, PTL DEF LSSpec

\* The totals of the numbers f up to each place.
Totals(f, n, g) ==
  \A b \in 0 .. n : g[b] = f[b] + (IF b = 0 THEN 0 ELSE g[b - 1])

LEMMA TotalsExist ==
  ASSUME NEW n \in Nat, NEW f \in [0 .. n -> Nat]
  PROVE  \E g \in [0 .. n -> Nat] : Totals(f, n, g)
<1> DEFINE T == {m \in Nat : m <= n => \E g \in [0 .. m -> Nat] : Totals(f, m, g)}
<1>1. 0 \in T
  <2>1. [b \in 0 .. 0 |-> f[0]] \in [0 .. 0 -> Nat] /\ Totals(f, 0, [b \in 0 .. 0 |-> f[0]])
    BY DEF Totals
  <2> QED  BY <2>1
<1>2. ASSUME NEW m \in Nat, m \in T PROVE m + 1 \in T
  <2>1. SUFFICES ASSUME m + 1 <= n
                 PROVE  \E g \in [0 .. (m + 1) -> Nat] : Totals(f, m + 1, g)
    OBVIOUS
  <2>2. PICK g \in [0 .. m -> Nat] : Totals(f, m, g)
    BY <1>2, <2>1
  <2> DEFINE h == [b \in 0 .. (m + 1) |-> IF b = m + 1 THEN f[b] + g[m] ELSE g[b]]
  <2>3. h \in [0 .. (m + 1) -> Nat]
    BY <2>1
  <2>4. Totals(f, m + 1, h)
    <3>1. SUFFICES ASSUME NEW b \in 0 .. (m + 1)
                   PROVE  h[b] = f[b] + (IF b = 0 THEN 0 ELSE h[b - 1])
      BY DEF Totals
    <3>2. CASE b = m + 1
      BY <3>2
    <3>3. CASE b # m + 1
      <4>1. b \in 0 .. m /\ (b # 0 => b - 1 \in 0 .. m)
        BY <3>3
      <4>2. g[b] = f[b] + (IF b = 0 THEN 0 ELSE g[b - 1])
        BY <2>2, <4>1 DEF Totals
      <4> QED  BY <4>1, <4>2
    <3> QED  BY <3>2, <3>3
  <2> QED  BY <2>3, <2>4
<1> HIDE DEF T
<1>3. n \in T
  BY <1>1, <1>2, NatSetInduction
<1> QED  BY <1>3 DEF T

\* One more at place h is one more in the totals from there on.
OneMoreAt(h, n, f, p, e, q) ==
  /\ n \in Nat /\ h \in 0 .. n
  /\ f \in [0 .. n -> Nat] /\ p \in [0 .. n -> Nat] /\ Totals(f, n, p)
  /\ e \in [0 .. n -> Nat] /\ q \in [0 .. n -> Nat] /\ Totals(e, n, q)
  /\ \A b \in 0 .. n : e[b] = IF b = h THEN f[b] + 1 ELSE f[b]

LEMMA TotalsGrow ==
  ASSUME NEW h, NEW n, NEW f, NEW p, NEW e, NEW q, OneMoreAt(h, n, f, p, e, q)
  PROVE  q[n] = p[n] + 1
<1> USE DEF OneMoreAt
<1> DEFINE T == {m \in Nat : m <= n => q[m] = p[m] + (IF m >= h THEN 1 ELSE 0)}
<1>1. 0 \in T
  BY DEF Totals
<1>2. ASSUME NEW m \in Nat, m \in T PROVE m + 1 \in T
  <2>1. SUFFICES ASSUME m + 1 <= n
                 PROVE  q[m + 1] = p[m + 1] + (IF m + 1 >= h THEN 1 ELSE 0)
    OBVIOUS
  <2>2. m + 1 \in 0 .. n /\ m \in 0 .. n /\ m + 1 # 0 /\ (m + 1) - 1 = m
    BY <2>1
  <2>3. q[m] = p[m] + (IF m >= h THEN 1 ELSE 0)
    BY <1>2, <2>2
  <2>4. q[m + 1] = e[m + 1] + q[m] /\ p[m + 1] = f[m + 1] + p[m]
    BY <2>2 DEF Totals
  <2>5. f[m + 1] \in Nat /\ p[m] \in Nat /\ q[m] \in Nat
        /\ e[m + 1] = IF m + 1 = h THEN f[m + 1] + 1 ELSE f[m + 1]
    BY <2>2
  <2>6. h \in Nat /\ m \in Nat /\ (m + 1 = h => ~ (m >= h)) /\ (m + 1 # h => (m + 1 >= h <=> m >= h))
    OBVIOUS
  <2> DEFINE qm == q[m]  pm == p[m]  fn == f[m + 1]  en == e[m + 1]
  <2>7. q[m + 1] = en + qm /\ p[m + 1] = fn + pm /\ qm = pm + (IF m >= h THEN 1 ELSE 0)
        /\ fn \in Nat /\ pm \in Nat /\ en = (IF m + 1 = h THEN fn + 1 ELSE fn)
    BY <2>3, <2>4, <2>5
  <2> HIDE DEF qm, pm, fn, en
  <2>8. CASE m + 1 = h
    <3>1. qm = pm /\ en = fn + 1 /\ m + 1 >= h
      BY <2>6, <2>7, <2>8
    <3> QED  BY <2>7, <3>1
  <2>9. CASE m + 1 # h
    <3>1. en = fn
      BY <2>7, <2>9
    <3>2. CASE m >= h
      <4>1. qm = pm + 1 /\ m + 1 >= h
        BY <2>6, <2>7, <2>9, <3>2
      <4> QED  BY <2>7, <3>1, <4>1
    <3>3. CASE ~ (m >= h)
      <4>1. qm = pm /\ ~ (m + 1 >= h)
        BY <2>6, <2>7, <2>9, <3>3
      <4> QED  BY <2>7, <3>1, <4>1
    <3> QED  BY <3>2, <3>3
  <2> QED  BY <2>8, <2>9
<1> HIDE DEF T
<1>3. n \in T
  BY <1>1, <1>2, NatSetInduction
<1> QED  BY <1>3 DEF T

LEMMA TotalsOfNothing ==
  ASSUME NEW n \in Nat, NEW p \in [0 .. n -> Nat], NEW f, Totals(f, n, p),
         \A b \in 0 .. n : f[b] = 0
  PROVE  p[n] = 0
<1> DEFINE T == {m \in Nat : m <= n => p[m] = 0}
<1>1. 0 \in T
  BY DEF Totals
<1>2. ASSUME NEW m \in Nat, m \in T PROVE m + 1 \in T
  <2>1. SUFFICES ASSUME m + 1 <= n PROVE p[m + 1] = 0
    OBVIOUS
  <2>2. m + 1 \in 0 .. n /\ m + 1 # 0 /\ (m + 1) - 1 = m /\ p[m] = 0
    BY <1>2, <2>1
  <2>3. p[m + 1] = f[m + 1] + p[m] /\ f[m + 1] = 0
    BY <2>2 DEF Totals
  <2> QED  BY <2>2, <2>3
<1> HIDE DEF T
<1>3. n \in T
  BY <1>1, <1>2, NatSetInduction
<1> QED  BY <1>3 DEF T

\* The recursive definition of EntriesUpTo has such totals as its value.
Lengths(list) == [b \in 0 .. (TableBaseSize - 1) |-> Len(list[b])]

EntriesAre(list, g) ==
  g = [b \in 0 .. (TableBaseSize - 1) |-> Len(list[b]) + (IF b = 0 THEN 0 ELSE g[b - 1])]

LEMMA EntriesAreTotals ==
  ASSUME NEW list \in [0 .. (TableBaseSize - 1) -> Seq(LSKey)],
         NEW u, u = CHOOSE g : EntriesAre(list, g)
  PROVE  /\ Lengths(list) \in [0 .. (TableBaseSize - 1) -> Nat]
         /\ u \in [0 .. (TableBaseSize - 1) -> Nat]
         /\ Totals(Lengths(list), TableBaseSize - 1, u)
<1> DEFINE n == TableBaseSize - 1
<1>1. n \in Nat
  BY LazySplitAssumption
<1>2. Lengths(list) \in [0 .. n -> Nat]
  BY DEF Lengths
<1>3. PICK g \in [0 .. n -> Nat] : Totals(Lengths(list), n, g)
  BY <1>1, <1>2, TotalsExist
<1>4. EntriesAre(list, g)
  BY <1>3 DEF EntriesAre, Totals, Lengths
<1>5. EntriesAre(list, u)
  BY <1>4
<1>6. u = [b \in 0 .. n |-> Len(list[b]) + (IF b = 0 THEN 0 ELSE u[b - 1])]
  BY <1>5 DEF EntriesAre
<1>7. Totals(Lengths(list), n, u)
  <2>1. ASSUME NEW b \in 0 .. n PROVE u[b] = Len(list[b]) + (IF b = 0 THEN 0 ELSE u[b - 1])
    <3> HIDE DEF n
    <3> QED  BY <1>6
  <2>2. \A b \in 0 .. n : Lengths(list)[b] = Len(list[b])
    BY DEF Lengths
  <2> HIDE DEF n
  <2> QED  BY <2>1, <2>2 DEF Totals
<1> DEFINE T == {m \in Nat : m <= n => u[m] \in Nat}
<1>8. 0 \in T
  BY <1>1, <1>2, <1>7 DEF Totals
<1>9. ASSUME NEW m \in Nat, m \in T PROVE m + 1 \in T
  <2>1. SUFFICES ASSUME m + 1 <= n PROVE u[m + 1] \in Nat
    OBVIOUS
  <2>2. m + 1 \in 0 .. n /\ m + 1 # 0 /\ (m + 1) - 1 = m /\ u[m] \in Nat
    BY <1>1, <1>9, <2>1
  <2>3. u[m + 1] = Lengths(list)[m + 1] + u[m]
    BY <1>7, <2>2 DEF Totals
  <2> QED  BY <1>2, <2>2, <2>3
<1> HIDE DEF T
<1>10. Nat \subseteq T
  BY <1>8, <1>9, NatSetInduction
<1>11. \A m \in 0 .. n : u[m] \in Nat
  BY <1>1, <1>10 DEF T
<1> HIDE DEF n
<1>12. u \in [0 .. n -> Nat]
  BY <1>6, <1>11
<1> QED  BY <1>2, <1>7, <1>12 DEF n

EntriesNow == EntriesUpTo[TableBaseSize - 1]

LSCounted ==
  /\ bucketList \in [0 .. (TableBaseSize - 1) -> Seq(LSKey)]
  /\ lsstatus \in {"running", "exited", "aborted"}
  /\ lsstatus # "exited" => Allsize = EntriesNow

\* An insertion puts one more entry into the buckets.
LEMMA OneMoreEntry ==
  ASSUME bucketList \in [0 .. (TableBaseSize - 1) -> Seq(LSKey)],
         NEW h \in 0 .. (TableBaseSize - 1), NEW key \in LSKey,
         bucketList' = [bucketList EXCEPT ![h] = Append(bucketList[h], key)]
  PROVE  /\ bucketList' \in [0 .. (TableBaseSize - 1) -> Seq(LSKey)]
         /\ EntriesNow \in Nat /\ EntriesNow' = EntriesNow + 1
<1> DEFINE n == TableBaseSize - 1
           u == EntriesUpTo
           v == EntriesUpTo'
<1>1. n \in Nat
  BY LazySplitAssumption
<1>2. bucketList' \in [0 .. n -> Seq(LSKey)]
  OBVIOUS
<1>3. u = CHOOSE g : EntriesAre(bucketList, g)
  BY Zenon DEF EntriesUpTo, EntriesAre
<1>4. v = CHOOSE g : EntriesAre(bucketList', g)
  BY Zenon DEF EntriesUpTo, EntriesAre
<1> HIDE DEF u, v
<1> DEFINE f == Lengths(bucketList)
           e == Lengths(bucketList')
<1>5. f \in [0 .. n -> Nat] /\ u \in [0 .. n -> Nat] /\ Totals(f, n, u)
  BY <1>3, EntriesAreTotals
<1>6. e \in [0 .. n -> Nat] /\ v \in [0 .. n -> Nat] /\ Totals(e, n, v)
  BY <1>2, <1>4, EntriesAreTotals
<1>7. ASSUME NEW b \in 0 .. n PROVE e[b] = IF b = h THEN f[b] + 1 ELSE f[b]
  BY DEF Lengths
<1> HIDE DEF f, e, n
<1>8. h \in 0 .. n
  BY DEF n
<1>9. v[n] = u[n] + 1
  <2> HIDE DEF v, u
  <2>1. \A c \in 0 .. n : e[c] = IF c = h THEN f[c] + 1 ELSE f[c]
    BY <1>7
  <2>2. OneMoreAt(h, n, f, u, e, v)
    BY <1>1, <1>5, <1>6, <1>8, <2>1 DEF OneMoreAt
  <2> QED  BY <2>2, TotalsGrow
<1>10. u[n] \in Nat
  BY <1>1, <1>5
<1>11. EntriesNow = u[n] /\ EntriesNow' = v[n]
  BY DEF EntriesNow, n, u, v
<1> QED  BY <1>2, <1>9, <1>10, <1>11 DEF n

\* Allsize counts the entries that are in the buckets, the key goes to a bucket there is
\* (LSHash.cpp: Insert), as long as the process lives.
THEOREM LSTypesAreKept == LSSpec => []LSTypeOK
<1>1. LSInit => LSCounted
  <2> SUFFICES ASSUME LSInit PROVE LSCounted
    OBVIOUS
  <2> DEFINE n == TableBaseSize - 1
             u == EntriesUpTo
  <2>1. n \in Nat
    BY LazySplitAssumption
  <2>2. << >> \in Seq(LSKey) /\ Len(<< >>) = 0
    OBVIOUS
  <2>3. bucketList = [b \in 0 .. n |-> << >>] /\ Allsize = 0 /\ lsstatus = "running"
    BY DEF LSInit, NewBucket
  <2>4. bucketList \in [0 .. n -> Seq(LSKey)]
    BY <2>2, <2>3
  <2>5. u = CHOOSE g : EntriesAre(bucketList, g)
    BY Zenon DEF EntriesUpTo, EntriesAre
  <2> HIDE DEF u
  <2>6. u \in [0 .. n -> Nat] /\ Totals(Lengths(bucketList), n, u)
    BY <2>4, <2>5, EntriesAreTotals
  <2>7. \A b \in 0 .. n : Lengths(bucketList)[b] = 0
    BY <2>2, <2>3 DEF Lengths
  <2> HIDE DEF n
  <2>8. u[n] = 0
    BY <2>1, <2>6, <2>7, TotalsOfNothing
  <2> QED  BY <2>3, <2>4, <2>8 DEF LSCounted, EntriesNow, n, u
<1>2. LSCounted /\ [LSNext]_lsvars => LSCounted'
  <2> SUFFICES ASSUME LSCounted, [LSNext]_lsvars PROVE LSCounted'
    OBVIOUS
  <2> USE DEF LSCounted
  <2>1. CASE UNCHANGED <<bucketList, Allsize>> /\ lsstatus' \in {lsstatus, "aborted"}
             /\ (lsstatus # "exited" \/ UNCHANGED lsstatus)
    <3>1. EntriesNow' = EntriesNow
      BY <2>1 DEF EntriesNow, EntriesUpTo
    <3> QED  BY <2>1, <3>1
  <2>2. ASSUME NEW key \in LSKey, LSInsert(key) PROVE LSCounted'
    <3>1. CASE lsstatus' = "exited" /\ UNCHANGED bucketList
      BY <3>1
    <3>2. CASE /\ bucketList' = [bucketList EXCEPT ![BucketOf(key)] = BucketInsert(@, key)]
               /\ UNCHANGED lsstatus
      <4> DEFINE h == BucketOf(key)
      <4>1. h \in 0 .. (TableBaseSize - 1)
        <5>1. key \in Nat
          BY LazySplitAssumption
        <5>2. \E p : LargestPower(p)
          BY LargestPowerExists
        <5> QED  BY <5>1, <5>2, BucketIsDue
      <4>2. bucketList' = [bucketList EXCEPT ![h] = Append(bucketList[h], key)]
        BY <3>2 DEF BucketInsert
      <4>3. lsstatus = "running" /\ Allsize' = Allsize + 1
        BY <2>2 DEF LSInsert
      <4> HIDE DEF h
      <4>4. /\ bucketList' \in [0 .. (TableBaseSize - 1) -> Seq(LSKey)]
            /\ EntriesNow' = EntriesNow + 1
        BY <4>1, <4>2, OneMoreEntry
      <4> QED  BY <3>2, <4>3, <4>4
    <3> QED  BY <2>2, <3>1, <3>2 DEF LSInsert
  <2>3. CASE LSRetrieval
    <3>1. UNCHANGED <<bucketList, Allsize>> /\ lsstatus = "running" /\ lsstatus' = "aborted"
      BY <2>3 DEF LSRetrieval, BDataRead, LSBucketFromPage
    <3> QED  BY <2>1, <3>1
  <2>4. CASE UNCHANGED lsvars
    BY <2>1, <2>4 DEF lsvars
  <2> QED  BY <2>2, <2>3, <2>4 DEF LSNext, LSUpdate
<1>3. LSCounted => LSTypeOK
  <2> SUFFICES ASSUME LSCounted PROVE LSTypeOK
    OBVIOUS
  <2>1. \A b \in DOMAIN bucketList : \A i \in DOMAIN bucketList[b] : bucketList[b][i] \in LSKey
    BY DEF LSCounted
  <2> QED  BY <2>1 DEF LSCounted, LSTypeOK, EntriesNow
<1> QED  BY <1>1, <1>2, <1>3, PTL DEF LSSpec

-----------------------------------------------------------------------------
(* The skip list.                                                          *)

\* Node a comes before node b: the head before all, then by their keys, and of one
\* key the newer one first.
Before(list, a, b) ==
  /\ b # HeadNode
  /\ \/ a = HeadNode
     \/ list[a].key < list[b].key
     \/ list[a].key = list[b].key /\ a > b

ListNode == [key : Nat, forward : UNION {[0 .. (h - 1) -> Nat] : h \in 1 .. MAX_LEVEL1}]

\* Each level leads from a node to a later one that has this level.
LinksAscend(list) ==
  \A n \in DOMAIN list : \A i \in DOMAIN list[n].forward :
    list[n].forward[i] # Nullptr =>
      /\ list[n].forward[i] \in DOMAIN list
      /\ i \in DOMAIN list[list[n].forward[i]].forward
      /\ Before(list, n, list[n].forward[i])

\* The bottom level leads through all nodes, in the order s.
Through(list, s) ==
  /\ s \in [1 .. (Len(list) - 1) -> 2 .. Len(list)]
  /\ \A m \in 2 .. Len(list) : \E q \in 1 .. (Len(list) - 1) : s[q] = m
  /\ \A p, q \in 1 .. (Len(list) - 1) : p < q => Before(list, s[p], s[q])
  /\ list[HeadNode].forward[0] = IF Len(list) = 1 THEN Nullptr ELSE s[1]
  /\ \A p \in 1 .. (Len(list) - 1) :
       list[s[p]].forward[0] = IF p = Len(list) - 1 THEN Nullptr ELSE s[p + 1]

ListShape(list, top) ==
  /\ list \in Seq(ListNode) /\ Len(list) # 0
  /\ top \in 0 .. MAX_LEVEL1
  /\ DOMAIN list[HeadNode].forward = 0 .. (MAX_LEVEL1 - 1)
  /\ \A i \in top .. (MAX_LEVEL1 - 1) : list[HeadNode].forward[i] = Nullptr
  /\ LinksAscend(list)

SkipInv ==
  /\ ListShape(tsl, level)
  /\ \E s : Through(tsl, s)
  /\ node \in 0 .. Len(tsl)
  /\ liststatus \in {"running", "undefined"}

\* A walk that goes on while the next node is in P ends somewhere: its recursive
\* definition has a solution.
GoesOn(D, P, nx, f) == f = [d \in D |-> IF nx[d] \in P THEN f[nx[d]] ELSE d]

LEMMA LastExists ==
  ASSUME NEW D, NEW P, NEW nx, \A d \in D : nx[d] \in P => nx[d] \in D
  PROVE  \E f : GoesOn(D, P, nx, f)
<1> DEFINE Closed(C) == \A c \in C : nx[c] \in P => nx[c] \in C
           Ends(d) == {e \in D : nx[e] \notin P /\ \A C \in SUBSET D : d \in C /\ Closed(C) => e \in C}
           LastOf(d) == CHOOSE e : e \in Ends(d)
           f == [d \in D |-> LastOf(d)]
<1>1. ASSUME NEW d \in D, nx[d] \in P PROVE Ends(d) = Ends(nx[d])
  <2>1. nx[d] \in D
    BY <1>1
  <2>2. ASSUME NEW e \in Ends(d) PROVE e \in Ends(nx[d])
    <3>1. SUFFICES ASSUME NEW C \in SUBSET D, nx[d] \in C, Closed(C) PROVE e \in C
      OBVIOUS
    <3>2. C \cup {d} \in SUBSET D /\ Closed(C \cup {d}) /\ d \in C \cup {d}
      BY <1>1, <3>1
    <3> HIDE DEF Closed
    <3>3. e \in C \cup {d}
      BY <3>2
    <3>4. e # d
      BY <1>1
    <3> QED  BY <3>3, <3>4
  <2>3. ASSUME NEW e \in Ends(nx[d]) PROVE e \in Ends(d)
    <3>1. SUFFICES ASSUME NEW C \in SUBSET D, d \in C, Closed(C) PROVE e \in C
      OBVIOUS
    <3>2. nx[d] \in C
      BY <1>1, <3>1
    <3> HIDE DEF Closed
    <3> QED  BY <3>1, <3>2
  <2> HIDE DEF Ends
  <2> QED  BY <2>2, <2>3
<1>2. ASSUME NEW d \in D, nx[d] \notin P PROVE Ends(d) = {d}
  <2>1. Closed({d}) /\ {d} \in SUBSET D /\ d \in {d}
    BY <1>2
  <2>2. d \in Ends(d)
    BY <1>2
  <2>3. ASSUME NEW e \in Ends(d) PROVE e = d
    <3> HIDE DEF Closed
    <3>1. e \in {d}
      BY <2>1
    <3> QED  BY <3>1
  <2> HIDE DEF Ends
  <2> QED  BY <2>2, <2>3
<1> HIDE DEF Ends
<1>3. ASSUME NEW d \in D PROVE LastOf(d) = IF nx[d] \in P THEN f[nx[d]] ELSE d
  <2>1. CASE nx[d] \in P
    BY <1>1, <2>1
  <2>2. CASE nx[d] \notin P
    <3>1. LastOf(d) \in {d}
      BY <1>2, <2>2
    <3> QED  BY <2>2, <3>1
  <2> QED  BY <2>1, <2>2
<1>4. f = [d \in D |-> IF nx[d] \in P THEN f[nx[d]] ELSE d]
  <2>1. f = [d \in D |-> LastOf(d)]
    OBVIOUS
  <2>2. DOMAIN f = D /\ \A d \in D : f[d] = IF nx[d] \in P THEN f[nx[d]] ELSE d
    BY <1>3
  <2> HIDE DEF f, LastOf
  <2> QED  BY <2>1, <2>2
<1>5. GoesOn(D, P, nx, f)
  BY <1>4, Zenon DEF GoesOn
<1> HIDE DEF f
<1> QED  BY <1>5

\* The same for the walk down the levels, each of which goes on where the one above ended.
LeadsDown(F, t, start, f) ==
  f = [i \in 0 .. t |-> F[i][IF i = t THEN start ELSE f[i + 1]]]

LEMMA LeftExists ==
  ASSUME NEW top \in Nat, NEW F, NEW h
  PROVE  \E f : LeadsDown(F, top, h, f)
<1> USE DEF LeadsDown
<1> DEFINE Solves(t, start, f) == LeadsDown(F, t, start, f)
           T == {t \in Nat : \A start : \E f : Solves(t, start, f)}
<1>1. 0 \in T
  <2>1. SUFFICES ASSUME NEW start PROVE \E f : Solves(0, start, f)
    OBVIOUS
  <2>2. Solves(0, start, [i \in 0 .. 0 |-> F[0][start]])
    OBVIOUS
  <2> HIDE DEF Solves
  <2> QED  BY <2>2
<1>2. ASSUME NEW t \in Nat, t \in T PROVE t + 1 \in T
  <2>1. SUFFICES ASSUME NEW start PROVE \E f : Solves(t + 1, start, f)
    OBVIOUS
  <2> DEFINE first == F[t + 1][start]
  <2>2. PICK f : Solves(t, first, f)
    BY <1>2
  <2> HIDE DEF first
  <2> DEFINE g == [i \in 0 .. (t + 1) |-> IF i = t + 1 THEN first ELSE f[i]]
  <2>3. \A i \in 0 .. t : f[i] = F[i][IF i = t THEN first ELSE f[i + 1]]
    BY <2>2
  <2>4. ASSUME NEW i \in 0 .. (t + 1)
        PROVE  g[i] = F[i][IF i = t + 1 THEN start ELSE g[i + 1]]
    <3>1. CASE i = t + 1
      BY <3>1 DEF first
    <3>2. CASE i = t
      <4>1. g[i] = f[i] /\ g[i + 1] = first /\ i # t + 1 /\ i \in 0 .. t
        BY <3>2
      <4> QED  BY <2>3, <3>2, <4>1
    <3>3. CASE i # t /\ i # t + 1
      <4>1. i \in 0 .. t /\ i + 1 \in 0 .. (t + 1) /\ i + 1 # t + 1
        BY <3>3
      <4>2. g[i] = f[i] /\ g[i + 1] = f[i + 1]
        BY <4>1
      <4> QED  BY <2>3, <3>3, <4>1, <4>2
    <3> QED  BY <3>1, <3>2, <3>3
  <2>5. Solves(t + 1, start, g)
    <3>1. g = [i \in 0 .. (t + 1) |-> g[i]]
      OBVIOUS
    <3> HIDE DEF g
    <3> QED  BY <2>4, <3>1
  <2> HIDE DEF Solves
  <2> QED  BY <2>5
<1> HIDE DEF T
<1>3. top \in T
  BY <1>1, <1>2, NatSetInduction
<1> QED  BY <1>3 DEF T

LEMMA ListLength ==
  ASSUME NEW list, NEW top, ListShape(list, top)
  PROVE  /\ Len(list) \in Nat \ {0} /\ DOMAIN list = 1 .. Len(list)
         /\ HeadNode \in DOMAIN list
BY DEF ListShape, HeadNode

LEMMA NodeFacts ==
  ASSUME NEW list, NEW top, ListShape(list, top)
  PROVE  /\ Len(list) \in Nat \ {0} /\ DOMAIN list = 1 .. Len(list)
         /\ HeadNode \in DOMAIN list
         /\ \A n \in DOMAIN list : 
              /\ list[n].key \in Nat /\ 0 \in DOMAIN list[n].forward
              /\ \E h \in 1 .. MAX_LEVEL1 : list[n].forward \in [0 .. (h - 1) -> Nat]
<1>1. list \in Seq(ListNode) /\ Len(list) # 0
  BY DEF ListShape
<1>2. Len(list) \in Nat \ {0} /\ DOMAIN list = 1 .. Len(list) /\ HeadNode \in DOMAIN list
  BY <1>1 DEF HeadNode
<1>3. ASSUME NEW n \in DOMAIN list
      PROVE  /\ list[n].key \in Nat /\ 0 \in DOMAIN list[n].forward
             /\ \E h \in 1 .. MAX_LEVEL1 : list[n].forward \in [0 .. (h - 1) -> Nat]
  <2>1. list[n] \in ListNode
    BY <1>1
  <2>2. list[n].key \in Nat /\ list[n].forward \in UNION {[0 .. (h - 1) -> Nat] : h \in 1 .. MAX_LEVEL1}
    BY <2>1 DEF ListNode
  <2>3. PICK h \in 1 .. MAX_LEVEL1 : list[n].forward \in [0 .. (h - 1) -> Nat]
    BY <2>2
  <2>4. 0 \in DOMAIN list[n].forward
    BY <2>3, SkiplistAssumption
  <2> QED  BY <2>2, <2>3, <2>4
<1> QED  BY <1>2, <1>3

LEMMA LastOnEquation ==
  ASSUME ListShape(tsl, level), NEW i \in Nat, NEW k \in Nat
  PROVE  \A n \in OnLevel(i) :
           LastOn(i, k)[n] = IF Passes(tsl[n].forward[i], k)
                             THEN LastOn(i, k)[tsl[n].forward[i]] ELSE n
<1> DEFINE D == OnLevel(i)
           P == {m \in DOMAIN tsl : Passes(m, k)}
           nx == [n \in D |-> tsl[n].forward[i]]
           Is(f) == f = [n \in D |-> IF Passes(tsl[n].forward[i], k) THEN f[tsl[n].forward[i]] ELSE n]
<1>1. ASSUME NEW n \in D
      PROVE  /\ nx[n] = tsl[n].forward[i]
             /\ nx[n] \in P <=> Passes(tsl[n].forward[i], k)
             /\ nx[n] \in P => nx[n] \in D
  BY DEF ListShape, LinksAscend, OnLevel, Passes
<1>2. PICK f : GoesOn(D, P, nx, f)
  <2>1. \A d \in D : nx[d] \in P => nx[d] \in D
    BY <1>1
  <2> HIDE DEF D, P, nx
  <2> QED  BY <2>1, LastExists, Zenon
<1>3. Is(f)
  <2>1. \A n \in D : (IF nx[n] \in P THEN f[nx[n]] ELSE n)
                     = (IF Passes(tsl[n].forward[i], k) THEN f[tsl[n].forward[i]] ELSE n)
    BY <1>1
  <2>2. f = [d \in D |-> IF nx[d] \in P THEN f[nx[d]] ELSE d]
    BY <1>2, Zenon DEF GoesOn
  <2> HIDE DEF D, P, nx
  <2> QED  BY <2>1, <2>2
<1>4. LastOn(i, k) = CHOOSE g : Is(g)
  BY Zenon DEF LastOn
<1>5. Is(LastOn(i, k))
  <2> HIDE DEF Is
  <2> QED  BY <1>3, <1>4
<1> HIDE DEF D
<1> QED  BY <1>5 DEF D

\* A node that the walk for k may be at, and one where it leaves level i.
Reached(n, k) == n = HeadNode \/ tsl[n].key < k

LeftAt(n, i, k) == n \in OnLevel(i) /\ Reached(n, k) /\ ~ Passes(tsl[n].forward[i], k)

LEMMA WalkLeavesLevel ==
  ASSUME ListShape(tsl, level), NEW i \in Nat, NEW k \in Nat,
         NEW n \in OnLevel(i), Reached(n, k)
  PROVE  LeftAt(LastOn(i, k)[n], i, k)
<1> DEFINE L == LastOn(i, k)
           Bad == {m \in OnLevel(i) : Reached(m, k) /\ ~ LeftAt(L[m], i, k)}
           After(m) == tsl[m].forward[i]
<1>1. SUFFICES ASSUME Bad # {} PROVE FALSE
  OBVIOUS
<1>2. ASSUME NEW m \in Bad
      PROVE  /\ After(m) \in Bad /\ Before(tsl, m, After(m)) /\ tsl[After(m)].key < k
             /\ After(m) # HeadNode
  <2>1. m \in OnLevel(i) /\ Reached(m, k) /\ ~ LeftAt(L[m], i, k)
    OBVIOUS
  <2>2. L[m] = IF Passes(After(m), k) THEN L[After(m)] ELSE m
    BY <2>1, LastOnEquation
  <2>3. Passes(After(m), k)
    BY <2>1, <2>2 DEF LeftAt
  <2>4. After(m) # Nullptr /\ tsl[After(m)].key < k
    BY <2>3 DEF Passes
  <2>5. m \in DOMAIN tsl /\ i \in DOMAIN tsl[m].forward
    BY <2>1 DEF OnLevel
  <2>6. After(m) \in OnLevel(i) /\ Before(tsl, m, After(m))
    BY <2>4, <2>5 DEF ListShape, LinksAscend, OnLevel
  <2>7. Reached(After(m), k)
    BY <2>4 DEF Reached
  <2>8. L[m] = L[After(m)]
    BY <2>2, <2>3
  <2>9. After(m) # HeadNode
    BY <2>6 DEF Before
  <2> HIDE DEF L
  <2> QED  BY <2>1, <2>4, <2>6, <2>7, <2>8, <2>9
<1> DEFINE Bad2 == {m \in Bad : m # HeadNode /\ tsl[m].key < k}
           Left == {k - tsl[m].key : m \in Bad2}
<1>3. ASSUME NEW m \in Bad PROVE m \in DOMAIN tsl /\ m \in Nat /\ tsl[m].key \in Nat
  <2>1. m \in DOMAIN tsl
    BY DEF OnLevel
  <2>2. m \in Nat
    BY <2>1, ListLength
  <2> HIDE DEF Bad
  <2> QED  BY <2>1, <2>2, NodeFacts
<1> HIDE DEF Bad
<1>4. PICK m0 \in Bad : TRUE
  BY <1>1
<1>5. After(m0) \in Bad2
  BY <1>2
<1>6. Left \in SUBSET Nat /\ Left # {}
  <2>1. ASSUME NEW m \in Bad2 PROVE k - tsl[m].key \in Nat
    <3>1. tsl[m].key \in Nat /\ tsl[m].key < k
      BY <1>3
    <3> QED  BY <3>1
  <2> HIDE DEF Bad2
  <2> QED  BY <1>5, <2>1
<1> HIDE DEF Left
<1>7. PICK c \in Left : \A d \in Left : c <= d
  BY <1>6, LeastOfNats
<1> DEFINE Latest == {m \in Bad2 : k - tsl[m].key = c}
<1>8. Latest \in SUBSET Nat /\ Latest # {}
  BY <1>3, <1>7 DEF Left
<1> HIDE DEF Latest
<1>9. PICK m \in Latest : \A d \in Latest : m <= d
  BY <1>8, LeastOfNats
<1>10. m \in Bad2 /\ m \in Bad /\ k - tsl[m].key = c /\ m # HeadNode
  BY <1>9 DEF Latest
<1>11. After(m) \in Bad2 /\ Before(tsl, m, After(m))
  BY <1>2, <1>10
<1>12. tsl[m].key < tsl[After(m)].key \/ (tsl[m].key = tsl[After(m)].key /\ m > After(m))
  BY <1>10, <1>11 DEF Before
<1>13. tsl[m].key \in Nat /\ tsl[After(m)].key \in Nat /\ m \in Nat /\ After(m) \in Nat
  BY <1>3, <1>10, <1>11
<1>14. CASE tsl[m].key < tsl[After(m)].key
  <2>1. k - tsl[After(m)].key \in Left
    BY <1>11 DEF Left
  <2>2. c <= k - tsl[After(m)].key
    BY <1>7, <2>1
  <2> DEFINE a == tsl[m].key  b == tsl[After(m)].key
  <2>3. a \in Nat /\ b \in Nat /\ a < b /\ k - a = c /\ c <= k - b
    BY <1>10, <1>13, <1>14, <2>2
  <2> HIDE DEF a, b
  <2> QED  BY <2>3
<1>15. CASE tsl[m].key = tsl[After(m)].key /\ m > After(m)
  <2>1. After(m) \in Latest
    BY <1>10, <1>11, <1>15 DEF Latest
  <2>2. m <= After(m)
    BY <1>9, <2>1
  <2> QED  BY <1>13, <1>15, <2>2
<1> QED  BY <1>12, <1>14, <1>15

LEMMA WalkLeaves ==
  ASSUME ListShape(tsl, level), NEW top \in 0 .. (MAX_LEVEL1 - 1), NEW k \in Nat
  PROVE  \A i \in 0 .. top : LeftAt(Walk(top, k)[i], i, k)
<1> DEFINE F == [i \in 0 .. top |-> LastOn(i, k)]
           Is(f) == f = [i \in 0 .. top |-> LastOn(i, k)[IF i = top THEN HeadNode ELSE f[i + 1]]]
           W == Walk(top, k)
<1>0. top \in Nat /\ top < MAX_LEVEL1
  BY SkiplistAssumption
<1>1. PICK f : LeadsDown(F, top, HeadNode, f)
  <2> HIDE DEF F
  <2> QED  BY <1>0, LeftExists, Zenon
<1>2. Is(f)
  <2>1. \A i \in 0 .. top : F[i] = LastOn(i, k)
    OBVIOUS
  <2> HIDE DEF F
  <2> QED  BY <1>1, <2>1 DEF LeadsDown
<1>3. W = CHOOSE g : Is(g)
  BY Zenon DEF Walk
<1>4. Is(W)
  <2> HIDE DEF Is, W
  <2> QED  BY <1>2, <1>3
<1> HIDE DEF W
<1>5. \A i \in 0 .. top : W[i] = LastOn(i, k)[IF i = top THEN HeadNode ELSE W[i + 1]]
  BY <1>4
<1> HIDE DEF Is
<1> DEFINE T == {j \in Nat : j <= top => LeftAt(W[top - j], top - j, k)}
<1>6. 0 \in T
  <2>1. top - 0 = top /\ top \in 0 .. top
    BY <1>0
  <2>2. HeadNode \in OnLevel(top)
    BY <1>0, NodeFacts DEF ListShape, OnLevel
  <2>3. Reached(HeadNode, k)
    BY DEF Reached
  <2>4. LeftAt(LastOn(top, k)[HeadNode], top, k)
    BY <1>0, <2>2, <2>3, WalkLeavesLevel
  <2>5. LeftAt(W[top], top, k)
    BY <1>5, <2>1, <2>4
  <2> QED  BY <2>1, <2>5
<1>7. ASSUME NEW j \in Nat, j \in T PROVE j + 1 \in T
  <2>1. SUFFICES ASSUME j + 1 <= top PROVE LeftAt(W[top - (j + 1)], top - (j + 1), k)
    OBVIOUS
  <2> DEFINE i == top - (j + 1)
  <2>2. i \in 0 .. top /\ i \in Nat /\ i # top /\ i + 1 = top - j /\ j <= top /\ i + 1 \in Nat
    BY <1>0, <2>1
  <2> HIDE DEF i
  <2>3. LeftAt(W[i + 1], i + 1, k)
    BY <1>7, <2>2
  <2> DEFINE n == W[i + 1]
  <2>4. n \in OnLevel(i + 1) /\ Reached(n, k)
    BY <2>3 DEF LeftAt
  <2>5. W[i] = LastOn(i, k)[n]
    BY <1>5, <2>2
  <2> HIDE DEF n
  <2>6. n \in OnLevel(i)
    <3>1. n \in DOMAIN tsl /\ i + 1 \in DOMAIN tsl[n].forward
      BY <2>4 DEF OnLevel
    <3>2. PICK h \in 1 .. MAX_LEVEL1 : tsl[n].forward \in [0 .. (h - 1) -> Nat]
      BY <3>1, NodeFacts
    <3>3. i + 1 \in 0 .. (h - 1)
      BY <3>1, <3>2
    <3>4. i \in 0 .. (h - 1)
      BY <2>2, <3>3, SkiplistAssumption
    <3> QED  BY <3>1, <3>2, <3>4 DEF OnLevel
  <2>7. LeftAt(LastOn(i, k)[n], i, k)
    BY <2>2, <2>4, <2>6, WalkLeavesLevel
  <2> QED  BY <2>5, <2>7 DEF i
<1> HIDE DEF T
<1>8. Nat \subseteq T
  BY <1>6, <1>7, NatSetInduction
<1>9. ASSUME NEW i \in 0 .. top PROVE LeftAt(W[i], i, k)
  <2>1. top - i \in Nat /\ top - i <= top /\ top - (top - i) = i
    BY <1>0
  <2>2. top - i \in T
    BY <1>8, <2>1
  <2> QED  BY <2>1, <2>2 DEF T
<1> QED  BY <1>9 DEF W

LEMMA ThroughOnce ==
  ASSUME NEW list, NEW top, ListShape(list, top), NEW s, Through(list, s)
  PROVE  \A a, b \in 1 .. (Len(list) - 1) : s[a] = s[b] => a = b
<1> DEFINE n == Len(list) - 1
<1>1. n \in Nat /\ Len(list) = n + 1
  BY ListLength
<1>2. \A a, b \in 1 .. n : a < b => s[a] # s[b]
  <2>1. SUFFICES ASSUME NEW a \in 1 .. n, NEW b \in 1 .. n, a < b, s[a] = s[b] PROVE FALSE
    OBVIOUS
  <2>2. Before(list, s[a], s[a])
    BY <2>1 DEF Through
  <2>3. s[a] \in 2 .. Len(list)
    BY DEF Through
  <2>4. s[a] # HeadNode /\ s[a] \in Nat /\ list[s[a]].key \in Nat
    BY <1>1, <2>3, NodeFacts DEF HeadNode
  <2> QED  BY <2>2, <2>4 DEF Before
<1>3. \A a, b \in 1 .. n : a < b \/ b < a \/ a = b
  BY <1>1
<1> HIDE DEF n
<1> QED  BY <1>2, <1>3 DEF n

\* Node u has all nodes below k up to it, and what it leads to is not below k.
LeftBottomAt(list, u, k) ==
  /\ u \in DOMAIN list
  /\ u = HeadNode \/ list[u].key < k
  /\ list[u].forward[0] # Nullptr => list[list[u].forward[0]].key >= k

\* u is the node in front of place p of the order s, where k belongs.
PlacedAt(list, s, u, k, p) ==
  /\ p \in 1 .. Len(list)
  /\ u = IF p = 1 THEN HeadNode ELSE s[p - 1]
  /\ \A q \in 1 .. (p - 1) : list[s[q]].key < k
  /\ p # Len(list) => list[s[p]].key >= k
  /\ list[u].forward[0] = IF p = Len(list) THEN Nullptr ELSE s[p]

LEMMA PlaceInOrder ==
  ASSUME NEW list, NEW top, ListShape(list, top), NEW s, Through(list, s),
         NEW k \in Nat, NEW u, LeftBottomAt(list, u, k)
  PROVE  \E p : PlacedAt(list, s, u, k, p)
<1> DEFINE n == Len(list) - 1
<1>1. n \in Nat /\ Len(list) = n + 1 /\ DOMAIN list = 1 .. Len(list)
  BY ListLength
<1>2. s \in [1 .. n -> 2 .. Len(list)]
  BY DEF Through
<1>3. \A q \in 1 .. n : list[s[q]].key \in Nat /\ s[q] # Nullptr /\ s[q] # HeadNode
  BY <1>1, <1>2, NodeFacts DEF Nullptr, HeadNode
<1>4. CASE u = HeadNode
  <2>1. list[u].forward[0] = IF n = 0 THEN Nullptr ELSE s[1]
    <3>1. list[HeadNode].forward[0] = IF Len(list) = 1 THEN Nullptr ELSE s[1]
      BY DEF Through
    <3>2. Len(list) = 1 <=> n = 0
      BY <1>1
    <3> HIDE DEF n
    <3> QED  BY <1>4, <3>1, <3>2
  <2>2. PlacedAt(list, s, u, k, 1)
    BY <1>1, <1>3, <1>4, <2>1 DEF PlacedAt, LeftBottomAt
  <2> QED  BY <2>2
<1>5. CASE u # HeadNode
  <2>1. u \in 2 .. Len(list) /\ list[u].key < k
    BY <1>1, <1>5 DEF LeftBottomAt, HeadNode
  <2>2. PICK q \in 1 .. n : s[q] = u
    BY <2>1 DEF Through
  <2>3. list[u].forward[0] = IF q = n THEN Nullptr ELSE s[q + 1]
    BY <2>2 DEF Through
  <2>4. ASSUME NEW r \in 1 .. q PROVE list[s[r]].key < k
    <3>1. CASE r = q
      BY <2>1, <2>2, <3>1
    <3>2. CASE r # q
      <4>1. r < q /\ r \in 1 .. n
        BY <1>1, <3>2
      <4>2. Before(list, s[r], s[q])
        BY <4>1 DEF Through
      <4>3. list[s[r]].key < list[s[q]].key \/ list[s[r]].key = list[s[q]].key
        BY <1>3, <4>1, <4>2 DEF Before
      <4>4. list[s[r]].key \in Nat /\ list[s[q]].key \in Nat /\ list[s[q]].key < k
        BY <1>3, <2>1, <2>2, <4>1
      <4> QED  BY <4>3, <4>4
    <3> QED  BY <3>1, <3>2
  <2>5. q + 1 # Len(list) => list[s[q + 1]].key >= k
    <3>1. SUFFICES ASSUME q + 1 # Len(list) PROVE list[s[q + 1]].key >= k
      OBVIOUS
    <3>2. q # n /\ q + 1 \in 1 .. n
      <4>1. q \in Nat /\ 1 <= q /\ q <= n
        BY <1>1
      <4> HIDE DEF n
      <4> QED  BY <1>1, <3>1, <4>1
    <3>3. s[q + 1] # Nullptr
      BY <1>3, <3>2
    <3> QED  BY <2>3, <3>2, <3>3 DEF LeftBottomAt
  <2>6. q + 1 \in 1 .. Len(list) /\ q + 1 # 1 /\ (q + 1) - 1 = q /\ (q = n <=> q + 1 = Len(list))
    BY <1>1
  <2> HIDE DEF n
  <2>7. PlacedAt(list, s, u, k, q + 1)
    BY <2>2, <2>3, <2>4, <2>5, <2>6 DEF PlacedAt
  <2> QED  BY <2>7
<1> QED  BY <1>4, <1>5

\* One more node of key k, behind u on the bottom level.
Spliced(list, more, u, k) ==
  /\ Len(more) = Len(list) + 1
  /\ \A n \in 1 .. Len(list) :
       /\ more[n].key = list[n].key
       /\ more[n].forward[0] = IF n = u THEN Len(list) + 1 ELSE list[n].forward[0]
  /\ more[Len(list) + 1].key = k
  /\ more[Len(list) + 1].forward[0] = list[u].forward[0]

OneMoreIn(list, s, p) ==
  [q \in 1 .. Len(list) |->
     IF q < p THEN s[q] ELSE IF q = p THEN Len(list) + 1 ELSE s[q - 1]]

LEMMA SpliceKeepsOrder ==
  ASSUME NEW list, NEW top, ListShape(list, top), NEW s, Through(list, s),
         NEW more, NEW u, NEW k \in Nat, Spliced(list, more, u, k),
         NEW p, PlacedAt(list, s, u, k, p)
  PROVE  Through(more, OneMoreIn(list, s, p))
<1> DEFINE n == Len(list) - 1
           r == OneMoreIn(list, s, p)
<1>1. n \in Nat /\ Len(list) = n + 1 /\ DOMAIN list = 1 .. (n + 1) /\ Len(more) = n + 2
  <2>1. Len(list) \in Nat \ {0} /\ DOMAIN list = 1 .. Len(list) /\ Len(more) = Len(list) + 1
    <3>1. Len(list) \in Nat \ {0} /\ DOMAIN list = 1 .. Len(list)
      BY ListLength, Zenon
    <3> QED  BY <3>1, Zenon DEF Spliced
  <2>2. n \in Nat /\ Len(list) = n + 1
    BY <2>1
  <2> HIDE DEF n
  <2> QED  BY <2>1, <2>2
<1>2. s \in [1 .. n -> 2 .. (n + 1)] /\ p \in 1 .. (n + 1)
  BY <1>1 DEF Through, PlacedAt
<1>3. /\ DOMAIN r = 1 .. (n + 1)
      /\ \A q \in 1 .. (n + 1) : r[q] = IF q < p THEN s[q] ELSE IF q = p THEN n + 2 ELSE s[q - 1]
  <2>1. Len(list) + 1 = n + 2
    BY <1>1
  <2> HIDE DEF n
  <2> QED  BY <1>1, <2>1, Zenon DEF OneMoreIn
<1> HIDE DEF r, n
<1>4. \A q \in 1 .. (n + 1) : /\ q < p => q \in 1 .. n
                              /\ q > p => q - 1 \in 1 .. n
  BY <1>1, <1>2
<1>5. r \in [1 .. (n + 1) -> 2 .. (n + 2)]
  <2>1. ASSUME NEW q \in 1 .. (n + 1) PROVE r[q] \in 2 .. (n + 2)
    <3>1. CASE q < p
      <4>1. s[q] \in 2 .. (n + 1)
        BY <1>2, <1>4, <3>1
      <4> QED  BY <1>1, <1>3, <3>1, <4>1
    <3>2. CASE q = p
      BY <1>1, <1>3, <3>2
    <3>3. CASE q > p
      <4>1. s[q - 1] \in 2 .. (n + 1)
        BY <1>2, <1>4, <3>3
      <4>2. r[q] = s[q - 1]
        BY <1>2, <1>3, <3>3
      <4> QED  BY <1>1, <4>1, <4>2
    <3> QED  BY <1>2, <3>1, <3>2, <3>3
  <2>2. r = [q \in 1 .. (n + 1) |-> r[q]]
    BY <1>1, <1>3 DEF r, OneMoreIn
  <2> QED  BY <2>1, <2>2
<1>6. ASSUME NEW m \in 2 .. (n + 2) PROVE \E q \in 1 .. (n + 1) : r[q] = m
  <2>1. CASE m = n + 2
    BY <1>2, <1>3, <2>1
  <2>2. CASE m # n + 2
    <3>1. m \in 2 .. Len(list)
      BY <1>1, <2>2
    <3>2. PICK q \in 1 .. n : s[q] = m
      BY <3>1 DEF Through, n
    <3>3. CASE q < p
      BY <1>1, <1>3, <3>2, <3>3
    <3>4. CASE ~ (q < p)
      <4>1. q + 1 \in 1 .. (n + 1) /\ ~ (q + 1 < p) /\ q + 1 # p /\ (q + 1) - 1 = q
        BY <1>1, <1>2, <3>4
      <4> QED  BY <1>3, <3>2, <4>1
    <3> QED  BY <3>3, <3>4
  <2> QED  BY <2>1, <2>2
<1>7. \A q \in 1 .. n : s[q] \in 1 .. Len(list) /\ s[q] # HeadNode /\ s[q] # Nullptr
                       /\ s[q] < n + 2 /\ s[q] \in Nat
  BY <1>1, <1>2 DEF HeadNode, Nullptr
<1>8. /\ \A m \in 1 .. Len(list) : more[m].key = list[m].key
      /\ more[n + 2].key = k
  BY <1>1 DEF Spliced
<1>9. /\ \A q \in 1 .. (p - 1) : list[s[q]].key < k
      /\ p # n + 1 => list[s[p]].key >= k
  BY <1>1 DEF PlacedAt
<1>10. \A q \in 1 .. n : list[s[q]].key \in Nat
  BY <1>7, NodeFacts
<1>11. \A a, b \in 1 .. n : a < b => Before(list, s[a], s[b])
  BY DEF Through, n
<1>12. ASSUME NEW a \in 1 .. n, NEW b \in 1 .. n, a < b PROVE Before(more, s[a], s[b])
  <2>1. Before(list, s[a], s[b])
    BY <1>11, <1>12
  <2> QED  BY <1>7, <1>8, <2>1 DEF Before
<1>13. ASSUME NEW a \in 1 .. n, a >= p PROVE list[s[a]].key >= k
  <2>1. p # n + 1 /\ p \in 1 .. n
    BY <1>1, <1>2, <1>13
  <2>2. CASE a = p
    BY <1>9, <2>1, <2>2
  <2>3. CASE a > p
    <3>1. Before(list, s[p], s[a])
      BY <1>11, <2>1, <2>3
    <3>2. list[s[p]].key < list[s[a]].key \/ list[s[p]].key = list[s[a]].key
      BY <1>7, <2>1, <3>1 DEF Before
    <3>3. list[s[p]].key \in Nat /\ list[s[a]].key \in Nat /\ list[s[p]].key >= k
      BY <1>9, <1>10, <2>1
    <3> QED  BY <3>2, <3>3
  <2> QED  BY <1>1, <1>2, <1>13, <2>2, <2>3
<1>14. ASSUME NEW a \in 1 .. (n + 1), NEW b \in 1 .. (n + 1), a < b
       PROVE  Before(more, r[a], r[b])
  <2>0. a \in Nat /\ b \in Nat /\ p \in Nat
    BY <1>1, <1>2
  <2>1. CASE b < p
    <3>1. a < p /\ a \in 1 .. n /\ b \in 1 .. n /\ r[a] = s[a] /\ r[b] = s[b]
      BY <1>3, <1>4, <1>14, <2>0, <2>1
    <3> QED  BY <1>12, <1>14, <3>1
  <2>2. CASE b = p
    <3>1. a < p /\ a \in 1 .. n /\ r[a] = s[a] /\ r[b] = n + 2 /\ a \in 1 .. (p - 1)
      BY <1>3, <1>4, <1>14, <2>0, <2>2
    <3>2. more[s[a]].key < more[n + 2].key
      BY <1>7, <1>8, <1>9, <3>1
    <3>3. n + 2 # HeadNode
      BY <1>1 DEF HeadNode
    <3> QED  BY <3>1, <3>2, <3>3 DEF Before
  <2>3. CASE b > p /\ a = p
    <3>1. b - 1 \in 1 .. n /\ r[a] = n + 2 /\ r[b] = s[b - 1] /\ b - 1 >= p
      BY <1>3, <1>4, <2>0, <2>3
    <3>2. list[s[b - 1]].key >= k /\ list[s[b - 1]].key \in Nat
      BY <1>10, <1>13, <3>1
    <3>3. more[s[b - 1]].key = list[s[b - 1]].key /\ more[n + 2].key = k
      BY <1>7, <1>8, <3>1
    <3>4. more[n + 2].key < more[s[b - 1]].key \/ more[n + 2].key = more[s[b - 1]].key
      BY <3>2, <3>3
    <3>5. s[b - 1] # HeadNode /\ n + 2 > s[b - 1]
      BY <1>1, <1>7, <3>1
    <3> QED  BY <3>1, <3>4, <3>5 DEF Before
  <2>4. CASE b > p /\ a < p
    <3>1. a \in 1 .. n /\ b - 1 \in 1 .. n /\ r[a] = s[a] /\ r[b] = s[b - 1] /\ a < b - 1
      BY <1>3, <1>4, <2>0, <2>4
    <3> QED  BY <1>12, <3>1
  <2>5. CASE b > p /\ a > p
    <3>1. a - 1 \in 1 .. n /\ b - 1 \in 1 .. n /\ r[a] = s[a - 1] /\ r[b] = s[b - 1] /\ a - 1 < b - 1
      BY <1>3, <1>4, <1>14, <2>0, <2>5
    <3> QED  BY <1>12, <3>1
  <2> QED  BY <2>0, <2>1, <2>2, <2>3, <2>4, <2>5
<1>15. /\ u = IF p = 1 THEN HeadNode ELSE s[p - 1]
       /\ list[u].forward[0] = IF p = n + 1 THEN Nullptr ELSE s[p]
  BY <1>1 DEF PlacedAt
<1>16. /\ \A m \in 1 .. (n + 1) :
            more[m].forward[0] = IF m = u THEN n + 2 ELSE list[m].forward[0]
       /\ more[n + 2].forward[0] = list[u].forward[0]
  BY <1>1 DEF Spliced
<1>17. more[HeadNode].forward[0] = r[1]
  <2>0. HeadNode \in 1 .. (n + 1) /\ 1 \in 1 .. (n + 1)
    BY <1>1 DEF HeadNode
  <2>1. CASE p = 1
    <3>1. r[1] = n + 2
      BY <1>3, <2>0, <2>1
    <3> QED  BY <1>15, <1>16, <2>0, <2>1, <3>1
  <2>2. CASE p # 1
    <3>1. 1 < p /\ p - 1 \in 1 .. n /\ n # 0
      BY <1>1, <1>2, <2>2
    <3>2. r[1] = s[1] /\ u # HeadNode
      BY <1>3, <1>7, <1>15, <2>0, <2>2, <3>1
    <3>3. list[HeadNode].forward[0] = s[1]
      BY <1>1, <3>1 DEF Through
    <3> QED  BY <1>16, <2>0, <3>2, <3>3
  <2> QED  BY <2>1, <2>2
<1>18. \A a, b \in 1 .. n : s[a] = s[b] => a = b
  BY ThroughOnce DEF n
<1>19. \A q \in 1 .. n : list[s[q]].forward[0] = IF q = n THEN Nullptr ELSE s[q + 1]
  BY DEF Through, n
<1>20. ASSUME NEW q \in 1 .. (n + 1)
       PROVE  more[r[q]].forward[0] = IF q = n + 1 THEN Nullptr ELSE r[q + 1]
  <2>0. q \in Nat /\ p \in Nat
    BY <1>1, <1>2
  <2>1. CASE q < p
    <3>1. q \in 1 .. n /\ r[q] = s[q] /\ q # n + 1 /\ q + 1 \in 1 .. (n + 1)
      BY <1>1, <1>2, <1>3, <1>4, <2>1
    <3>2. s[q] \in 1 .. (n + 1)
      BY <1>1, <1>7, <3>1
    <3>3. CASE q + 1 = p
      <4>1. r[q + 1] = n + 2
        BY <1>3, <3>1, <3>3
      <4>2. u = s[q]
        <5>1. p # 1 /\ p - 1 = q
          BY <2>0, <3>1, <3>3
        <5> QED  BY <1>15, <5>1
      <4> QED  BY <1>16, <3>1, <3>2, <4>1, <4>2
    <3>4. CASE q + 1 # p
      <4>1. q + 1 < p /\ r[q + 1] = s[q + 1] /\ q # n
        BY <1>2, <1>3, <2>0, <2>1, <3>1, <3>4
      <4>2. u # s[q]
        <5>1. p # 1 /\ p - 1 \in 1 .. n /\ p - 1 # q
          BY <1>1, <1>2, <2>0, <3>1, <4>1
        <5>2. u = s[p - 1]
          BY <1>15, <5>1
        <5> QED  BY <1>18, <3>1, <5>1, <5>2
      <4> QED  BY <1>16, <1>19, <3>1, <3>2, <4>1, <4>2
    <3> QED  BY <3>3, <3>4
  <2>2. CASE q = p
    <3>1. r[q] = n + 2
      BY <1>3, <2>2
    <3>2. more[r[q]].forward[0] = IF p = n + 1 THEN Nullptr ELSE s[p]
      BY <1>15, <1>16, <3>1
    <3>3. p # n + 1 => r[q + 1] = s[p]
      <4>1. SUFFICES ASSUME p # n + 1 PROVE r[q + 1] = s[p]
        OBVIOUS
      <4>2. q + 1 \in 1 .. (n + 1) /\ ~ (q + 1 < p) /\ q + 1 # p /\ (q + 1) - 1 = p
        BY <1>1, <2>0, <2>2, <4>1
      <4> QED  BY <1>3, <4>2
    <3> QED  BY <2>2, <3>2, <3>3
  <2>3. CASE q > p
    <3>1. q - 1 \in 1 .. n /\ r[q] = s[q - 1] /\ (q = n + 1 <=> q - 1 = n) /\ (q - 1) + 1 = q
      BY <1>1, <1>3, <1>4, <2>0, <2>3
    <3>2. s[q - 1] \in 1 .. (n + 1) /\ s[q - 1] # HeadNode
      BY <1>1, <1>7, <3>1
    <3>3. u # s[q - 1]
      <4>1. CASE p = 1
        BY <1>15, <3>2, <4>1
      <4>2. CASE p # 1
        <5>1. p - 1 \in 1 .. n /\ p - 1 # q - 1 /\ u = s[p - 1]
          BY <1>1, <1>2, <1>15, <2>0, <2>3, <4>2
        <5> QED  BY <1>18, <3>1, <5>1
      <4> QED  BY <4>1, <4>2
    <3>4. more[r[q]].forward[0] = IF q = n + 1 THEN Nullptr ELSE s[q]
      BY <1>16, <1>19, <3>1, <3>2, <3>3
    <3>5. q # n + 1 => r[q + 1] = s[q]
      <4>1. SUFFICES ASSUME q # n + 1 PROVE r[q + 1] = s[q]
        OBVIOUS
      <4>2. q + 1 \in 1 .. (n + 1) /\ ~ (q + 1 < p) /\ q + 1 # p /\ (q + 1) - 1 = q
        BY <1>1, <2>0, <2>3, <4>1
      <4> QED  BY <1>3, <4>2
    <3> QED  BY <3>4, <3>5
  <2> QED  BY <2>0, <2>1, <2>2, <2>3
<1>21. Len(more) - 1 = n + 1 /\ Len(more) = n + 2 /\ Len(more) # 1
  BY <1>1
<1>22. Through(more, r)
  BY <1>5, <1>6, <1>14, <1>17, <1>20, <1>21 DEF Through
<1> QED  BY <1>22 DEF r

-----------------------------------------------------------------------------
(* The chain along the bottom level.                                       *)

Item == [key : Nat, no : Nat]

ItemOf(list, n) == [key |-> list[n].key, no |-> n - 1]

Items(list, s) == [q \in 1 .. (Len(list) - 1) |-> ItemOf(list, s[q])]

\* The items from place p on.
Rest(list, s, p) == [j \in 1 .. (Len(list) - p) |-> ItemOf(list, s[p + j - 1])]

FromIs(list, g) ==
  g = [n \in 0 .. Len(list) |->
         IF n = Nullptr THEN << >> ELSE << ItemOf(list, n) >> \o g[list[n].forward[0]]]

LEMMA RestOfItems ==
  ASSUME NEW list, NEW top, ListShape(list, top), NEW s, Through(list, s)
  PROVE  /\ Rest(list, s, Len(list)) = << >>
         /\ Rest(list, s, 1) = Items(list, s)
         /\ Items(list, s) \in Seq(Item) /\ Len(Items(list, s)) = Len(list) - 1
         /\ \A p \in 1 .. (Len(list) - 1) :
              Rest(list, s, p) = << ItemOf(list, s[p]) >> \o Rest(list, s, p + 1)
<1> DEFINE n == Len(list) - 1
<1>1. n \in Nat /\ Len(list) = n + 1 /\ DOMAIN list = 1 .. (n + 1)
  <2>1. Len(list) \in Nat \ {0} /\ DOMAIN list = 1 .. Len(list)
    BY ListLength, Zenon
  <2>2. n \in Nat /\ Len(list) = n + 1
    BY <2>1
  <2> HIDE DEF n
  <2> QED  BY <2>1, <2>2
<1>2. \A q \in 1 .. n : s[q] \in 2 .. (n + 1)
  BY <1>1 DEF Through
<1>3. ASSUME NEW q \in 1 .. n PROVE ItemOf(list, s[q]) \in Item
  <2>1. s[q] \in 1 .. (n + 1) /\ s[q] - 1 \in Nat
    BY <1>1, <1>2
  <2>2. list[s[q]].key \in Nat
    BY <1>1, <2>1, NodeFacts
  <2> QED  BY <2>1, <2>2 DEF ItemOf, Item
<1> HIDE DEF n
<1> DEFINE R(p) == Rest(list, s, p)
<1>4. ASSUME NEW p \in 1 .. (n + 1)
      PROVE  /\ R(p) \in Seq(Item) /\ Len(R(p)) = n + 1 - p
             /\ \A j \in 1 .. (n + 1 - p) : R(p)[j] = ItemOf(list, s[p + j - 1])
  <2>1. n + 1 - p \in Nat /\ R(p) = [j \in 1 .. (n + 1 - p) |-> ItemOf(list, s[p + j - 1])]
    BY <1>1 DEF Rest
  <2>2. \A j \in 1 .. (n + 1 - p) : p + j - 1 \in 1 .. n
    BY <1>1
  <2>3. \A j \in 1 .. (n + 1 - p) : ItemOf(list, s[p + j - 1]) \in Item
    BY <1>3, <2>2
  <2> HIDE DEF R
  <2> QED  BY <2>1, <2>3, IsASeq
<1>5. R(n + 1) = << >>
  <2>1. R(n + 1) \in Seq(Item) /\ Len(R(n + 1)) = 0
    BY <1>1, <1>4
  <2> QED  BY <2>1
<1>6. R(1) = Items(list, s)
  <2>1. \A j \in 1 .. n : s[1 + j - 1] = s[j]
    BY <1>1
  <2>2. Len(list) - 1 = n
    BY <1>1
  <2> QED  BY <2>1, <2>2 DEF Rest, Items
<1>7. ASSUME NEW p \in 1 .. n PROVE R(p) = << ItemOf(list, s[p]) >> \o R(p + 1)
  <2> DEFINE a == << ItemOf(list, s[p]) >>
             b == R(p + 1)
  <2>1. a \in Seq(Item) /\ Len(a) = 1 /\ a[1] = ItemOf(list, s[p])
    BY <1>3
  <2>2. p + 1 \in 1 .. (n + 1) /\ p \in 1 .. (n + 1) /\ n + 1 - (p + 1) = n - p /\ n - p \in Nat
    BY <1>1
  <2>3. /\ b \in Seq(Item) /\ Len(b) = n - p
        /\ \A j \in 1 .. (n - p) : b[j] = ItemOf(list, s[(p + 1) + j - 1])
    BY <1>4, <2>2
  <2> HIDE DEF a, b, R
  <2>4. /\ a \o b \in Seq(Item) /\ Len(a \o b) = 1 + (n - p)
        /\ \A j \in 1 .. (1 + (n - p)) : (a \o b)[j] = IF j <= 1 THEN a[j] ELSE b[j - 1]
    <3>1. /\ a \o b \in Seq(Item) /\ Len(a \o b) = Len(a) + Len(b)
          /\ \A j \in 1 .. (Len(a) + Len(b)) :
               (a \o b)[j] = IF j <= Len(a) THEN a[j] ELSE b[j - Len(a)]
      BY <2>1, <2>3, ConcatProperties
    <3> QED  BY <2>1, <2>3, <3>1
  <2>5. ASSUME NEW j \in 1 .. (n + 1 - p) PROVE (a \o b)[j] = R(p)[j]
    <3>0. R(p)[j] = ItemOf(list, s[p + j - 1])
      BY <1>4, <2>2
    <3>1. CASE j = 1
      <4>1. p + j - 1 = p /\ j \in 1 .. (1 + (n - p))
        BY <1>1, <2>2, <3>1
      <4> QED  BY <2>1, <2>4, <3>0, <3>1, <4>1
    <3>2. CASE j # 1
      <4>1. j - 1 \in 1 .. (n - p) /\ (p + 1) + (j - 1) - 1 = p + j - 1 /\ ~ (j <= 1)
            /\ j \in 1 .. (1 + (n - p))
        BY <1>1, <3>2
      <4> QED  BY <2>3, <2>4, <3>0, <4>1
    <3> QED  BY <3>1, <3>2
  <2>6. R(p) \in Seq(Item) /\ Len(R(p)) = 1 + (n - p) /\ 1 + (n - p) = n + 1 - p
    <3>1. R(p) \in Seq(Item) /\ Len(R(p)) = n + 1 - p
      BY <1>4, <2>2
    <3>2. 1 + (n - p) = n + 1 - p
      BY <1>1
    <3> QED  BY <3>1, <3>2
  <2>7. \A j \in 1 .. Len(a \o b) : (a \o b)[j] = R(p)[j]
    BY <2>4, <2>5, <2>6
  <2>8. a \o b = R(p)
    BY <2>4, <2>6, <2>7, SeqEqual
  <2> QED  BY <2>8 DEF a, b
<1>8. Items(list, s) \in Seq(Item) /\ Len(Items(list, s)) = n
  <2>1. 1 \in 1 .. (n + 1) /\ n + 1 - 1 = n
    BY <1>1
  <2>2. R(1) \in Seq(Item) /\ Len(R(1)) = n
    BY <1>4, <2>1
  <2> QED  BY <1>6, <2>2
<1> HIDE DEF R
<1> QED  BY <1>1, <1>5, <1>6, <1>7, <1>8 DEF n, R

\* What the recursive definition of Bottom has as its value.
LEMMA BottomIsItems ==
  ASSUME NEW list, NEW top, ListShape(list, top), NEW s, Through(list, s),
         NEW u, u = CHOOSE g : FromIs(list, g)
  PROVE  u[list[HeadNode].forward[0]] = Items(list, s)
<1> DEFINE n == Len(list) - 1
           R(p) == Rest(list, s, p)
           PlaceIn(m) == CHOOSE q \in 1 .. n : s[q] = m
           g == [m \in 0 .. Len(list) |->
                   IF m = Nullptr THEN << >>
                   ELSE IF m = HeadNode THEN << ItemOf(list, HeadNode) >> \o R(1)
                   ELSE R(PlaceIn(m))]
<1>1. n \in Nat /\ Len(list) = n + 1 /\ Len(list) - 1 = n
  BY ListLength
<1>2. /\ R(n + 1) = << >>
      /\ R(1) = Items(list, s)
      /\ \A p \in 1 .. n : R(p) = << ItemOf(list, s[p]) >> \o R(p + 1)
  BY <1>1, RestOfItems
<1>3. \A q \in 1 .. n : s[q] \in 2 .. (n + 1) /\ s[q] # Nullptr /\ s[q] # HeadNode
  <2>1. \A q \in 1 .. n : s[q] \in 2 .. Len(list)
    BY DEF Through
  <2> HIDE DEF n
  <2> QED  BY <1>1, <2>1 DEF Nullptr, HeadNode
<1>4. \A q \in 1 .. n : PlaceIn(s[q]) = q
  BY <1>1, ThroughOnce
<1>5. /\ list[HeadNode].forward[0] = IF n = 0 THEN Nullptr ELSE s[1]
      /\ \A p \in 1 .. n : list[s[p]].forward[0] = IF p = n THEN Nullptr ELSE s[p + 1]
  <2>1. Len(list) = 1 <=> n = 0
    BY <1>1
  <2> HIDE DEF n
  <2> QED  BY <1>1, <2>1 DEF Through
<1>6. \A m \in 2 .. (n + 1) : \E q \in 1 .. n : s[q] = m
  BY <1>1 DEF Through
<1> HIDE DEF PlaceIn, R, n
<1>7. /\ g[Nullptr] = << >>
      /\ g[HeadNode] = << ItemOf(list, HeadNode) >> \o R(1)
      /\ \A q \in 1 .. n : g[s[q]] = R(q)
  <2>1. Nullptr \in 0 .. Len(list) /\ HeadNode \in 0 .. Len(list) /\ HeadNode # Nullptr
    BY <1>1 DEF Nullptr, HeadNode
  <2>2. \A q \in 1 .. n : s[q] \in 0 .. Len(list)
    BY <1>1, <1>3
  <2> QED  BY <1>3, <1>4, <2>1, <2>2
<1>8. g = [m \in 0 .. Len(list) |-> g[m]]
  OBVIOUS
<1> HIDE DEF g
<1>9. ASSUME NEW m \in 0 .. Len(list)
      PROVE  g[m] = IF m = Nullptr THEN << >> ELSE << ItemOf(list, m) >> \o g[list[m].forward[0]]
  <2>1. CASE m = Nullptr
    BY <1>7, <2>1
  <2>2. CASE m = HeadNode
    <3>1. m # Nullptr
      BY <2>2 DEF HeadNode, Nullptr
    <3>2. CASE n = 0
      <4>1. R(1) = << >>
        BY <1>2, <3>2
      <4> QED  BY <1>5, <1>7, <2>2, <3>1, <3>2, <4>1
    <3>3. CASE n # 0
      <4>1. 1 \in 1 .. n
        BY <1>1, <3>3
      <4> QED  BY <1>5, <1>7, <2>2, <3>1, <3>3, <4>1
    <3> QED  BY <3>2, <3>3
  <2>3. CASE m # Nullptr /\ m # HeadNode
    <3>1. m \in 2 .. (n + 1)
      BY <1>1, <2>3 DEF Nullptr, HeadNode
    <3>2. PICK q \in 1 .. n : s[q] = m
      BY <1>6, <3>1
    <3>3. g[m] = << ItemOf(list, m) >> \o R(q + 1)
      BY <1>2, <1>7, <3>2
    <3>4. CASE q = n
      <4>1. R(q + 1) = << >> /\ list[m].forward[0] = Nullptr
        BY <1>2, <1>5, <3>2, <3>4
      <4> QED  BY <1>7, <2>3, <3>3, <4>1
    <3>5. CASE q # n
      <4>1. q + 1 \in 1 .. n /\ list[m].forward[0] = s[q + 1]
        BY <1>1, <1>5, <3>2, <3>5
      <4> QED  BY <1>7, <2>3, <3>3, <4>1
    <3> QED  BY <3>4, <3>5
  <2> QED  BY <2>1, <2>2, <2>3
<1>10. FromIs(list, g)
  BY <1>8, <1>9, Zenon DEF FromIs
<1>11. FromIs(list, u)
  BY <1>10
<1>12. /\ u[Nullptr] = << >>
       /\ \A q \in 1 .. n : u[s[q]] = << ItemOf(list, s[q]) >> \o u[list[s[q]].forward[0]]
  <2>1. \A m \in 0 .. Len(list) :
          u[m] = IF m = Nullptr THEN << >> ELSE << ItemOf(list, m) >> \o u[list[m].forward[0]]
    BY <1>11, Zenon DEF FromIs
  <2>2. Nullptr \in 0 .. Len(list) /\ \A q \in 1 .. n : s[q] \in 0 .. Len(list)
    BY <1>1, <1>3 DEF Nullptr
  <2> QED  BY <1>3, <2>1, <2>2
<1> DEFINE T == {j \in Nat : j < n => u[s[n - j]] = R(n - j)}
<1>13. 0 \in T
  <2>1. SUFFICES ASSUME 0 < n PROVE u[s[n]] = R(n)
    BY <1>1
  <2>2. n \in 1 .. n
    BY <1>1, <2>1
  <2> QED  BY <1>2, <1>5, <1>12, <2>2
<1>14. ASSUME NEW j \in Nat, j \in T PROVE j + 1 \in T
  <2>1. SUFFICES ASSUME j + 1 < n PROVE u[s[n - (j + 1)]] = R(n - (j + 1))
    OBVIOUS
  <2> DEFINE q == n - (j + 1)
  <2>2. q \in 1 .. n /\ q # n /\ q + 1 = n - j /\ j < n
    BY <1>1, <2>1
  <2>3. u[s[n - j]] = R(n - j)
    BY <1>14, <2>2
  <2> HIDE DEF q
  <2>4. u[s[q]] = << ItemOf(list, s[q]) >> \o u[s[q + 1]]
    BY <1>5, <1>12, <2>2
  <2>5. u[s[q]] = R(q)
    BY <1>2, <2>2, <2>3, <2>4
  <2> QED  BY <2>5 DEF q
<1> HIDE DEF T
<1>15. Nat \subseteq T
  BY <1>13, <1>14, NatSetInduction
<1>16. CASE n = 0
  BY <1>2, <1>5, <1>12, <1>16
<1>17. CASE n # 0
  <2>1. n - 1 \in Nat /\ n - 1 < n /\ n - (n - 1) = 1
    BY <1>1, <1>17
  <2>2. n - 1 \in T
    BY <1>15, <2>1
  <2>3. u[s[1]] = R(1)
    BY <2>1, <2>2 DEF T
  <2> QED  BY <1>2, <1>5, <1>17, <2>3
<1> QED  BY <1>16, <1>17

-----------------------------------------------------------------------------
(* Searching and inserting.                                                *)

LEMMA BottomNow ==
  ASSUME ListShape(tsl, level), NEW s, Through(tsl, s)
  PROVE  Bottom = Items(tsl, s)
<1> DEFINE u == CHOOSE g : FromIs(tsl, g)
<1>1. Bottom = u[tsl[HeadNode].forward[0]]
  BY Zenon DEF Bottom, FromIs, ItemOf
<1> HIDE DEF u
<1>2. u = CHOOSE g : FromIs(tsl, g)
  BY DEF u
<1> QED  BY <1>1, <1>2, BottomIsItems

LEMMA BottomNext ==
  ASSUME ListShape(tsl', level'), NEW s, Through(tsl', s)
  PROVE  Bottom' = Items(tsl', s)
<1> DEFINE v == CHOOSE g : FromIs(tsl', g)
<1>1. Bottom' = v[tsl'[HeadNode].forward[0]]
  BY Zenon DEF Bottom, FromIs, ItemOf
<1> HIDE DEF v
<1>2. v = CHOOSE g : FromIs(tsl', g)
  BY DEF v
<1>3. PICK list : list = tsl'
  OBVIOUS
<1>4. PICK top : top = level'
  OBVIOUS
<1> QED  BY <1>1, <1>2, <1>3, <1>4, BottomIsItems

\* The item of node n.
LEMMA ChainPlace ==
  ASSUME ListShape(tsl, level), NEW s, Through(tsl, s), NEW k \in Nat,
         NEW u, NEW p, PlacedAt(tsl, s, u, k, p)
  PROVE  /\ Bottom \in Seq(Item) /\ Len(Bottom) = Len(tsl) - 1
         /\ DOMAIN Bottom = 1 .. (Len(tsl) - 1)
         /\ \A q \in 1 .. (Len(tsl) - 1) : Bottom[q] = ItemOf(tsl, s[q])
         /\ Chain!PlaceOf(k) = p
<1> DEFINE n == Len(tsl) - 1
           B == Bottom
<1>1. n \in Nat /\ Len(tsl) = n + 1 /\ Len(tsl) - 1 = n
  BY ListLength
<1>2. B = Items(tsl, s) /\ B \in Seq(Item) /\ Len(B) = n
  BY BottomNow, RestOfItems
<1>3. DOMAIN B = 1 .. n /\ \A q \in 1 .. n : B[q] = ItemOf(tsl, s[q])
  BY <1>1, <1>2, Zenon DEF Items
<1>4. \A q \in 1 .. n : B[q].key = tsl[s[q]].key /\ tsl[s[q]].key \in Nat
  <2>1. ASSUME NEW q \in 1 .. n PROVE tsl[s[q]].key \in Nat
    <3>1. s[q] \in 2 .. Len(tsl)
      BY DEF Through
    <3>2. s[q] \in DOMAIN tsl
      BY <1>1, <3>1, NodeFacts
    <3> QED  BY <3>2, NodeFacts
  <2>2. ASSUME NEW q \in 1 .. n PROVE B[q].key = tsl[s[q]].key
    <3>1. B[q] = ItemOf(tsl, s[q])
      BY <1>3, Zenon
    <3> HIDE DEF B
    <3> QED  BY <3>1 DEF ItemOf
  <2> QED  BY <2>1, <2>2, Zenon
<1>5. /\ p \in 1 .. (n + 1)
      /\ \A q \in 1 .. (p - 1) : tsl[s[q]].key < k
      /\ p # n + 1 => tsl[s[p]].key >= k
  <2>1. Len(tsl) = n + 1
    BY <1>1
  <2> HIDE DEF n
  <2> QED  BY <2>1, Zenon DEF PlacedAt
<1> HIDE DEF n
<1> DEFINE Fits(i) == /\ \A j \in 1 .. (i - 1) : B[j].key < k
                      /\ i \in DOMAIN B => B[i].key >= k
<1>6. Chain!PlaceOf(k) = CHOOSE i \in 1 .. (n + 1) : Fits(i)
  BY <1>2, Zenon DEF Chain!PlaceOf
<1>7. Fits(p)
  <2>1. ASSUME NEW j \in 1 .. (p - 1) PROVE B[j].key < k
    <3>1. j \in 1 .. n
      BY <1>1, <1>5
    <3> QED  BY <1>4, <1>5, <3>1
  <2>2. ASSUME p \in DOMAIN B PROVE B[p].key >= k
    <3>1. p \in 1 .. n /\ p # n + 1
      BY <1>1, <1>3, <2>2
    <3> QED  BY <1>4, <1>5, <3>1
  <2> QED  BY <2>1, <2>2
<1>8. ASSUME NEW i \in 1 .. (n + 1), Fits(i) PROVE i = p
  <2>1. \A a, b \in 1 .. (n + 1) : a < b => a \in 1 .. n /\ a \in 1 .. (b - 1)
    BY <1>1
  <2>2. ~ (i < p)
    <3>1. SUFFICES ASSUME i < p PROVE FALSE
      OBVIOUS
    <3>2. i \in 1 .. n /\ i \in 1 .. (p - 1)
      BY <1>5, <2>1, <3>1
    <3>3. B[i].key >= k /\ B[i].key < k /\ B[i].key \in Nat
      BY <1>3, <1>4, <1>7, <1>8, <3>2
    <3> QED  BY <3>3
  <2>3. ~ (p < i)
    <3>1. SUFFICES ASSUME p < i PROVE FALSE
      OBVIOUS
    <3>2. p \in 1 .. n /\ p \in 1 .. (i - 1)
      BY <1>5, <2>1, <3>1
    <3>3. B[p].key >= k /\ B[p].key < k /\ B[p].key \in Nat
      BY <1>3, <1>4, <1>7, <1>8, <3>2
    <3> QED  BY <3>3
  <2> QED  BY <1>1, <1>5, <2>2, <2>3
<1>9. Chain!PlaceOf(k) = p
  <2> HIDE DEF Fits
  <2> QED  BY <1>5, <1>6, <1>7, <1>8
<1> QED  BY <1>2, <1>3, <1>9 DEF n

LEMMA LeftBottom ==
  ASSUME ListShape(tsl, level), NEW k \in Nat, NEW u, LeftAt(u, 0, k)
  PROVE  LeftBottomAt(tsl, u, k)
<1>1. u \in DOMAIN tsl /\ 0 \in DOMAIN tsl[u].forward /\ ~ Passes(tsl[u].forward[0], k)
  BY DEF LeftAt, OnLevel
<1>2. u = HeadNode \/ tsl[u].key < k
  BY DEF LeftAt, Reached
<1> DEFINE next == tsl[u].forward[0]
<1>3. ASSUME next # Nullptr PROVE tsl[next].key >= k
  <2>1. next \in DOMAIN tsl
    BY <1>1, <1>3 DEF ListShape, LinksAscend
  <2>2. tsl[next].key \in Nat /\ ~ (tsl[next].key < k)
    BY <1>1, <1>3, <2>1, NodeFacts DEF Passes
  <2> QED  BY <2>2
<1> QED  BY <1>1, <1>2, <1>3 DEF LeftBottomAt

\* Levels that are not in use are left at the head.
LEMMA HeadIsLeft ==
  ASSUME ListShape(tsl, level), NEW i \in level .. (MAX_LEVEL1 - 1), NEW k \in Nat
  PROVE  LeftAt(HeadNode, i, k)
<1>1. i \in 0 .. (MAX_LEVEL1 - 1)
  BY SkiplistAssumption DEF ListShape
<1>2. HeadNode \in OnLevel(i)
  BY <1>1, NodeFacts DEF ListShape, OnLevel
<1>3. ~ Passes(tsl[HeadNode].forward[i], k)
  BY DEF ListShape, Passes
<1> QED  BY <1>2, <1>3 DEF LeftAt, Reached

LEMMA LinkFacts ==
  ASSUME ListShape(tsl, level), NEW k \in Nat, NEW v \in 1 .. MAX_LEVEL1,
         NEW update, \A i \in 0 .. (v - 1) : LeftAt(update[i], i, k),
         NEW more, more = Link(k, v, update)
  PROVE  /\ more \in Seq(ListNode) /\ Len(more) = Len(tsl) + 1
         /\ \A n \in 1 .. Len(tsl) :
              /\ more[n].key = tsl[n].key
              /\ DOMAIN more[n].forward = DOMAIN tsl[n].forward
              /\ \A i \in DOMAIN tsl[n].forward : more[n].forward[i] =
                   IF i < v /\ update[i] = n THEN Len(tsl) + 1 ELSE tsl[n].forward[i]
         /\ more[Len(tsl) + 1].key = k
         /\ DOMAIN more[Len(tsl) + 1].forward = 0 .. (v - 1)
         /\ \A i \in 0 .. (v - 1) :
              more[Len(tsl) + 1].forward[i] = tsl[update[i]].forward[i]
<1> DEFINE len == Len(tsl)
           Fwd(n) == [i \in DOMAIN tsl[n].forward |->
                        IF i < v /\ update[i] = n THEN len + 1 ELSE tsl[n].forward[i]]
           linked == [n \in DOMAIN tsl |-> [tsl[n] EXCEPT !.forward = Fwd(n)]]
           fwd == [i \in 0 .. (v - 1) |-> tsl[update[i]].forward[i]]
           last == [key |-> k, forward |-> fwd]
<1>1. len \in Nat \ {0} /\ DOMAIN tsl = 1 .. len
  BY ListLength
<1>2. more = Append(linked, last)
  BY DEF Link
<1>3. ASSUME NEW n \in 1 .. len
      PROVE  linked[n] = [key |-> tsl[n].key, forward |-> Fwd(n)] /\ linked[n] \in ListNode
  <2>1. tsl[n] \in ListNode
    BY <1>1 DEF ListShape
  <2>2. PICK h \in 1 .. MAX_LEVEL1 : tsl[n].forward \in [0 .. (h - 1) -> Nat]
    BY <1>1, NodeFacts
  <2>3. Fwd(n) \in [0 .. (h - 1) -> Nat]
    BY <1>1, <2>2
  <2>4. Fwd(n) \in UNION {[0 .. (g - 1) -> Nat] : g \in 1 .. MAX_LEVEL1}
    <3> HIDE DEF Fwd
    <3> QED  BY <2>3
  <2> HIDE DEF Fwd, len
  <2>5. linked[n] = [tsl[n] EXCEPT !.forward = Fwd(n)]
    BY <1>1
  <2>6. tsl[n] = [key |-> tsl[n].key, forward |-> tsl[n].forward] /\ tsl[n].key \in Nat
    BY <2>1 DEF ListNode
  <2>7. linked[n] = [key |-> tsl[n].key, forward |-> Fwd(n)]
    BY <2>5, <2>6
  <2>8. PICK g : g = Fwd(n)
    OBVIOUS
  <2>9. g \in UNION {[0 .. (z - 1) -> Nat] : z \in 1 .. MAX_LEVEL1}
    BY <2>4, <2>8
  <2>10. [key |-> tsl[n].key, forward |-> g] \in ListNode
    BY ONLY <2>6, <2>9 DEF ListNode
  <2> QED  BY <2>7, <2>8, <2>10
<1>4. linked \in Seq(ListNode) /\ Len(linked) = len
  <2>1. linked = [n \in 1 .. len |-> linked[n]]
    BY <1>1, Zenon
  <2> HIDE DEF linked, len
  <2> QED  BY <1>1, <1>3, <2>1
<1>5. last \in ListNode
  <2>1. fwd \in [0 .. (v - 1) -> Nat]
    <3>1. ASSUME NEW i \in 0 .. (v - 1) PROVE tsl[update[i]].forward[i] \in Nat
      <4>1. update[i] \in DOMAIN tsl /\ i \in DOMAIN tsl[update[i]].forward
        BY DEF LeftAt, OnLevel
      <4>2. PICK h \in 1 .. MAX_LEVEL1 : tsl[update[i]].forward \in [0 .. (h - 1) -> Nat]
        BY <4>1, NodeFacts
      <4> QED  BY <4>1, <4>2
    <3> QED  BY <3>1
  <2> HIDE DEF fwd
  <2>2. fwd \in UNION {[0 .. (h - 1) -> Nat] : h \in 1 .. MAX_LEVEL1}
    BY <2>1
  <2> QED  BY <2>2 DEF ListNode
<1>6. last.key = k /\ last.forward = fwd
  OBVIOUS
<1> HIDE DEF linked, last
<1>7. /\ more \in Seq(ListNode) /\ Len(more) = len + 1
      /\ \A n \in 1 .. len : more[n] = linked[n]
      /\ more[len + 1] = last
  BY <1>1, <1>2, <1>4, <1>5
<1>8. /\ more[len + 1].key = k /\ DOMAIN more[len + 1].forward = 0 .. (v - 1)
      /\ \A i \in 0 .. (v - 1) : more[len + 1].forward[i] = tsl[update[i]].forward[i]
  BY <1>6, <1>7
<1>9. ASSUME NEW n \in 1 .. len
      PROVE  /\ more[n].key = tsl[n].key
             /\ DOMAIN more[n].forward = DOMAIN tsl[n].forward
             /\ \A i \in DOMAIN tsl[n].forward : more[n].forward[i] =
                   IF i < v /\ update[i] = n THEN len + 1 ELSE tsl[n].forward[i]
  <2>1. /\ DOMAIN Fwd(n) = DOMAIN tsl[n].forward
        /\ \A i \in DOMAIN tsl[n].forward :
             Fwd(n)[i] = IF i < v /\ update[i] = n THEN len + 1 ELSE tsl[n].forward[i]
    OBVIOUS
  <2>2. PICK g : g = Fwd(n)
    OBVIOUS
  <2> HIDE DEF Fwd, len
  <2>3. more[n] = [key |-> tsl[n].key, forward |-> g]
    BY <1>3, <1>7, <2>2
  <2>4. more[n].key = tsl[n].key /\ more[n].forward = g
    BY ONLY <2>3
  <2> QED  BY <2>1, <2>2, <2>4
<1> QED  BY <1>7, <1>8, <1>9

\* A node linked behind those where the walk left each level keeps the list in shape.
LEMMA LinkKeepsShape ==
  ASSUME ListShape(tsl, level), NEW k \in Nat, NEW v \in 1 .. MAX_LEVEL1,
         NEW update, \A i \in 0 .. (v - 1) : LeftAt(update[i], i, k),
         \A i \in 0 .. (v - 1) : i >= level => update[i] = HeadNode,
         NEW more, more = Link(k, v, update)
  PROVE  ListShape(more, IF v > level THEN v ELSE level)
<1> DEFINE len == Len(tsl)
           new == len + 1
           top == IF v > level THEN v ELSE level
<1>1. len \in Nat \ {0} /\ DOMAIN tsl = 1 .. len /\ new # HeadNode /\ new # Nullptr
      /\ HeadNode \in 1 .. len
  BY ListLength DEF HeadNode, Nullptr
<1>2. /\ more \in Seq(ListNode) /\ Len(more) = new
      /\ \A n \in 1 .. len :
           /\ more[n].key = tsl[n].key
           /\ DOMAIN more[n].forward = DOMAIN tsl[n].forward
           /\ \A i \in DOMAIN tsl[n].forward : more[n].forward[i] =
                IF i < v /\ update[i] = n THEN new ELSE tsl[n].forward[i]
      /\ more[new].key = k
      /\ DOMAIN more[new].forward = 0 .. (v - 1)
      /\ \A i \in 0 .. (v - 1) : more[new].forward[i] = tsl[update[i]].forward[i]
  BY LinkFacts
<1> HIDE DEF len
<1>3. DOMAIN more = 1 .. new /\ \A n \in 1 .. len : n \in 1 .. new /\ n # new /\ n < new
  BY <1>1, <1>2
<1>4. level \in 0 .. MAX_LEVEL1 /\ MAX_LEVEL1 \in Nat \ {0} /\ v \in Nat
  BY SkiplistAssumption DEF ListShape
<1>5. top \in 0 .. MAX_LEVEL1 /\ v <= top /\ level <= top
  BY <1>4
<1>6. ASSUME NEW i \in top .. (MAX_LEVEL1 - 1)
      PROVE  more[HeadNode].forward[i] = Nullptr
  <2>1. i \in 0 .. (MAX_LEVEL1 - 1) /\ ~ (i < v) /\ i \in level .. (MAX_LEVEL1 - 1)
    BY <1>4, <1>5
  <2>2. tsl[HeadNode].forward[i] = Nullptr /\ i \in DOMAIN tsl[HeadNode].forward
    BY <2>1 DEF ListShape
  <2> QED  BY <1>1, <1>2, <2>1, <2>2
<1>7. ASSUME NEW n \in 1 .. new, NEW i \in DOMAIN more[n].forward,
             more[n].forward[i] # Nullptr
      PROVE  /\ more[n].forward[i] \in 1 .. new
             /\ i \in DOMAIN more[more[n].forward[i]].forward
             /\ Before(more, n, more[n].forward[i])
  <2> DEFINE next == more[n].forward[i]
  <2>1. CASE n \in 1 .. len /\ i < v /\ update[i] = n
    <3>1. i \in DOMAIN tsl[n].forward /\ next = new
      BY <1>2, <2>1
    <3>2. i \in 0 .. (v - 1)
      <4>1. PICK h \in 1 .. MAX_LEVEL1 : tsl[n].forward \in [0 .. (h - 1) -> Nat]
        BY <1>1, <2>1, NodeFacts
      <4>2. i \in Nat
        BY <3>1, <4>1
      <4> QED  BY <1>4, <2>1, <4>2
    <3>3. n = HeadNode \/ tsl[n].key < k
      BY <2>1, <3>2 DEF LeftAt, Reached
    <3>4. Before(more, n, new)
      BY <1>1, <1>2, <2>1, <3>3 DEF Before
    <3> QED  BY <1>1, <1>2, <3>1, <3>2, <3>4
  <2>2. CASE n \in 1 .. len /\ ~ (i < v /\ update[i] = n)
    <3>1. i \in DOMAIN tsl[n].forward /\ next = tsl[n].forward[i]
      BY <1>2, <2>2
    <3>2. next \in 1 .. len /\ i \in DOMAIN tsl[next].forward /\ Before(tsl, n, next)
      BY <1>1, <1>7, <2>2, <3>1 DEF ListShape, LinksAscend
    <3>3. next \in 1 .. new /\ i \in DOMAIN more[next].forward
      BY <1>2, <1>3, <3>2
    <3>4. Before(more, n, next)
      BY <1>2, <2>2, <3>2 DEF Before
    <3> QED  BY <3>3, <3>4
  <2>3. CASE n = new
    <3>1. i \in 0 .. (v - 1) /\ next = tsl[update[i]].forward[i]
      BY <1>2, <2>3
    <3>2. LeftAt(update[i], i, k)
      BY <3>1
    <3>3. update[i] \in DOMAIN tsl /\ i \in DOMAIN tsl[update[i]].forward /\ ~ Passes(next, k)
      BY <3>1, <3>2 DEF LeftAt, OnLevel
    <3>4. next \in 1 .. len /\ i \in DOMAIN tsl[next].forward /\ next # HeadNode
      BY <1>1, <1>7, <3>1, <3>3 DEF ListShape, LinksAscend, Before
    <3>5. ~ (tsl[next].key < k) /\ tsl[next].key \in Nat
      BY <1>1, <1>7, <3>3, <3>4, NodeFacts DEF Passes
    <3>6. next < new /\ next \in Nat /\ new \in Nat
      BY <1>1, <1>3, <3>4
    <3>7. more[new].key < more[next].key \/ more[new].key = more[next].key
      BY <1>2, <3>4, <3>5
    <3>8. Before(more, new, next)
      BY <3>4, <3>6, <3>7 DEF Before
    <3> QED  BY <1>2, <1>3, <2>3, <3>4, <3>8
  <2>4. n \in 1 .. len \/ n = new
    BY <1>1
  <2> QED  BY <2>1, <2>2, <2>3, <2>4
<1>8. DOMAIN more[HeadNode].forward = 0 .. (MAX_LEVEL1 - 1)
  BY <1>1, <1>2 DEF ListShape
<1>9. Len(more) # 0
  BY <1>1, <1>2
<1>10. LinksAscend(more)
  BY <1>3, <1>7 DEF LinksAscend
<1> HIDE DEF new, top
<1>11. ListShape(more, top)
  BY <1>2, <1>5, <1>6, <1>8, <1>9, <1>10 DEF ListShape
<1> QED  BY <1>11 DEF top

\* The walk ends in front of the place of k.
LEMMA WalkEnds ==
  ASSUME ListShape(tsl, level), NEW k \in Nat, NEW top \in 0 .. (MAX_LEVEL1 - 1)
  PROVE  LeftBottomAt(tsl, Walk(top, k)[0], k)
<1>1. 0 \in 0 .. top
  BY SkiplistAssumption
<1>2. PICK u : u = Walk(top, k)[0]
  OBVIOUS
<1>3. LeftAt(u, 0, k)
  BY <1>1, <1>2, WalkLeaves
<1> QED  BY <1>2, <1>3, LeftBottom

\* A node the list does not take changes nothing of the chain.
LEMMA SameChain ==
  ASSUME SkipInv, ListShape(tsl', level'), UNCHANGED tsl
  PROVE  Bottom' = Bottom /\ \E s : Through(tsl', s)
<1>1. PICK s : Through(tsl, s)
  BY DEF SkipInv
<1>2. Through(tsl', s)
  BY <1>1
<1>3. Bottom' = Items(tsl', s) /\ Bottom = Items(tsl, s)
  BY <1>1, <1>2, BottomNow, BottomNext DEF SkipInv
<1> QED  BY <1>2, <1>3

LEMMA SearchStep ==
  ASSUME SkipInv, NEW k \in ListKey, SearchNode(k)
  PROVE  SkipInv' /\ Chain!Find(k)
<1> DEFINE last == IF level = 0 THEN HeadNode ELSE Walk(level - 1, k)[0]
<1>1. ListShape(tsl, level) /\ k \in Nat
  BY SkiplistAssumption DEF SkipInv
<1>2. PICK s : Through(tsl, s)
  BY DEF SkipInv
<1>3. PICK u : u = last
  OBVIOUS
<1>4. LeftBottomAt(tsl, u, k)
  <2>1. CASE level = 0
    <3>1. u = HeadNode /\ 0 \in level .. (MAX_LEVEL1 - 1)
      BY <1>3, <2>1, SkiplistAssumption
    <3>2. LeftAt(u, 0, k)
      BY <1>1, <3>1, HeadIsLeft
    <3> QED  BY <1>1, <3>2, LeftBottom
  <2>2. CASE level # 0
    <3>1. level - 1 \in 0 .. (MAX_LEVEL1 - 1)
      BY <1>1, <2>2, SkiplistAssumption DEF ListShape
    <3>2. PICK top : top = level - 1
      OBVIOUS
    <3>3. u = Walk(top, k)[0]
      BY <1>3, <2>2, <3>2
    <3> QED  BY <1>1, <3>1, <3>2, <3>3, WalkEnds
  <2> QED  BY <2>1, <2>2
<1>5. PICK p : PlacedAt(tsl, s, u, k, p)
  BY <1>1, <1>2, <1>4, PlaceInOrder
<1>6. /\ DOMAIN Bottom = 1 .. (Len(tsl) - 1)
      /\ \A q \in 1 .. (Len(tsl) - 1) : Bottom[q] = ItemOf(tsl, s[q])
      /\ Chain!PlaceOf(k) = p
  BY <1>1, <1>2, <1>5, ChainPlace
<1>7. Len(tsl) \in Nat \ {0}
  BY <1>1, ListLength
<1>8. node' = IF p = Len(tsl) THEN Nullptr ELSE s[p]
  BY <1>3, <1>5 DEF SearchNode, PlacedAt
<1>9. p \in 1 .. Len(tsl)
  BY <1>5 DEF PlacedAt
<1>10. tsl' = tsl /\ level' = level /\ liststatus' = liststatus
  BY DEF SearchNode
<1>11. ListShape(tsl', level')
  BY <1>1, <1>10
<1>12. Bottom' = Bottom /\ Through(tsl', s)
  BY <1>2, <1>10, <1>11, SameChain
<1>13. CASE p = Len(tsl)
  <2>1. node' = Nullptr /\ p \notin DOMAIN Bottom
    BY <1>6, <1>7, <1>8, <1>13
  <2>2. Chain!Find(k)
    BY <1>6, <1>12, <2>1 DEF Chain!Find
  <2>3. node' \in 0 .. Len(tsl')
    BY <1>7, <1>10, <2>1 DEF Nullptr
  <2> QED  BY <1>10, <1>11, <1>12, <2>2, <2>3 DEF SkipInv
<1>14. CASE p # Len(tsl)
  <2>1. p \in 1 .. (Len(tsl) - 1)
    BY <1>7, <1>9, <1>14
  <2>2. s[p] \in 2 .. Len(tsl) /\ s[p] \in 0 .. Len(tsl)
    <3>1. s[p] \in 2 .. Len(tsl)
      BY <1>2, <2>1 DEF Through
    <3> QED  BY <1>7, <3>1
  <2>3. node' = s[p] /\ node' # Nullptr
    BY <1>8, <1>14, <2>2 DEF Nullptr
  <2>4. p \in DOMAIN Bottom /\ Bottom[p].no = node' - 1
    BY <1>6, <2>1, <2>3 DEF ItemOf
  <2>5. Chain!Find(k)
    BY <1>6, <1>12, <2>3, <2>4 DEF Chain!Find
  <2>6. node' \in 0 .. Len(tsl')
    BY <1>10, <2>2, <2>3
  <2> QED  BY <1>10, <1>11, <1>12, <2>5, <2>6 DEF SkipInv
<1> QED  BY <1>13, <1>14

\* The levels of a new node: where the walk left those in use, the head on the others.
LEMMA UpdatesAreLeft ==
  ASSUME ListShape(tsl, level), NEW k \in Nat, level # MAX_LEVEL1,
         NEW v \in 1 .. MAX_LEVEL1, NEW update,
         update = [i \in 0 .. (v - 1) |-> IF i >= level THEN HeadNode ELSE Walk(level, k)[i]]
  PROVE  /\ \A i \in 0 .. (v - 1) : LeftAt(update[i], i, k)
         /\ \A i \in 0 .. (v - 1) : i >= level => update[i] = HeadNode
<1>1. level \in 0 .. (MAX_LEVEL1 - 1) /\ level \in Nat /\ MAX_LEVEL1 \in Nat
  BY SkiplistAssumption DEF ListShape
<1>2. \A i \in 0 .. (v - 1) : update[i] = IF i >= level THEN HeadNode ELSE Walk(level, k)[i]
  OBVIOUS
<1>3. ASSUME NEW i \in 0 .. (v - 1) PROVE LeftAt(update[i], i, k)
  <2>1. CASE i >= level
    <3>1. i \in level .. (MAX_LEVEL1 - 1) /\ update[i] = HeadNode
      BY <1>1, <1>2, <2>1
    <3> QED  BY <3>1, HeadIsLeft
  <2>2. CASE ~ (i >= level)
    <3>1. i \in 0 .. level /\ update[i] = Walk(level, k)[i]
      BY <1>1, <1>2, <2>2
    <3>2. PICK top : top = level
      OBVIOUS
    <3>3. LeftAt(Walk(top, k)[i], i, k)
      BY <1>1, <3>1, <3>2, WalkLeaves
    <3> QED  BY <3>1, <3>2, <3>3
  <2> QED  BY <2>1, <2>2
<1> QED  BY <1>2, <1>3

LEMMA ItemPutIn ==
  ASSUME NEW b \in Seq(Item), NEW p \in 1 .. (Len(b) + 1), NEW x \in Item
  PROVE  /\ InsertAt(b, p, x) \in Seq(Item) /\ Len(InsertAt(b, p, x)) = Len(b) + 1
         /\ \A j \in 1 .. (Len(b) + 1) : InsertAt(b, p, x)[j] =
              IF j < p THEN b[j] ELSE IF j = p THEN x ELSE b[j - 1]
BY InsertAtProperties

\* The new node comes into the chain where it belongs.
LEMMA LinkAdds ==
  ASSUME SkipInv, NEW k \in ListKey, NEW v \in 1 .. MAX_LEVEL1, NEW update,
         \A i \in 0 .. (v - 1) : LeftAt(update[i], i, k),
         \A i \in 0 .. (v - 1) : i >= level => update[i] = HeadNode,
         tsl' = Link(k, v, update), level' = IF v > level THEN v ELSE level,
         UNCHANGED <<node, liststatus>>, Len(tsl) <= MaxListNodes
  PROVE  SkipInv' /\ Chain!Add(k)
<1>1. ListShape(tsl, level) /\ k \in Nat
  BY SkiplistAssumption DEF SkipInv
<1>2. PICK s : Through(tsl, s)
  BY DEF SkipInv
<1>3. PICK more : more = tsl'
  OBVIOUS
<1>4. PICK top : top = IF v > level THEN v ELSE level
  OBVIOUS
<1>5. more = Link(k, v, update)
  BY <1>3
<1>6. ListShape(more, top)
  BY <1>1, <1>4, <1>5, LinkKeepsShape
<1>7. 0 \in 0 .. (v - 1) /\ 0 < v
  OBVIOUS
<1>8. PICK u : u = update[0]
  OBVIOUS
<1>9. LeftBottomAt(tsl, u, k)
  BY <1>1, <1>7, <1>8, LeftBottom
<1>10. PICK p : PlacedAt(tsl, s, u, k, p)
  BY <1>1, <1>2, <1>9, PlaceInOrder
<1>11. Len(tsl) \in Nat \ {0} /\ DOMAIN tsl = 1 .. Len(tsl)
  BY <1>1, ListLength
<1>12. /\ Len(more) = Len(tsl) + 1
       /\ \A n \in 1 .. Len(tsl) :
            /\ more[n].key = tsl[n].key
            /\ DOMAIN more[n].forward = DOMAIN tsl[n].forward
            /\ \A i \in DOMAIN tsl[n].forward : more[n].forward[i] =
                 IF i < v /\ update[i] = n THEN Len(tsl) + 1 ELSE tsl[n].forward[i]
       /\ more[Len(tsl) + 1].key = k
       /\ \A i \in 0 .. (v - 1) :
            more[Len(tsl) + 1].forward[i] = tsl[update[i]].forward[i]
  BY <1>1, <1>5, LinkFacts
<1>13. Spliced(tsl, more, u, k)
  <2>1. ASSUME NEW n \in 1 .. Len(tsl)
        PROVE  /\ more[n].key = tsl[n].key
               /\ more[n].forward[0] = IF n = u THEN Len(tsl) + 1 ELSE tsl[n].forward[0]
    <3>1. 0 \in DOMAIN tsl[n].forward
      BY <1>1, <1>11, NodeFacts
    <3> QED  BY <1>7, <1>8, <1>12, <3>1
  <2>2. more[Len(tsl) + 1].forward[0] = tsl[u].forward[0]
    BY <1>7, <1>8, <1>12
  <2> QED  BY <1>11, <1>12, <2>1, <2>2 DEF Spliced
<1> DEFINE r == OneMoreIn(tsl, s, p)
<1>14. Through(more, r)
  BY <1>1, <1>2, <1>10, <1>13, SpliceKeepsOrder
<1>15. /\ Bottom \in Seq(Item) /\ Len(Bottom) = Len(tsl) - 1
       /\ \A q \in 1 .. (Len(tsl) - 1) : Bottom[q] = ItemOf(tsl, s[q])
       /\ Chain!PlaceOf(k) = p
  BY <1>1, <1>2, <1>10, ChainPlace
<1>16. ListShape(tsl', level') /\ Through(tsl', r)
  BY <1>3, <1>4, <1>6, <1>14
<1>17. Bottom' = Items(more, r)
  <2>1. PICK t : t = r
    OBVIOUS
  <2>2. Bottom' = Items(tsl', t)
    BY <1>16, <2>1, BottomNext
  <2> QED  BY <1>3, <2>1, <2>2
<1>18. p \in 1 .. Len(tsl)
  BY <1>10 DEF PlacedAt
<1> DEFINE e == [key |-> k, no |-> Len(Bottom) + 1]
           A == InsertAt(Bottom, p, e)
<1>19. /\ A \in Seq(Item) /\ Len(A) = Len(tsl)
       /\ \A j \in 1 .. Len(tsl) :
            A[j] = IF j < p THEN Bottom[j] ELSE IF j = p THEN e ELSE Bottom[j - 1]
  <2>1. e \in Item
    BY <1>1, <1>11, <1>15 DEF Item
  <2>2. p \in 1 .. (Len(Bottom) + 1) /\ Len(Bottom) + 1 = Len(tsl)
    BY <1>11, <1>15, <1>18
  <2> HIDE DEF e
  <2>3. PICK b, x : b = Bottom /\ x = e
    OBVIOUS
  <2>4. b \in Seq(Item) /\ x \in Item /\ p \in 1 .. (Len(b) + 1) /\ Len(b) + 1 = Len(tsl)
    BY <1>15, <2>1, <2>2, <2>3
  <2>5. /\ InsertAt(b, p, x) \in Seq(Item) /\ Len(InsertAt(b, p, x)) = Len(b) + 1
        /\ \A j \in 1 .. (Len(b) + 1) : InsertAt(b, p, x)[j] =
             IF j < p THEN b[j] ELSE IF j = p THEN x ELSE b[j - 1]
    BY <2>4, ItemPutIn
  <2> QED  BY <2>3, <2>4, <2>5
<1>20. /\ Items(more, r) \in Seq(Item) /\ Len(Items(more, r)) = Len(tsl)
  BY <1>6, <1>11, <1>12, <1>14, RestOfItems
<1>21. ASSUME NEW j \in 1 .. Len(tsl) PROVE Items(more, r)[j] = A[j]
  <2>1. Items(more, r)[j] = ItemOf(more, r[j])
    BY <1>11, <1>12 DEF Items
  <2>2. r[j] = IF j < p THEN s[j] ELSE IF j = p THEN Len(tsl) + 1 ELSE s[j - 1]
    BY DEF OneMoreIn
  <2>3. \A q \in 1 .. (Len(tsl) - 1) : ItemOf(more, s[q]) = Bottom[q]
    <3>1. ASSUME NEW q \in 1 .. (Len(tsl) - 1) PROVE ItemOf(more, s[q]) = Bottom[q]
      <4>1. s[q] \in 1 .. Len(tsl)
        <5>1. s[q] \in 2 .. Len(tsl)
          BY <1>2 DEF Through
        <5> QED  BY <1>11, <5>1
      <4> QED  BY <1>12, <1>15, <4>1 DEF ItemOf
    <3> QED  BY <3>1
  <2> HIDE DEF r, A
  <2>4. CASE j < p
    <3>1. j \in 1 .. (Len(tsl) - 1)
      BY <1>11, <1>18, <2>4
    <3> QED  BY <1>19, <2>1, <2>2, <2>3, <2>4, <3>1
  <2>5. CASE j = p
    <3>1. ItemOf(more, Len(tsl) + 1) = e
      BY <1>11, <1>12, <1>15 DEF ItemOf
    <3> HIDE DEF e
    <3>2. A[j] = e
      BY <1>18, <1>19, <2>5
    <3> QED  BY <2>1, <2>2, <2>5, <3>1, <3>2
  <2>6. CASE j > p
    <3>1. j - 1 \in 1 .. (Len(tsl) - 1) /\ ~ (j < p) /\ j # p
      BY <1>11, <1>18, <2>6
    <3> QED  BY <1>19, <2>1, <2>2, <2>3, <3>1
  <2> QED  BY <1>18, <2>4, <2>5, <2>6
<1> HIDE DEF r, A, e
<1>22. Items(more, r) = A
  BY <1>19, <1>20, <1>21, SeqEqual
<1>23. Len(Bottom) < MaxListNodes
  BY <1>11, <1>15, SkiplistAssumption
<1>24. Chain!Add(k)
  <2>1. Bottom' = InsertAt(Bottom, p, [key |-> k, no |-> Len(Bottom) + 1])
    BY <1>17, <1>22 DEF A, e
  <2> QED  BY <1>15, <1>23, <2>1, Zenon DEF Chain!Add, Chain!InsertAt, InsertAt
<1>25. node' \in 0 .. Len(tsl') /\ liststatus' \in {"running", "undefined"}
  <2>1. Len(tsl') = Len(tsl) + 1
    BY <1>3, <1>12
  <2> QED  BY <1>11, <2>1 DEF SkipInv
<1> QED  BY <1>16, <1>24, <1>25 DEF SkipInv

LEMMA InsertStep ==
  ASSUME SkipInv, NEW k \in ListKey, InsertNode(k)
  PROVE  SkipInv' /\ (Chain!Add(k) \/ UNCHANGED Chain!chainvars)
<1>1. ListShape(tsl, level) /\ k \in Nat
  BY SkiplistAssumption DEF SkipInv
<1>2. node' = node
  BY DEF InsertNode
<1>3. ASSUME UNCHANGED <<tsl, level>>, liststatus' \in {liststatus, "undefined"}
      PROVE  SkipInv' /\ UNCHANGED Chain!chainvars
  <2>1. ListShape(tsl', level')
    BY <1>1, <1>3
  <2>2. Bottom' = Bottom /\ \E s : Through(tsl', s)
    BY <1>3, <2>1, SameChain
  <2>3. node' \in 0 .. Len(tsl') /\ liststatus' \in {"running", "undefined"}
    BY <1>2, <1>3 DEF SkipInv
  <2> QED  BY <1>2, <2>1, <2>2, <2>3 DEF SkipInv, Chain!chainvars
<1>4. CASE level = MAX_LEVEL1
  BY <1>3, <1>4 DEF InsertNode
<1>5. CASE level # MAX_LEVEL1 /\ tsl[Walk(level, k)[0]].key = k
  BY <1>3, <1>5 DEF InsertNode
<1>6. CASE level # MAX_LEVEL1 /\ tsl[Walk(level, k)[0]].key # k
  <2>1. /\ Len(tsl) <= MaxListNodes /\ UNCHANGED <<node, liststatus>>
        /\ \E v \in 1 .. MAX_LEVEL1 :
             LET update == [i \in 0 .. (v - 1) |->
                              IF i >= level THEN HeadNode ELSE Walk(level, k)[i]]
             IN  tsl' = Link(k, v, update) /\ level' = IF v > level THEN v ELSE level
    BY <1>6 DEF InsertNode, RandomLevel
  <2>2. PICK v \in 1 .. MAX_LEVEL1 :
             LET update == [i \in 0 .. (v - 1) |->
                              IF i >= level THEN HeadNode ELSE Walk(level, k)[i]]
             IN  tsl' = Link(k, v, update) /\ level' = IF v > level THEN v ELSE level
    BY <2>1
  <2>3. PICK update : update = [i \in 0 .. (v - 1) |->
                                  IF i >= level THEN HeadNode ELSE Walk(level, k)[i]]
    OBVIOUS
  <2>4. tsl' = Link(k, v, update) /\ level' = IF v > level THEN v ELSE level
    BY <2>2, <2>3
  <2>5. /\ \A i \in 0 .. (v - 1) : LeftAt(update[i], i, k)
        /\ \A i \in 0 .. (v - 1) : i >= level => update[i] = HeadNode
    BY <1>1, <1>6, <2>3, UpdatesAreLeft
  <2> QED  BY <2>1, <2>4, <2>5, LinkAdds
<1> QED  BY <1>4, <1>5, <1>6

\* An empty list has the head alone.
LEMMA SkipInit ==
  ASSUME ListInit
  PROVE  SkipInv /\ Bottom = << >>
<1> DEFINE fwd == [i \in 0 .. (MAX_LEVEL1 - 1) |-> Nullptr]
           head == [key |-> 0, forward |-> fwd]
           none == [q \in 1 .. 0 |-> 2]
<1>1. tsl = << head >>
  BY DEF ListInit, TskiplistNodeCreat
<1>2. fwd \in UNION {[0 .. (h - 1) -> Nat] : h \in 1 .. MAX_LEVEL1}
  <2>1. fwd \in [0 .. (MAX_LEVEL1 - 1) -> Nat] /\ MAX_LEVEL1 \in 1 .. MAX_LEVEL1
    BY SkiplistAssumption DEF Nullptr
  <2> HIDE DEF fwd
  <2> QED  BY <2>1
<1>3. DOMAIN fwd = 0 .. (MAX_LEVEL1 - 1) /\ \A i \in 0 .. (MAX_LEVEL1 - 1) : fwd[i] = Nullptr
  OBVIOUS
<1> HIDE DEF fwd
<1>4. head.key = 0 /\ head.forward = fwd /\ head \in ListNode
  BY <1>2 DEF ListNode
<1> HIDE DEF head
<1>5. /\ tsl \in Seq(ListNode) /\ Len(tsl) = 1 /\ DOMAIN tsl = {1} /\ tsl[1] = head
      /\ tsl[HeadNode] = head
  BY <1>1, <1>4 DEF HeadNode
<1>6. LinksAscend(tsl)
  BY <1>3, <1>4, <1>5 DEF LinksAscend
<1>7. level = 0 /\ node = 0 /\ liststatus = "running"
  BY DEF ListInit, Nullptr
<1>8. ListShape(tsl, level)
  <2>1. \A i \in level .. (MAX_LEVEL1 - 1) : i \in 0 .. (MAX_LEVEL1 - 1)
    BY <1>7
  <2>2. level \in 0 .. MAX_LEVEL1
    BY <1>7, SkiplistAssumption
  <2>3. /\ DOMAIN tsl[HeadNode].forward = 0 .. (MAX_LEVEL1 - 1)
        /\ \A i \in 0 .. (MAX_LEVEL1 - 1) : tsl[HeadNode].forward[i] = Nullptr
    BY <1>3, <1>4, <1>5
  <2>4. \A i \in level .. (MAX_LEVEL1 - 1) : tsl[HeadNode].forward[i] = Nullptr
    BY <2>1, <2>3
  <2>5. tsl \in Seq(ListNode) /\ Len(tsl) # 0
    BY <1>5
  <2> HIDE DEF head
  <2> QED  BY <1>6, <2>2, <2>3, <2>4, <2>5 DEF ListShape
<1>9. Through(tsl, none)
  <2>1. Len(tsl) - 1 = 0 /\ 1 .. 0 = {} /\ 2 .. Len(tsl) = {}
    BY <1>5
  <2>2. tsl[HeadNode].forward[0] = Nullptr
    BY <1>3, <1>4, <1>5, SkiplistAssumption
  <2>3. none \in [1 .. (Len(tsl) - 1) -> 2 .. Len(tsl)]
    BY <2>1
  <2> HIDE DEF none
  <2> QED  BY <1>5, <2>1, <2>2, <2>3 DEF Through
<1>10. Bottom = << >>
  <2> HIDE DEF none
  <2>1. Bottom = Items(tsl, none) /\ Items(tsl, none) \in Seq(Item) /\ Len(Items(tsl, none)) = 0
    BY <1>5, <1>8, <1>9, BottomNow, RestOfItems
  <2> QED  BY <2>1
<1> HIDE DEF none
<1> QED  BY <1>5, <1>7, <1>8, <1>9, <1>10 DEF SkipInv

LEMMA SkipSteps ==
  ASSUME SkipInv, [ListNext]_listvars
  PROVE  SkipInv' /\ [Chain!ChainNext]_Chain!chainvars
<1>1. CASE ListNext
  <2>1. PICK k \in ListKey : InsertNode(k) \/ SearchNode(k)
    BY <1>1 DEF ListNext
  <2>2. SkipInv' /\ (Chain!Add(k) \/ Chain!Find(k) \/ UNCHANGED Chain!chainvars)
    BY <2>1, InsertStep, SearchStep
  <2> QED  BY <2>2, Zenon DEF Chain!ChainNext
<1>2. CASE UNCHANGED listvars
  <2>1. UNCHANGED <<tsl, level, node, liststatus>>
    BY <1>2 DEF listvars
  <2>2. ListShape(tsl', level')
    BY <2>1 DEF SkipInv
  <2>3. Bottom' = Bottom /\ \E s : Through(tsl', s)
    BY <2>1, <2>2, SameChain
  <2>4. node' \in 0 .. Len(tsl') /\ liststatus' \in {"running", "undefined"}
    BY <2>1 DEF SkipInv
  <2> QED  BY <2>1, <2>2, <2>3, <2>4 DEF SkipInv, Chain!chainvars
<1> QED  BY <1>1, <1>2

LEMMA SkipTypes ==
  ASSUME SkipInv
  PROVE  ListTypeOK
<1>1. ListShape(tsl, level)
  BY DEF SkipInv
<1> QED  BY <1>1 DEF SkipInv, ListShape, LinksAscend, ListTypeOK

\* A skip list keeps its levels in order (TskiplistNodeCreat and InsertNode, which
\* links a new node on each of its levels): a level leads only to nodes that have it.
THEOREM ListTypesAreKept == ListSpec => []ListTypeOK
<1>1. ListInit => SkipInv
  BY SkipInit
<1>2. SkipInv /\ [ListNext]_listvars => SkipInv'
  BY SkipSteps
<1>3. SkipInv => ListTypeOK
  BY SkipTypes
<1> QED  BY <1>1, <1>2, <1>3, PTL DEF ListSpec

\* A skip list with its levels and pointers is a sorted chain: InsertNode puts a node
\* before all of its key, whatever level it gets, and the walk of SearchNode down the
\* levels ends at the first node whose key is not below the one looked for.
THEOREM SkiplistRefines == ListSpec => SkiplistIsSortedChain
<1>1. ListInit => SkipInv
  BY SkipInit
<1>2. SkipInv /\ [ListNext]_listvars => SkipInv'
  BY SkipSteps
<1>3. ListInit => Chain!ChainInit
  <2>1. SUFFICES ASSUME ListInit PROVE Chain!ChainInit
    OBVIOUS
  <2>2. Bottom = << >>
    BY <2>1, SkipInit
  <2>3. node = Nullptr
    BY <2>1 DEF ListInit
  <2> QED  BY <2>2, <2>3 DEF Chain!ChainInit
<1>4. SkipInv /\ [ListNext]_listvars => [Chain!ChainNext]_Chain!chainvars
  BY SkipSteps
<1> QED  BY <1>1, <1>2, <1>3, <1>4, PTL DEF ListSpec, SkiplistIsSortedChain, Chain!ChainSpec

-----------------------------------------------------------------------------
(* The page store of the hashes.                                           *)

USE FlashAssumption

Page == Nat \X (Data \cup {0})

FlashState ==
  /\ sectorpointer \in 0 .. (LastPage - 1)
  /\ chunkusage \in [Chunk -> Nat]
  /\ chunk \in [Chunk -> Seq(Page)]
  /\ \A c \in Chunk : Len(chunk[c]) <= PagesPerChunk
  /\ faulted \subseteq Chunk
  /\ bucketpages \in Seq([PageNum : 0 .. (LastPage - 1), data : Data])
  /\ wrapped \in BOOLEAN /\ refused \in BOOLEAN
  /\ flashstatus \in {"running", "exited"}

\* The pages of chunk c before page p of the device.
Filled(c, p) ==
  IF p <= PagesPerChunk * c THEN 0
  ELSE IF p >= PagesPerChunk * (c + 1) THEN PagesPerChunk
  ELSE p - PagesPerChunk * c

\* Chunks fill up in the order of the pointer; those that are not erased when it
\* starts over keep all they had then.
FilledInOrder ==
  \A c \in Chunk \ faulted :
    Len(chunk[c]) =
      Filled(c, IF wrapped /\ c >= ErasedChunks THEN LastPage ELSE sectorpointer)

\* What is counted of a chunk follows the pointer whatever fails, until it has started
\* over and beyond the chunks that are erased then.
CountedInOrder ==
  \A c \in Chunk :
    ~wrapped \/ c < ErasedChunks => chunkusage[c] = Filled(c, sectorpointer)

\* Without a failed command the pointer stops for good behind the erased chunks.
StopsBehindErased ==
  faulted = {} =>
    /\ wrapped => sectorpointer <= PagesPerChunk * ErasedChunks
    /\ refused => wrapped /\ sectorpointer = PagesPerChunk * ErasedChunks

FlashInv ==
  /\ FlashState /\ UsageTracksDevice /\ FilledInOrder /\ CountedInOrder
  /\ StopsBehindErased /\ PagesReadBack

-----------------------------------------------------------------------------
(* Pages and chunks.                                                       *)

LEMMA ChunkAndOffset ==
  ASSUME NEW p \in Nat
  PROVE  /\ ChunkOf(p) \in Nat /\ OffsetOf(p) \in 0 .. (PagesPerChunk - 1)
         /\ p = PagesPerChunk * ChunkOf(p) + OffsetOf(p)
BY DEF ChunkOf, OffsetOf

LEMMA NextStart == \A w, n \in Nat : w * (n + 1) = w * n + w /\ w * n \in Nat
OBVIOUS

LEMMA StartsAscend ==
  ASSUME NEW w \in Nat, NEW m \in Nat, NEW n \in Nat, m <= n
  PROVE  w * m <= w * n
OBVIOUS

\* Page p lies in chunk c when it lies between the first page of c and the next.
LEMMA ChunkIsUnique ==
  ASSUME NEW p \in Nat, NEW c \in Nat,
         PagesPerChunk * c <= p, p < PagesPerChunk * c + PagesPerChunk
  PROVE  ChunkOf(p) = c /\ OffsetOf(p) = p - PagesPerChunk * c
<1> DEFINE q == ChunkOf(p)
           r == OffsetOf(p)
<1>1. q \in Nat /\ r \in 0 .. (PagesPerChunk - 1) /\ p = PagesPerChunk * q + r
  BY ChunkAndOffset
<1> HIDE DEF q, r
<1> DEFINE sq == PagesPerChunk * q
           sc == PagesPerChunk * c
<1>2. ASSUME q < c PROVE FALSE
  <2>1. q + 1 <= c /\ q + 1 \in Nat
    BY <1>1, <1>2
  <2>2. PagesPerChunk * (q + 1) <= sc /\ PagesPerChunk * (q + 1) = sq + PagesPerChunk
    BY <1>1, <2>1, StartsAscend, NextStart
  <2>3. sq \in Nat /\ sc \in Nat
    BY <1>1, NextStart
  <2>4. p = sq + r /\ sc <= p
    BY <1>1
  <2> HIDE DEF sq, sc
  <2> QED  BY <1>1, <2>2, <2>3, <2>4
<1>3. ASSUME c < q PROVE FALSE
  <2>1. c + 1 <= q /\ c + 1 \in Nat
    BY <1>1, <1>3
  <2>2. PagesPerChunk * (c + 1) <= sq /\ PagesPerChunk * (c + 1) = sc + PagesPerChunk
    BY <1>1, <2>1, StartsAscend, NextStart
  <2>3. sq \in Nat /\ sc \in Nat
    BY <1>1, NextStart
  <2>4. p = sq + r /\ p < sc + PagesPerChunk
    BY <1>1
  <2> HIDE DEF sq, sc
  <2> QED  BY <1>1, <2>2, <2>3, <2>4
<1>4. q = c
  BY <1>1, <1>2, <1>3
<1>5. r = p - PagesPerChunk * c
  <2>1. sc \in Nat /\ p = sc + r
    BY <1>1, <1>4, NextStart
  <2> HIDE DEF sc
  <2>2. r = p - sc
    BY <1>1, <2>1
  <2> QED  BY <2>2 DEF sc
<1> QED  BY <1>4, <1>5 DEF q, r

LEMMA PageInChunk ==
  ASSUME NEW p \in 0 .. (LastPage - 1)
  PROVE  ChunkOf(p) \in Chunk
<1> DEFINE c == ChunkOf(p)
           l == ChunkOf(LastPage - 1)
<1>1. p \in Nat /\ LastPage - 1 \in Nat /\ p <= LastPage - 1
  OBVIOUS
<1>2. /\ c \in Nat /\ OffsetOf(p) \in 0 .. (PagesPerChunk - 1)
      /\ p = PagesPerChunk * c + OffsetOf(p)
      /\ l \in Nat /\ OffsetOf(LastPage - 1) \in 0 .. (PagesPerChunk - 1)
      /\ LastPage - 1 = PagesPerChunk * l + OffsetOf(LastPage - 1)
  BY <1>1, ChunkAndOffset
<1>3. Chunk = 0 .. l
  BY DEF Chunk, ChunkOf
<1> HIDE DEF c, l
<1>4. ASSUME l < c PROVE FALSE
  <2> DEFINE sc == PagesPerChunk * c
             sl == PagesPerChunk * l
  <2>1. l + 1 <= c /\ l + 1 \in Nat
    BY <1>2, <1>4
  <2>2. PagesPerChunk * (l + 1) <= sc /\ PagesPerChunk * (l + 1) = sl + PagesPerChunk
        /\ sl \in Nat /\ sc \in Nat
    BY <1>2, <2>1, StartsAscend, NextStart
  <2>3. p = sc + OffsetOf(p) /\ LastPage - 1 = sl + OffsetOf(LastPage - 1)
    BY <1>2
  <2> HIDE DEF sc, sl
  <2> QED  BY <1>1, <1>2, <2>2, <2>3
<1> QED  BY <1>2, <1>3, <1>4 DEF c

\* The chunk of the last page is not one of the erased ones.
LEMMA ErasedBeforeEnd ==
  /\ ErasedChunks <= ChunkOf(LastPage - 1)
  /\ 0 .. (ErasedChunks - 1) \subseteq Chunk
  /\ ErasedChunks \in Chunk
  /\ ErasedChunks * PagesPerChunk = PagesPerChunk * ErasedChunks
<1> DEFINE l == ChunkOf(LastPage - 1)
           s == PagesPerChunk * ErasedChunks
<1>1. ErasedChunks * PagesPerChunk = s /\ s \in Nat
  BY NextStart
<1>2. /\ l \in Nat /\ OffsetOf(LastPage - 1) \in 0 .. (PagesPerChunk - 1)
      /\ LastPage - 1 = PagesPerChunk * l + OffsetOf(LastPage - 1)
  BY ChunkAndOffset, LastPage - 1 \in Nat
<1>3. Chunk = 0 .. l
  BY DEF Chunk, ChunkOf
<1> HIDE DEF l
<1>4. ASSUME l < ErasedChunks PROVE FALSE
  <2> DEFINE sl == PagesPerChunk * l
  <2>1. l + 1 <= ErasedChunks /\ l + 1 \in Nat
    BY <1>2, <1>4
  <2>2. PagesPerChunk * (l + 1) <= s /\ PagesPerChunk * (l + 1) = sl + PagesPerChunk
        /\ sl \in Nat
    BY <1>2, <2>1, StartsAscend, NextStart
  <2>3. LastPage - 1 = sl + OffsetOf(LastPage - 1) /\ s < LastPage
    BY <1>1, <1>2
  <2> HIDE DEF s, sl
  <2> QED  BY <1>1, <1>2, <2>2, <2>3
<1>5. ErasedChunks <= l
  BY <1>2, <1>4
<1> HIDE DEF s
<1>6. 0 .. (ErasedChunks - 1) \subseteq 0 .. l /\ ErasedChunks \in 0 .. l
  BY <1>2, <1>5
<1> QED  BY <1>1, <1>3, <1>5, <1>6 DEF s, l

-----------------------------------------------------------------------------
(* What a chunk has after it was erased and written again.                 *)

LEMMA PaddingType ==
  ASSUME NEW n \in Nat
  PROVE  Padding(n) \in Seq(Page) /\ Len(Padding(n)) = n
BY DEF Padding, Blank, Page

\* An erased chunk is empty, provided as many pages are in it as are counted.
LEMMA ErasedChunkIsEmpty ==
  ASSUME FlashState, NEW c \in Chunk
  PROVE  /\ erasechunk(c) \in Seq(Page) /\ Len(erasechunk(c)) <= PagesPerChunk
         /\ chunkusage[c] = Len(chunk[c]) => erasechunk(c) = << >>
<1>1. /\ chunkusage[c] \in Nat /\ chunk[c] \in Seq(Page) /\ Len(chunk[c]) \in Nat
      /\ Len(chunk[c]) <= PagesPerChunk
      /\ << >> \in Seq(Page) /\ Len(<< >>) = 0
  BY DEF FlashState
<1>2. CASE chunkusage[c] < PagesPerChunk /\ chunkusage[c] = Len(chunk[c])
  <2> DEFINE more == Padding(PagesPerChunk - chunkusage[c])
  <2>1. more \in Seq(Page) /\ Len(more) = PagesPerChunk - chunkusage[c]
    <3>1. PagesPerChunk - chunkusage[c] \in Nat
      BY <1>1, <1>2
    <3> QED  BY <3>1, PaddingType
  <2>2. CompenstaeFun(c) = chunk[c] \o more /\ ~FillRefused(c)
    BY <1>2 DEF CompenstaeFun, FillRefused
  <2> HIDE DEF more
  <2>3. Len(CompenstaeFun(c)) = PagesPerChunk
    <3>1. chunk[c] \in Seq(Page) /\ Len(chunk[c]) \in Nat
      BY <1>1
    <3> DEFINE there == chunk[c]
    <3> HIDE DEF there
    <3>2. there \in Seq(Page)
      BY <3>1 DEF there
    <3>3. Len(there \o more) = Len(there) + Len(more)
      BY <2>1, <3>2
    <3> QED  BY <1>1, <1>2, <2>1, <2>2, <3>1, <3>3 DEF there
  <2>4. erasechunk(c) = << >>
    BY <1>2, <2>2, <2>3 DEF erasechunk
  <2> QED  BY <1>1, <2>4
<1>3. CASE chunkusage[c] < PagesPerChunk /\ chunkusage[c] # Len(chunk[c])
  <2>1. erasechunk(c) = chunk[c]
    BY <1>1, <1>3 DEF erasechunk, CompenstaeFun, FillRefused
  <2> QED  BY <1>1, <1>3, <2>1
<1>4. CASE chunkusage[c] >= PagesPerChunk
  BY <1>1, <1>4 DEF erasechunk
<1> QED  BY <1>1, <1>2, <1>3, <1>4

LEMMA EraseFailsType ==
  ASSUME FlashState, NEW c \in Chunk, NEW left \in EraseFails(c)
  PROVE  left \in Seq(Page) /\ Len(left) <= PagesPerChunk
<1>1. /\ chunkusage[c] \in Nat /\ chunk[c] \in Seq(Page) /\ Len(chunk[c]) \in Nat
      /\ Len(chunk[c]) <= PagesPerChunk
  BY DEF FlashState
<1> DEFINE room == IF FillRefused(c) THEN 0 ELSE PagesPerChunk - Len(chunk[c])
<1>2. PICK n \in 0 .. room : left = chunk[c] \o Padding(n)
  BY DEF EraseFails
<1>3. n \in Nat /\ Len(chunk[c]) + n <= PagesPerChunk
  BY <1>1, <1>2
<1>4. Padding(n) \in Seq(Page) /\ Len(Padding(n)) = n
  BY <1>3, PaddingType
<1> QED  BY <1>1, <1>2, <1>3, <1>4

\* What PageUpdate has read; what lies beyond the chunk does not matter.
LEMMA TempEntriesType ==
  ASSUME FlashState, NEW b \in DOMAIN bucketpages, NEW d \in Data
  PROVE  LET c == ChunkOf(bucketpages[b].PageNum) IN
         /\ c \in Chunk /\ OffsetOf(bucketpages[b].PageNum) \in Nat
         /\ TempEntries(b, d) \in Seq(Page) /\ Len(TempEntries(b, d)) = chunkusage[c]
         /\ \A i \in 1 .. chunkusage[c] : i <= PagesPerChunk =>
              TempEntries(b, d)[i] =
                IF i = OffsetOf(bucketpages[b].PageNum) + 1 THEN <<b, d>>
                ELSE IF i <= Len(chunk[c]) THEN chunk[c][i] ELSE Blank
<1> DEFINE page == bucketpages[b].PageNum
           c == ChunkOf(page)
           PageAt(p) == IF ChunkOf(p) \in Chunk /\ OffsetOf(p) < Len(chunk[ChunkOf(p)])
                        THEN chunk[ChunkOf(p)][OffsetOf(p) + 1] ELSE Blank
<1>1. page \in 0 .. (LastPage - 1) /\ b \in Nat
  <2>1. /\ bucketpages \in Seq([PageNum : 0 .. (LastPage - 1), data : Data])
        /\ b \in 1 .. Len(bucketpages) /\ b \in Nat
    BY DEF FlashState
  <2>2. bucketpages[b] \in [PageNum : 0 .. (LastPage - 1), data : Data]
    BY <2>1, ElementOfSeq
  <2> QED  BY <2>1, <2>2
<1>2. c \in Chunk /\ OffsetOf(page) \in Nat
  BY <1>1, PageInChunk, ChunkAndOffset
<1>3. TempEntries(b, d) =
        [i \in 1 .. chunkusage[c] |->
          IF i = OffsetOf(page) + 1 THEN <<b, d>> ELSE PageAt(PagesPerChunk * c + i - 1)]
  BY DEF TempEntries
<1> HIDE DEF page, c
<1>4. chunkusage[c] \in Nat /\ c \in Nat /\ PagesPerChunk * c \in Nat
  <2>1. c \in Nat
    BY <1>2 DEF Chunk
  <2> QED  BY <1>2, <2>1, NextStart DEF FlashState
<1>5. <<b, d>> \in Page /\ Blank \in Page
  BY <1>1 DEF Page, Blank
<1>6. ASSUME NEW p \in Nat PROVE PageAt(p) \in Page
  <2>1. OffsetOf(p) \in Nat
    BY ChunkAndOffset
  <2> DEFINE e == ChunkOf(p)
             o == OffsetOf(p)
  <2>2. CASE e \in Chunk /\ o < Len(chunk[e])
    <3>1. chunk[e] \in Seq(Page) /\ Len(chunk[e]) \in Nat
      BY <2>2 DEF FlashState
    <3>2. o + 1 \in 1 .. Len(chunk[e])
      BY <2>1, <2>2, <3>1
    <3>3. PageAt(p) = chunk[e][o + 1]
      BY <2>2
    <3> QED  BY <3>1, <3>2, <3>3, ElementOfSeq
  <2>3. CASE ~(e \in Chunk /\ o < Len(chunk[e]))
    BY <1>5, <2>3
  <2> QED  BY <2>2, <2>3
<1>7. ASSUME NEW i \in 1 .. chunkusage[c], i <= PagesPerChunk
      PROVE  PageAt(PagesPerChunk * c + i - 1) = IF i <= Len(chunk[c]) THEN chunk[c][i] ELSE Blank
  <2> DEFINE start == PagesPerChunk * c
             p == start + i - 1
  <2>1. start \in Nat /\ i \in Nat /\ i >= 1
    BY <1>4
  <2> HIDE DEF start
  <2>2. p \in Nat /\ start <= p /\ p < start + PagesPerChunk /\ p - start = i - 1
    BY <1>7, <2>1
  <2> HIDE DEF p
  <2>3. ChunkOf(p) = c /\ OffsetOf(p) = i - 1
    BY <1>4, <2>2, ChunkIsUnique DEF start
  <2>4. Len(chunk[c]) \in Nat
    BY <1>2 DEF FlashState
  <2>5. PageAt(p) = IF i - 1 < Len(chunk[c]) THEN chunk[c][i - 1 + 1] ELSE Blank
    BY <1>2, <2>3
  <2>6. PageAt(p) = IF i <= Len(chunk[c]) THEN chunk[c][i] ELSE Blank
    <3>1. i - 1 < Len(chunk[c]) <=> i <= Len(chunk[c])
      BY <2>1, <2>4
    <3>2. i - 1 + 1 = i
      BY <2>1
    <3> HIDE DEF PageAt
    <3> QED  BY <2>5, <3>1, <3>2
  <2> QED  BY <2>6 DEF p, start
<1>8. \A i \in 1 .. chunkusage[c] : PagesPerChunk * c + i - 1 \in Nat
  <2> DEFINE start == PagesPerChunk * c
  <2>1. start \in Nat
    BY <1>4
  <2> HIDE DEF start
  <2>2. \A i \in 1 .. chunkusage[c] : start + i - 1 \in Nat
    BY <1>4, <2>1
  <2> QED  BY <2>2 DEF start
<1> HIDE DEF PageAt
<1>9. TempEntries(b, d) \in [1 .. chunkusage[c] -> Page]
  BY <1>3, <1>5, <1>6, <1>8
<1>10. TempEntries(b, d) \in Seq(Page) /\ Len(TempEntries(b, d)) = chunkusage[c]
  BY <1>4, <1>9
<1>11. \A i \in 1 .. chunkusage[c] : i <= PagesPerChunk =>
         TempEntries(b, d)[i] =
           IF i = OffsetOf(page) + 1 THEN <<b, d>>
           ELSE IF i <= Len(chunk[c]) THEN chunk[c][i] ELSE Blank
  BY <1>3, <1>7
<1> QED  BY <1>2, <1>10, <1>11 DEF page, c

\* A chunk is written again to its old length when it was empty before.
LEMMA RewriteType ==
  ASSUME NEW held \in Seq(Page), NEW pages \in Seq(Page),
         Len(held) <= PagesPerChunk, Len(pages) <= PagesPerChunk
  PROVE  /\ Rewrite(held, pages) \in Seq(Page)
         /\ Len(Rewrite(held, pages)) <= PagesPerChunk
         /\ held = << >> => Rewrite(held, pages) = pages
<1> DEFINE back == SubSeq(pages, Len(held) + 1, Len(pages))
<1>1. Len(held) \in Nat /\ Len(pages) \in Nat
  OBVIOUS
<1>2. back \in Seq(Page)
        /\ Len(back) = IF Len(held) + 1 <= Len(pages) THEN Len(pages) - Len(held) ELSE 0
  <2>1. \A i \in (Len(held) + 1) .. Len(pages) : pages[i] \in Page
    BY <1>1, ElementOfSeq
  <2> QED  BY <1>1, <2>1, SubSeqProperties
<1>3. held = << >> => back = pages
  BY <1>1
<1> HIDE DEF back
<1>4. Rewrite(held, pages) = held \o back
  BY DEF Rewrite, back
<1> QED  BY <1>1, <1>2, <1>3, <1>4

\* Of the pages to be written each chunk gets at most as many as it can hold, the
\* first one all when there are no more.
LEMMA PartType ==
  ASSUME NEW pages \in Seq(Page), NEW k \in Nat
  PROVE  /\ Part(pages, k) \in Seq(Page) /\ Len(Part(pages, k)) <= PagesPerChunk
         /\ k = 0 /\ Len(pages) <= PagesPerChunk => Part(pages, k) = pages
<1> DEFINE start == PagesPerChunk * k
           end == PagesPerChunk * (k + 1)
           upto == IF end < Len(pages) THEN end ELSE Len(pages)
<1>1. start \in Nat /\ end = start + PagesPerChunk /\ Len(pages) \in Nat
  BY NextStart
<1>2. k = 0 => start = 0
  OBVIOUS
<1>3. Part(pages, k) = SubSeq(pages, start + 1, upto)
  BY DEF Part
<1> HIDE DEF start, end
<1>4. start + 1 \in Int /\ upto \in Int /\ upto <= Len(pages) /\ upto <= start + PagesPerChunk
  BY <1>1
<1>5. \A i \in (start + 1) .. upto : pages[i] \in Page
  BY <1>1, <1>4, ElementOfSeq
<1>6. k = 0 /\ Len(pages) <= PagesPerChunk => start + 1 = 1 /\ upto = Len(pages)
  BY <1>1, <1>2
<1> HIDE DEF upto
<1>7. /\ SubSeq(pages, start + 1, upto) \in Seq(Page)
      /\ Len(SubSeq(pages, start + 1, upto)) =
           IF start + 1 <= upto THEN upto - (start + 1) + 1 ELSE 0
  BY <1>4, <1>5, SubSeqProperties
<1>8. Len(Part(pages, k)) <= PagesPerChunk
  BY <1>1, <1>3, <1>4, <1>7
<1>9. SubSeq(pages, 1, Len(pages)) = pages
  OBVIOUS
<1> QED  BY <1>3, <1>6, <1>7, <1>8, <1>9

LEMMA RewrittenType ==
  ASSUME FlashState, NEW c \in Chunk, NEW left \in Seq(Page), NEW pages \in Seq(Page),
         Len(left) <= PagesPerChunk
  PROVE  /\ Rewritten(c, left, pages) \in [Chunk -> Seq(Page)]
         /\ \A e \in Chunk : Len(Rewritten(c, left, pages)[e]) <= PagesPerChunk
         /\ left = << >> /\ Len(pages) <= PagesPerChunk => Rewritten(c, left, pages)[c] = pages
<1> DEFINE has(e) == IF e = c THEN left ELSE chunk[e]
<1>1. ASSUME NEW e \in Chunk
      PROVE  /\ Rewritten(c, left, pages)[e] \in Seq(Page)
             /\ Len(Rewritten(c, left, pages)[e]) <= PagesPerChunk
             /\ e = c /\ left = << >> /\ Len(pages) <= PagesPerChunk =>
                  Rewritten(c, left, pages)[e] = pages
  <2>1. chunk[e] \in Seq(Page) /\ Len(chunk[e]) <= PagesPerChunk /\ e \in Nat /\ c \in Nat
    <3>1. e \in Nat /\ c \in Nat
      BY DEF Chunk
    <3> QED  BY <3>1 DEF FlashState
  <2>2. Rewritten(c, left, pages)[e] =
          IF e < c THEN chunk[e] ELSE Rewrite(has(e), Part(pages, e - c))
    BY DEF Rewritten
  <2>3. has(e) \in Seq(Page) /\ Len(has(e)) <= PagesPerChunk
    BY <2>1
  <2>4. CASE e < c
    BY <2>1, <2>2, <2>4
  <2>5. CASE ~(e < c)
    <3>1. e - c \in Nat /\ (e = c => e - c = 0)
      BY <2>1, <2>5
    <3> DEFINE k == e - c
               part == Part(pages, k)
    <3> HIDE DEF k
    <3>2. /\ part \in Seq(Page) /\ Len(part) <= PagesPerChunk
          /\ k = 0 /\ Len(pages) <= PagesPerChunk => part = pages
      BY <3>1, PartType DEF k
    <3> HIDE DEF part
    <3>3. /\ Rewrite(has(e), part) \in Seq(Page) /\ Len(Rewrite(has(e), part)) <= PagesPerChunk
          /\ has(e) = << >> => Rewrite(has(e), part) = part
      BY <2>3, <3>2, RewriteType
    <3>4. Rewritten(c, left, pages)[e] = Rewrite(has(e), part)
      BY <2>2, <2>5 DEF part, k
    <3> QED  BY <3>1, <3>2, <3>3, <3>4 DEF k
  <2> QED  BY <2>4, <2>5
<1>2. Rewritten(c, left, pages) \in [Chunk -> Seq(Page)]
  <2>1. Rewritten(c, left, pages) = [e \in Chunk |-> Rewritten(c, left, pages)[e]]
    BY DEF Rewritten
  <2> QED  BY <1>1, <2>1
<1> QED  BY <1>1, <1>2

-----------------------------------------------------------------------------
(* Writing a chunk again.                                                  *)

BucketPage == [PageNum : 0 .. (LastPage - 1), data : Data]

LEMMA BucketInChunk ==
  ASSUME FlashState, NEW b \in DOMAIN bucketpages
  PROVE  /\ bucketpages[b] \in BucketPage /\ b \in Nat
         /\ ChunkOf(bucketpages[b].PageNum) \in Chunk
         /\ OffsetOf(bucketpages[b].PageNum) \in 0 .. (PagesPerChunk - 1)
<1>1. /\ bucketpages \in Seq(BucketPage)
      /\ b \in 1 .. Len(bucketpages) /\ b \in Nat
  BY DEF FlashState, BucketPage
<1>2. bucketpages[b] \in BucketPage
  BY <1>1, ElementOfSeq
<1> QED  BY <1>1, <1>2, PageInChunk, ChunkAndOffset DEF BucketPage

\* A bucket has its chunk written again, from what could be read of it unless a
\* command on it has failed; any other chunk that changes counts as failed.
LEMMA WritesChunkKeepsStore ==
  ASSUME FlashInv, NEW b \in DOMAIN bucketpages, NEW d \in Data, NEW c,
         c = ChunkOf(bucketpages[b].PageNum),
         NEW device \in [Chunk -> Seq(Page)], \A e \in Chunk : Len(device[e]) <= PagesPerChunk,
         NEW failed \in SUBSET Chunk, WritesChunk(b, d, device, failed),
         c \notin faulted' => device[c] = TempEntries(b, d)
  PROVE  FlashInv'
<1>1. /\ chunk' = device
      /\ bucketpages' = [bucketpages EXCEPT ![b].data = d]
      /\ UNCHANGED <<sectorpointer, chunkusage, wrapped, refused, flashstatus>>
      /\ faulted \subseteq faulted' /\ faulted' \subseteq Chunk
      /\ \A e \in Chunk \ faulted' : e # c => device[e] = chunk[e]
      /\ chunk \in [Chunk -> Seq(Page)] /\ chunkusage \in [Chunk -> Nat]
      /\ bucketpages \in Seq(BucketPage) /\ FlashState
  BY DEF WritesChunk, FlashInv, FlashState, BucketPage
<1>0. c \in Chunk
  BY <1>1, BucketInChunk
<1> DEFINE left == device[c]
<1>2. FlashState'
  <2>1. bucketpages' \in Seq(BucketPage)
    <3>1. bucketpages[b] \in BucketPage /\ DOMAIN bucketpages = 1 .. Len(bucketpages)
      BY <1>1, BucketInChunk
    <3> DEFINE next == [bucketpages[b] EXCEPT !.data = d]
    <3>2. next \in BucketPage
      BY <3>1 DEF BucketPage
    <3>3. bucketpages' = [bucketpages EXCEPT ![b] = next]
      BY <1>1, <3>1
    <3> HIDE DEF next
    <3>4. bucketpages \in Seq(BucketPage)
      BY <1>1
    <3>5. [bucketpages EXCEPT ![b] = next] \in Seq(BucketPage)
      BY <3>2, <3>4
    <3> QED  BY <3>3, <3>5
  <2>2. chunk' \in [Chunk -> Seq(Page)] /\ \A e \in Chunk : Len(chunk'[e]) <= PagesPerChunk
    BY <1>1
  <2> QED  BY <1>1, <2>1, <2>2 DEF FlashState, BucketPage
<1>3. ASSUME c \notin faulted'
      PROVE  /\ Len(left) = Len(chunk[c]) /\ Len(left) = chunkusage[c]
             /\ \A i \in 1 .. Len(left) :
                  left[i] = IF i = OffsetOf(bucketpages[b].PageNum) + 1 THEN <<b, d>>
                            ELSE chunk[c][i]
  <2>1. chunkusage[c] = Len(chunk[c])
    BY <1>0, <1>1, <1>3 DEF FlashInv, UsageTracksDevice
  <2>2. Len(chunk[c]) \in Nat /\ Len(chunk[c]) <= PagesPerChunk
    BY <1>0, <1>1 DEF FlashState
  <2>3. left = TempEntries(b, d)
    BY <1>3
  <2>4. /\ Len(left) = chunkusage[c]
        /\ \A i \in 1 .. chunkusage[c] : i <= PagesPerChunk =>
             left[i] = IF i = OffsetOf(bucketpages[b].PageNum) + 1 THEN <<b, d>>
                       ELSE IF i <= Len(chunk[c]) THEN chunk[c][i] ELSE Blank
    BY <1>1, <2>3, TempEntriesType
  <2> HIDE DEF left
  <2>5. Len(left) = Len(chunk[c]) /\ Len(left) = chunkusage[c]
    BY <2>1, <2>4
  <2>6. ASSUME NEW i \in 1 .. Len(left)
        PROVE  left[i] = IF i = OffsetOf(bucketpages[b].PageNum) + 1 THEN <<b, d>>
                         ELSE chunk[c][i]
    <3>1. i <= PagesPerChunk /\ i <= Len(chunk[c]) /\ i \in 1 .. chunkusage[c]
      BY <2>2, <2>5
    <3> QED  BY <2>4, <3>1
  <2> QED  BY <2>5, <2>6 DEF left
<1> HIDE DEF left
<1>8. ASSUME NEW e \in Chunk \ faulted' PROVE e \notin faulted /\ Len(chunk'[e]) = Len(chunk[e])
  <2>1. CASE e = c
    BY <1>1, <1>3, <2>1 DEF left
  <2>2. CASE e # c
    BY <1>1, <2>2
  <2> QED  BY <1>1, <2>1, <2>2
<1>4. UsageTracksDevice'
  BY <1>1, <1>8 DEF FlashInv, UsageTracksDevice
<1>5. FilledInOrder' /\ CountedInOrder'
  BY <1>1, <1>8 DEF FlashInv, FilledInOrder, CountedInOrder, Filled
<1>6. StopsBehindErased'
  BY <1>1 DEF FlashInv, StopsBehindErased
<1>7. PagesReadBack'
  <2> SUFFICES ASSUME NEW a \in DOMAIN bucketpages',
                      ChunkOf(bucketpages'[a].PageNum) \notin faulted',
                      ~wrapped \/ (ChunkOf(bucketpages'[a].PageNum) >= ErasedChunks /\ ~refused)
               PROVE  LET page == bucketpages'[a].PageNum
                          e == ChunkOf(page)
                      IN  /\ OffsetOf(page) < Len(chunk'[e])
                          /\ chunk'[e][OffsetOf(page) + 1] = <<a, bucketpages'[a].data>>
    BY <1>1 DEF PagesReadBack
  <2> DEFINE page == bucketpages[a].PageNum
             e == ChunkOf(page)
  <2>1. /\ a \in DOMAIN bucketpages /\ bucketpages'[a].PageNum = page
        /\ bucketpages'[a].data = IF a = b THEN d ELSE bucketpages[a].data
    BY <1>1, BucketInChunk DEF BucketPage
  <2>2. e \in Chunk /\ OffsetOf(page) \in 0 .. (PagesPerChunk - 1) /\ a \in Nat
    BY <1>1, <2>1, BucketInChunk
  <2>6. e \notin faulted' /\ e \notin faulted
    BY <1>1, <2>1
  <2>3. OffsetOf(page) < Len(chunk[e]) /\ chunk[e][OffsetOf(page) + 1] = <<a, bucketpages[a].data>>
    BY <2>1, <2>6 DEF FlashInv, PagesReadBack
  <2>4. CASE e # c
    <3>1. chunk'[e] = chunk[e] /\ a # b
      BY <1>1, <2>2, <2>4, <2>6
    <3> QED  BY <2>1, <2>3, <3>1
  <2>5. CASE e = c
    <3>1. c \notin faulted' /\ c \notin faulted /\ chunk'[e] = left
      BY <1>1, <2>5, <2>6 DEF left
    <3>2. Len(chunk[c]) \in Nat
      BY <1>0, <1>1
    <3>3. OffsetOf(page) + 1 \in 1 .. Len(left) /\ OffsetOf(page) < Len(left)
      BY <1>3, <2>2, <2>3, <2>5, <3>1, <3>2
    <3>4. CASE a = b
      BY <1>3, <2>1, <3>1, <3>3, <3>4
    <3>5. CASE a # b
      <4>1. OffsetOf(page) # OffsetOf(bucketpages[b].PageNum)
        <5>1. ~wrapped \/ (c >= ErasedChunks /\ ~refused)
          BY <2>1, <2>5
        <5>2. chunk[c][OffsetOf(bucketpages[b].PageNum) + 1] = <<b, bucketpages[b].data>>
          BY <1>1, <3>1, <5>1 DEF FlashInv, PagesReadBack
        <5> QED  BY <2>3, <2>5, <3>5, <5>2
      <4>2. OffsetOf(bucketpages[b].PageNum) \in Nat
        BY <1>1, BucketInChunk
      <4> QED  BY <1>3, <2>1, <2>2, <2>3, <2>5, <3>1, <3>3, <3>5, <4>1, <4>2
    <3> QED  BY <3>4, <3>5
  <2> QED  BY <2>1, <2>4, <2>5
<1> QED  BY <1>2, <1>4, <1>5, <1>6, <1>7 DEF FlashInv

LEMMA UpdateKeepsStore ==
  ASSUME FlashInv, NEW b \in DOMAIN bucketpages, NEW d \in Data,
         PageUpdate(b, d) \/ PageUpdateFails(b, d)
  PROVE  FlashInv'
<1> DEFINE c == ChunkOf(bucketpages[b].PageNum)
           pages == TempEntries(b, d)
           device == Rewritten(c, erasechunk(c), pages)
<1>1. /\ FlashState /\ c \in Chunk /\ {} \in SUBSET Chunk /\ {c} \in SUBSET Chunk
      /\ chunk[c] \in Seq(Page) /\ Len(chunk[c]) <= PagesPerChunk
  <2>1. FlashState
    BY DEF FlashInv
  <2>2. c \in Chunk
    BY <2>1, BucketInChunk
  <2> QED  BY <2>1, <2>2 DEF FlashState
<1>2. pages \in Seq(Page) /\ Len(pages) = chunkusage[c]
  BY <1>1, TempEntriesType
<1> HIDE DEF c, pages
<1>3. erasechunk(c) \in Seq(Page) /\ Len(erasechunk(c)) <= PagesPerChunk
      /\ (chunkusage[c] = Len(chunk[c]) => erasechunk(c) = << >>)
  BY <1>1, ErasedChunkIsEmpty
<1>4. /\ device \in [Chunk -> Seq(Page)] /\ \A e \in Chunk : Len(device[e]) <= PagesPerChunk
      /\ erasechunk(c) = << >> /\ Len(pages) <= PagesPerChunk => device[c] = pages
  BY <1>1, <1>2, <1>3, RewrittenType
<1>5. c \notin faulted => device[c] = pages
  <2> SUFFICES ASSUME c \notin faulted PROVE device[c] = pages
    OBVIOUS
  <2>1. chunkusage[c] = Len(chunk[c])
    BY <1>1 DEF FlashInv, UsageTracksDevice
  <2> QED  BY <1>1, <1>2, <1>3, <1>4, <2>1
<1> HIDE DEF device
<1>6. CASE PageUpdate(b, d)
  <2>1. WritesChunk(b, d, device, {})
    BY <1>6 DEF PageUpdate, device, pages, c
  <2>2. c \notin faulted' => c \notin faulted
    BY <2>1 DEF WritesChunk
  <2> QED  BY <1>1, <1>4, <1>5, <2>1, <2>2, WritesChunkKeepsStore DEF c, pages
<1>7. CASE \E held \in EraseFails(c) : WritesChunk(b, d, Rewritten(c, held, pages), {c})
  <2>1. PICK held \in EraseFails(c) : WritesChunk(b, d, Rewritten(c, held, pages), {c})
    BY <1>7
  <2>2. held \in Seq(Page) /\ Len(held) <= PagesPerChunk
    BY <1>1, EraseFailsType
  <2> DEFINE got == Rewritten(c, held, pages)
  <2>3. got \in [Chunk -> Seq(Page)] /\ \A e \in Chunk : Len(got[e]) <= PagesPerChunk
    BY <1>1, <1>2, <2>2, RewrittenType
  <2>4. WritesChunk(b, d, got, {c})
    BY <2>1
  <2>5. c \in faulted'
    BY <2>4 DEF WritesChunk
  <2> HIDE DEF got
  <2> QED  BY <1>1, <2>3, <2>4, <2>5, WritesChunkKeepsStore DEF c, pages
<1>8. ASSUME NEW e \in Chunk, NEW n, n \in Nat, n <= Len(device[e]),
             WritesChunk(b, d, [device EXCEPT ![e] = SubSeq(@, 1, n)], {e})
      PROVE  FlashInv'
  <2> DEFINE there == device[e]
             short == SubSeq(there, 1, n)
             got == [device EXCEPT ![e] = short]
  <2>1. there \in Seq(Page) /\ Len(there) <= PagesPerChunk /\ Len(there) \in Nat /\ n <= Len(there)
    BY <1>4, <1>8
  <2> HIDE DEF there
  <2>2. short \in Seq(Page) /\ Len(short) = n
    <3>1. \A i \in 1 .. n : there[i] \in Page
      BY <1>8, <2>1, ElementOfSeq
    <3> QED  BY <1>8, <3>1, SubSeqProperties
  <2>3. Len(short) <= PagesPerChunk
    BY <1>8, <2>1, <2>2
  <2>4. WritesChunk(b, d, got, {e})
    BY <1>4, <1>8 DEF there
  <2> HIDE DEF short
  <2>5. got \in [Chunk -> Seq(Page)] /\ \A f \in Chunk : Len(got[f]) <= PagesPerChunk
    BY <1>4, <2>2, <2>3
  <2>6. c \notin faulted' => c \notin faulted /\ got[c] = device[c]
    <3>1. e \in faulted' /\ faulted \subseteq faulted'
      BY <2>4 DEF WritesChunk
    <3> QED  BY <1>1, <1>4, <3>1
  <2> HIDE DEF got
  <2> QED  BY <1>1, <1>5, <2>4, <2>5, <2>6, {e} \in SUBSET Chunk, WritesChunkKeepsStore DEF c, pages
<1>9. CASE PageUpdateFails(b, d)
  <2>1. \/ \E held \in EraseFails(c) : WritesChunk(b, d, Rewritten(c, held, pages), {c})
        \/ \E e \in Chunk :
             \E n \in Len(IF e = c THEN erasechunk(c) ELSE chunk[e]) .. (Len(device[e]) - 1) :
               WritesChunk(b, d, [device EXCEPT ![e] = SubSeq(@, 1, n)], {e})
    BY <1>9 DEF PageUpdateFails, device, pages, c
  <2>2. ASSUME NEW e \in Chunk,
               NEW n \in Len(IF e = c THEN erasechunk(c) ELSE chunk[e]) .. (Len(device[e]) - 1)
        PROVE  n \in Nat /\ n <= Len(device[e])
    <3> DEFINE first == Len(IF e = c THEN erasechunk(c) ELSE chunk[e])
    <3>1. first \in Nat
      BY <1>1, <1>3 DEF FlashState
    <3>2. Len(device[e]) \in Nat
      BY <1>4
    <3> HIDE DEF first
    <3>3. n \in first .. (Len(device[e]) - 1)
      BY DEF first
    <3> QED  BY <3>1, <3>2, <3>3
  <2> QED  BY <1>7, <1>8, <2>1, <2>2
<1> QED  BY <1>6, <1>9

-----------------------------------------------------------------------------
(* The chunk of the pointer.                                               *)

LEMMA PointerInChunk ==
  ASSUME NEW p \in 0 .. (LastPage - 1)
  PROVE  /\ ChunkOf(p) \in Chunk /\ OffsetOf(p) \in 0 .. (PagesPerChunk - 1)
         /\ Filled(ChunkOf(p), p) = OffsetOf(p)
         /\ Filled(ChunkOf(p), p + 1) = OffsetOf(p) + 1
         /\ Filled(ChunkOf(p), LastPage) > OffsetOf(p)
         /\ \A e \in Chunk \ {ChunkOf(p)} : Filled(e, p + 1) = Filled(e, p)
<1> DEFINE c == ChunkOf(p)
           start == PagesPerChunk * c
<1>1. p \in Nat /\ c \in Nat /\ c \in Chunk /\ OffsetOf(p) \in 0 .. (PagesPerChunk - 1)
      /\ p = start + OffsetOf(p)
  BY ChunkAndOffset, PageInChunk
<1>2. start \in Nat /\ PagesPerChunk * (c + 1) = start + PagesPerChunk
  BY <1>1, NextStart
<1>3. ASSUME NEW e \in Chunk \ {c}
      PROVE  Filled(e, p + 1) = Filled(e, p)
  <2> DEFINE se == PagesPerChunk * e
  <2>1. e \in Nat
    BY DEF Chunk
  <2>2. se \in Nat /\ PagesPerChunk * (e + 1) = se + PagesPerChunk
    BY <2>1, NextStart
  <2>3. ~(se <= p /\ p < se + PagesPerChunk)
    BY <1>1, <2>1, ChunkIsUnique
  <2>4. Filled(e, p) = (IF p <= se THEN 0 ELSE IF p >= se + PagesPerChunk THEN PagesPerChunk
                        ELSE p - se)
    BY <2>2 DEF Filled
  <2>5. Filled(e, p + 1) = (IF p + 1 <= se THEN 0
                            ELSE IF p + 1 >= se + PagesPerChunk THEN PagesPerChunk
                            ELSE p + 1 - se)
    BY <2>2 DEF Filled
  <2> HIDE DEF se
  <2> QED  BY <1>1, <2>2, <2>3, <2>4, <2>5
<1>4. \A q : Filled(c, q) = (IF q <= start THEN 0 ELSE IF q >= start + PagesPerChunk THEN PagesPerChunk
                        ELSE q - start)
  BY <1>2 DEF Filled
<1> HIDE DEF start
<1>5. Filled(c, p) = OffsetOf(p) /\ Filled(c, p + 1) = OffsetOf(p) + 1
      /\ Filled(c, LastPage) > OffsetOf(p)
  BY <1>1, <1>2, <1>4
<1> QED  BY <1>1, <1>3, <1>5

LEMMA FilledWithin ==
  ASSUME NEW p \in Nat, NEW c \in Chunk
  PROVE  Filled(c, p) <= PagesPerChunk
<1> DEFINE start == PagesPerChunk * c
<1>1. c \in Nat
  BY DEF Chunk
<1>2. start \in Nat /\ PagesPerChunk * (c + 1) = start + PagesPerChunk
  BY <1>1, NextStart
<1>3. Filled(c, p) = (IF p <= start THEN 0 ELSE IF p >= start + PagesPerChunk THEN PagesPerChunk
                      ELSE p - start)
  BY <1>2 DEF Filled
<1> HIDE DEF start
<1> QED  BY <1>2, <1>3

\* Below the erased chunks or behind them.
LEMMA PointerAndErased ==
  ASSUME NEW p \in 0 .. (LastPage - 1)
  PROVE  /\ ChunkOf(p) < ErasedChunks <=> p < PagesPerChunk * ErasedChunks
         /\ ChunkOf(LastPage - 1) \notin 0 .. (ErasedChunks - 1)
         /\ ChunkOf(LastPage - 1) >= ErasedChunks
         /\ PagesPerChunk * ErasedChunks \in Nat
<1> DEFINE c == ChunkOf(p)
           start == PagesPerChunk * c
           border == PagesPerChunk * ErasedChunks
<1>1. p \in Nat /\ c \in Nat /\ OffsetOf(p) \in 0 .. (PagesPerChunk - 1)
      /\ p = start + OffsetOf(p)
  BY ChunkAndOffset
<1>2. start \in Nat /\ border \in Nat /\ PagesPerChunk * (c + 1) = start + PagesPerChunk
  BY <1>1, NextStart
<1>3. c < ErasedChunks => start + PagesPerChunk <= border
  <2>1. c < ErasedChunks => c + 1 <= ErasedChunks /\ c + 1 \in Nat
    BY <1>1
  <2> QED  BY <1>2, <2>1, StartsAscend
<1>4. ErasedChunks <= c => border <= start
  BY <1>1, StartsAscend
<1> HIDE DEF start, border, c
<1>5. c < ErasedChunks <=> p < border
  BY <1>1, <1>2, <1>3, <1>4
<1>6. ChunkOf(LastPage - 1) >= ErasedChunks /\ ChunkOf(LastPage - 1) \in Nat
  BY ErasedBeforeEnd, ChunkAndOffset, LastPage - 1 \in Nat
<1> QED  BY <1>2, <1>5, <1>6 DEF border, c

\* A page the pointer names is refused only after the pointer has started over, and
\* behind the chunks that were erased; there it is not taken.
LEMMA WhoIsRefused ==
  ASSUME FlashInv, NEW c, c = ChunkOf(sectorpointer), c \notin faulted
  PROVE  Accepts(sectorpointer) <=> ~wrapped \/ c < ErasedChunks
<1>1. /\ sectorpointer \in 0 .. (LastPage - 1) /\ chunk[c] \in Seq(Page) /\ c \in Chunk
      /\ c \in Nat
  BY PointerInChunk, ChunkAndOffset DEF FlashInv, FlashState
<1>2. Len(chunk[c]) = Filled(c, IF wrapped /\ c >= ErasedChunks THEN LastPage ELSE sectorpointer)
  BY <1>1 DEF FlashInv, FilledInOrder
<1>3. Filled(c, sectorpointer) = OffsetOf(sectorpointer) /\ OffsetOf(sectorpointer) \in Nat
      /\ Filled(c, LastPage) > OffsetOf(sectorpointer)
  BY <1>1, PointerInChunk
<1>4. CASE wrapped /\ c >= ErasedChunks
  BY <1>1, <1>2, <1>3, <1>4 DEF Accepts
<1>5. CASE ~(wrapped /\ c >= ErasedChunks)
  BY <1>1, <1>2, <1>3, <1>5 DEF Accepts
<1> QED  BY <1>4, <1>5

-----------------------------------------------------------------------------
(* A bucket gets its page.                                                 *)

LEMMA BucketsAfter ==
  ASSUME FlashState, NEW d \in Data, GetsPage(d)
  PROVE  /\ bucketpages' \in Seq(BucketPage)
         /\ DOMAIN bucketpages' = 1 .. (Len(bucketpages) + 1)
         /\ DOMAIN bucketpages = 1 .. Len(bucketpages) /\ Len(bucketpages) \in Nat
         /\ \A b \in 1 .. Len(bucketpages) : bucketpages'[b] = bucketpages[b]
         /\ bucketpages'[Len(bucketpages) + 1] = [PageNum |-> sectorpointer, data |-> d]
         /\ flashstatus' = flashstatus
<1>1. bucketpages \in Seq(BucketPage) /\ [PageNum |-> sectorpointer, data |-> d] \in BucketPage
  BY DEF FlashState, BucketPage
<1> QED  BY <1>1 DEF GetsPage

\* The device does not take the page, or the command fails: only the bucket knows.
LEMMA NotTakenKeepsStore ==
  ASSUME FlashInv, NEW d \in Data, GetsPage(d),
         UNCHANGED <<sectorpointer, chunkusage, chunk, wrapped>>,
         \/ faulted' = faulted \cup {ChunkOf(sectorpointer)} /\ refused' = refused
         \/ /\ ~Accepts(sectorpointer) /\ faulted' = faulted
            /\ refused' = (refused \/ ChunkOf(sectorpointer) \notin faulted)
  PROVE  FlashInv'
<1> DEFINE c == ChunkOf(sectorpointer)
<1>0. /\ FlashState /\ sectorpointer \in 0 .. (LastPage - 1) /\ sectorpointer \in Nat
      /\ faulted \subseteq Chunk /\ refused \in BOOLEAN /\ wrapped \in BOOLEAN
  BY DEF FlashInv, FlashState
<1>1. FlashState /\ sectorpointer \in 0 .. (LastPage - 1) /\ c \in Chunk /\ c \in Nat
      /\ faulted \subseteq faulted' /\ faulted' \subseteq Chunk
      /\ refused \in BOOLEAN /\ refused' \in BOOLEAN /\ wrapped \in BOOLEAN
  BY <1>0, PointerInChunk, ChunkAndOffset
<1> DEFINE last == Len(bucketpages) + 1
<1>7. /\ bucketpages' \in Seq(BucketPage)
      /\ DOMAIN bucketpages' = 1 .. last
      /\ DOMAIN bucketpages = 1 .. Len(bucketpages) /\ Len(bucketpages) \in Nat
      /\ \A b \in 1 .. Len(bucketpages) : bucketpages'[b] = bucketpages[b]
      /\ bucketpages'[last] = [PageNum |-> sectorpointer, data |-> d]
      /\ flashstatus' = flashstatus
  BY <1>1, BucketsAfter
<1>2. FlashState'
  BY <1>1, <1>7 DEF FlashState, BucketPage
<1>3. UsageTracksDevice' /\ FilledInOrder' /\ CountedInOrder'
  BY <1>1 DEF FlashInv, UsageTracksDevice, FilledInOrder, CountedInOrder, Filled
<1>4. refused' # refused => /\ refused' /\ c \notin faulted /\ faulted' = faulted
                            /\ wrapped /\ c >= ErasedChunks
  <2>1. c \notin faulted => (Accepts(sectorpointer) <=> ~wrapped \/ c < ErasedChunks)
    BY WhoIsRefused
  <2> QED  BY <1>1, <2>1
<1>5. StopsBehindErased'
  <2> DEFINE border == PagesPerChunk * ErasedChunks
  <2>1. c >= ErasedChunks => ~(sectorpointer < border)
    BY <1>1, PointerAndErased
  <2>2. border \in Nat
    BY <1>1, PointerAndErased
  <2>3. faulted' = {} => faulted = {}
    BY <1>1
  <2>4. StopsBehindErased <=>
          (faulted = {} => /\ wrapped => sectorpointer <= border
                           /\ refused => wrapped /\ sectorpointer = border)
    BY DEF StopsBehindErased
  <2>5. StopsBehindErased' <=>
          (faulted' = {} => /\ wrapped => sectorpointer <= border
                            /\ refused' => wrapped /\ sectorpointer = border)
    BY DEF StopsBehindErased
  <2> HIDE DEF border
  <2> QED  BY <1>1, <1>4, <2>1, <2>2, <2>3, <2>4, <2>5 DEF FlashInv
<1>6. PagesReadBack'
  <2> SUFFICES ASSUME NEW a \in DOMAIN bucketpages',
                      ChunkOf(bucketpages'[a].PageNum) \notin faulted',
                      ~wrapped \/ (ChunkOf(bucketpages'[a].PageNum) >= ErasedChunks /\ ~refused')
               PROVE  LET page == bucketpages'[a].PageNum
                          e == ChunkOf(page)
                      IN  /\ OffsetOf(page) < Len(chunk[e])
                          /\ chunk[e][OffsetOf(page) + 1] = <<a, bucketpages'[a].data>>
    BY DEF PagesReadBack
  <2>1. CASE a = last
    <3>1. bucketpages'[a].PageNum = sectorpointer
      BY <1>7, <2>1
    <3>2. c \notin faulted' /\ (~wrapped \/ (c >= ErasedChunks /\ ~refused'))
      BY <3>1
    <3>3. ~Accepts(sectorpointer) /\ faulted' = faulted /\ refused'
      BY <3>2
    <3> QED  BY <1>1, <3>2, <3>3, WhoIsRefused
  <2>2. CASE a \in 1 .. Len(bucketpages)
    <3>1. bucketpages'[a] = bucketpages[a] /\ a \in DOMAIN bucketpages
      BY <1>7, <2>2
    <3>2. refused => refused'
      BY <1>1
    <3> QED  BY <1>1, <3>1, <3>2 DEF FlashInv, PagesReadBack
  <2> QED  BY <1>7, <2>1, <2>2
<1> QED  BY <1>2, <1>3, <1>5, <1>6 DEF FlashInv

\* The chunks that are empty once they have been erased: all without a failed command.
Emptied(erased) ==
  \A e \in DOMAIN erased : /\ erased[e] \in Seq(Page) /\ Len(erased[e]) <= PagesPerChunk
                           /\ e \notin faulted' => erased[e] = << >>

\* The device takes the page, and the chunks are erased if the pointer starts over.
LEMMA TakenKeepsStore ==
  ASSUME FlashInv, NEW d \in Data, GetsPage(d), Accepts(sectorpointer), UNCHANGED refused,
         NEW erased, NEW device,
         device = [chunk EXCEPT ![ChunkOf(sectorpointer)] =
                     Append(@, <<Len(bucketpages) + 1, d>>)],
         Renewed(device, erased),
         faulted \subseteq faulted', faulted' \subseteq Chunk,
         \/ sectorpointer + 1 < LastPage /\ DOMAIN erased = {}
         \/ sectorpointer + 1 >= LastPage /\ DOMAIN erased = 0 .. (ErasedChunks - 1),
         Emptied(erased)
  PROVE  FlashInv'
<1>0. \A e \in DOMAIN erased :
        /\ erased[e] \in Seq(Page) /\ Len(erased[e]) <= PagesPerChunk
        /\ e \notin faulted' => erased[e] = << >>
  BY DEF Emptied
<1> DEFINE c == ChunkOf(sectorpointer)
           last == Len(bucketpages) + 1
           starts == sectorpointer + 1 >= LastPage
<1>1. /\ FlashState /\ sectorpointer \in 0 .. (LastPage - 1) /\ sectorpointer \in Nat
      /\ refused \in BOOLEAN /\ wrapped \in BOOLEAN
      /\ chunk \in [Chunk -> Seq(Page)] /\ chunkusage \in [Chunk -> Nat]
      /\ \A e \in Chunk : Len(chunk[e]) <= PagesPerChunk /\ Len(chunk[e]) \in Nat
      /\ faulted \subseteq Chunk
  BY DEF FlashInv, FlashState
<1>2. /\ c \in Chunk /\ c \in Nat /\ OffsetOf(sectorpointer) \in 0 .. (PagesPerChunk - 1)
      /\ Filled(c, sectorpointer + 1) = OffsetOf(sectorpointer) + 1
      /\ \A e \in Chunk \ {c} : Filled(e, sectorpointer + 1) = Filled(e, sectorpointer)
      /\ Len(chunk[c]) = OffsetOf(sectorpointer)
  BY <1>1, PointerInChunk, ChunkAndOffset DEF Accepts
<1>3. /\ bucketpages' \in Seq(BucketPage)
      /\ DOMAIN bucketpages' = 1 .. last
      /\ DOMAIN bucketpages = 1 .. Len(bucketpages) /\ Len(bucketpages) \in Nat
      /\ \A b \in 1 .. Len(bucketpages) : bucketpages'[b] = bucketpages[b]
      /\ bucketpages'[last] = [PageNum |-> sectorpointer, data |-> d]
      /\ flashstatus' = flashstatus
  BY <1>1, BucketsAfter
<1>4. /\ starts => /\ sectorpointer = LastPage - 1 /\ sectorpointer' = 0 /\ wrapped'
                   /\ c \notin DOMAIN erased /\ c >= ErasedChunks
                   /\ DOMAIN erased = 0 .. (ErasedChunks - 1)
      /\ ~starts => /\ sectorpointer' = sectorpointer + 1 /\ wrapped' = wrapped
                    /\ DOMAIN erased = {}
  <2>1. starts => sectorpointer = LastPage - 1
    BY <1>1
  <2>2. /\ sectorpointer' = (IF sectorpointer + 1 < LastPage THEN sectorpointer + 1 ELSE 0)
        /\ wrapped' = (wrapped \/ starts)
    BY DEF Renewed
  <2>3. ChunkOf(LastPage - 1) >= ErasedChunks /\ ChunkOf(LastPage - 1) \notin 0 .. (ErasedChunks - 1)
    BY <1>1, PointerAndErased
  <2>4. starts => c >= ErasedChunks /\ c \notin 0 .. (ErasedChunks - 1)
    BY <2>1, <2>3
  <2>5. starts => wrapped'
    BY <2>2
  <2>6. ~starts => wrapped' = wrapped
    BY <1>1, <2>2
  <2>7. starts => sectorpointer' = 0
    BY <1>1, <2>2
  <2>8. ~starts => sectorpointer' = sectorpointer + 1
    BY <1>1, <2>2
  <2>9. (starts => DOMAIN erased = 0 .. (ErasedChunks - 1)) /\ (~starts => DOMAIN erased = {})
    BY <1>1
  <2> HIDE DEF c, starts
  <2> QED  BY <2>1, <2>4, <2>5, <2>6, <2>7, <2>8, <2>9
<1>5. /\ chunkusage' = [e \in Chunk |->
           IF e \in DOMAIN erased THEN 0
           ELSE IF e = c THEN chunkusage[e] + 1 ELSE chunkusage[e]]
      /\ chunk' = [e \in Chunk |-> IF e \in DOMAIN erased THEN erased[e] ELSE device[e]]
      /\ c \notin DOMAIN erased /\ DOMAIN erased \subseteq Chunk
      /\ \A e \in DOMAIN erased : starts /\ e < ErasedChunks
  BY <1>4, ErasedBeforeEnd DEF Renewed
<1>6. /\ device[c] \in Seq(Page) /\ Len(device[c]) = Len(chunk[c]) + 1
      /\ Len(device[c]) <= PagesPerChunk
      /\ \A i \in 1 .. Len(chunk[c]) : device[c][i] = chunk[c][i]
      /\ device[c][Len(chunk[c]) + 1] = <<last, d>>
      /\ \A e \in Chunk \ {c} : device[e] = chunk[e]
  <2>1. <<last, d>> \in Page
    BY <1>3 DEF Page
  <2>2. device[c] = Append(chunk[c], <<last, d>>) /\ \A e \in Chunk \ {c} : device[e] = chunk[e]
    BY <1>1, <1>2
  <2> QED  BY <1>1, <1>2, <2>1, <2>2
<1>7. c \notin faulted /\ wrapped => c < ErasedChunks
  BY WhoIsRefused
<1> HIDE DEF c, last
<1>8. FlashState'
  <2>1. sectorpointer' \in 0 .. (LastPage - 1) /\ wrapped' \in BOOLEAN
    BY <1>1, <1>4 DEF Renewed
  <2>2. chunkusage' \in [Chunk -> Nat]
    BY <1>1, <1>5
  <2>3. chunk' \in [Chunk -> Seq(Page)] /\ \A e \in Chunk : Len(chunk'[e]) <= PagesPerChunk
    <3>1. ASSUME NEW e \in Chunk
          PROVE  chunk'[e] \in Seq(Page) /\ Len(chunk'[e]) <= PagesPerChunk
      <4>1. CASE e \in DOMAIN erased
        BY <1>0, <1>5, <4>1
      <4>2. CASE e \notin DOMAIN erased
        BY <1>1, <1>5, <1>6, <4>2
      <4> QED  BY <4>1, <4>2
    <3> QED  BY <1>5, <3>1
  <2> QED  BY <1>1, <1>3, <2>1, <2>2, <2>3 DEF FlashState, BucketPage
<1>9. UsageTracksDevice'
  <2> SUFFICES ASSUME NEW e \in Chunk \ faulted' PROVE chunkusage'[e] = Len(chunk'[e])
    BY DEF UsageTracksDevice, Chunk
  <2>1. chunkusage[e] = Len(chunk[e])
    BY DEF FlashInv, UsageTracksDevice
  <2>2. CASE e \in DOMAIN erased
    BY <1>0, <1>5, <2>2
  <2>3. CASE e \notin DOMAIN erased /\ e = c
    BY <1>1, <1>2, <1>5, <1>6, <2>1, <2>3
  <2>4. CASE e \notin DOMAIN erased /\ e # c
    BY <1>5, <1>6, <2>1, <2>4
  <2> QED  BY <2>2, <2>3, <2>4
<1>10. FilledInOrder'
  <2> SUFFICES ASSUME NEW e \in Chunk \ faulted'
               PROVE  Len(chunk'[e]) =
                        Filled(e, IF wrapped' /\ e >= ErasedChunks THEN LastPage ELSE sectorpointer')
    BY DEF FilledInOrder, Chunk, Filled
  <2>1. Len(chunk[e]) =
          Filled(e, IF wrapped /\ e >= ErasedChunks THEN LastPage ELSE sectorpointer)
    BY DEF FlashInv, FilledInOrder
  <2>2. e \in Nat /\ PagesPerChunk * e \in Nat
    <3>1. e \in Nat
      BY DEF Chunk
    <3> QED  BY <3>1, NextStart
  <2>3. CASE e \in DOMAIN erased
    <3>1. sectorpointer' = 0 /\ e < ErasedChunks /\ chunk'[e] = << >>
      BY <1>0, <1>4, <1>5, <2>3
    <3>2. Filled(e, 0) = 0
      BY <2>2 DEF Filled
    <3> QED  BY <2>2, <3>1, <3>2
  <2>4. CASE e \notin DOMAIN erased /\ e = c
    <3>1. Len(chunk'[e]) = Filled(e, sectorpointer + 1)
      BY <1>2, <1>5, <1>6, <2>4
    <3>2. CASE starts
      BY <1>1, <1>4, <2>4, <3>1, <3>2
    <3>3. CASE ~starts
      BY <1>2, <1>4, <1>7, <2>4, <3>1, <3>3
    <3> QED  BY <3>2, <3>3
  <2>5. CASE e \notin DOMAIN erased /\ e # c
    <3>1. Len(chunk'[e]) = Len(chunk[e]) /\ Filled(e, sectorpointer + 1) = Filled(e, sectorpointer)
      BY <1>2, <1>5, <1>6, <2>5
    <3>2. CASE starts
      <4>1. e >= ErasedChunks /\ sectorpointer + 1 = LastPage
        BY <1>1, <1>4, <2>2, <2>5, <3>2
      <4> QED  BY <1>4, <2>1, <3>1, <3>2, <4>1
    <3>3. CASE ~starts
      BY <1>4, <2>1, <3>1, <3>3
    <3> QED  BY <3>2, <3>3
  <2> QED  BY <2>3, <2>4, <2>5
<1>13. CountedInOrder'
  <2> SUFFICES ASSUME NEW e \in Chunk, ~wrapped' \/ e < ErasedChunks
               PROVE  chunkusage'[e] = Filled(e, sectorpointer')
    BY DEF CountedInOrder, Chunk, Filled
  <2>1. e \in Nat /\ PagesPerChunk * e \in Nat
    <3>1. e \in Nat
      BY DEF Chunk
    <3> QED  BY <3>1, NextStart
  <2>2. CASE starts
    <3>1. e \in DOMAIN erased /\ sectorpointer' = 0
      BY <1>4, <2>1, <2>2
    <3>2. Filled(e, 0) = 0
      BY <2>1 DEF Filled
    <3> QED  BY <1>5, <3>1, <3>2
  <2>3. CASE ~starts
    <3>1. e \notin DOMAIN erased /\ sectorpointer' = sectorpointer + 1 /\ wrapped' = wrapped
      BY <1>4, <2>3
    <3>2. chunkusage[e] = Filled(e, sectorpointer)
      BY <3>1 DEF FlashInv, CountedInOrder
    <3>3. CASE e = c
      <4>1. Filled(c, sectorpointer) = OffsetOf(sectorpointer)
        BY <1>1, PointerInChunk DEF c
      <4> QED  BY <1>2, <1>5, <3>1, <3>2, <3>3, <4>1
    <3>4. CASE e # c
      BY <1>2, <1>5, <3>1, <3>2, <3>4
    <3> QED  BY <3>3, <3>4
  <2> QED  BY <2>2, <2>3
<1>11. StopsBehindErased'
  <2> DEFINE border == PagesPerChunk * ErasedChunks
  <2>1. c < ErasedChunks <=> sectorpointer < border
    BY <1>1, PointerAndErased DEF c
  <2>2. border \in Nat
    BY <1>1, PointerAndErased
  <2>3. faulted' = {} => faulted = {}
    OBVIOUS
  <2>4. StopsBehindErased <=>
          (faulted = {} => /\ wrapped => sectorpointer <= border
                           /\ refused => wrapped /\ sectorpointer = border)
    BY DEF StopsBehindErased
  <2>5. StopsBehindErased' <=>
          (faulted' = {} => /\ wrapped' => sectorpointer' <= border
                            /\ refused' => wrapped' /\ sectorpointer' = border)
    BY DEF StopsBehindErased
  <2> HIDE DEF border, starts
  <2> QED  BY <1>1, <1>2, <1>4, <1>7, <2>1, <2>2, <2>3, <2>4, <2>5 DEF FlashInv
<1>12. PagesReadBack'
  <2> SUFFICES ASSUME NEW a \in DOMAIN bucketpages',
                      ChunkOf(bucketpages'[a].PageNum) \notin faulted',
                      \/ ~wrapped'
                      \/ ChunkOf(bucketpages'[a].PageNum) >= ErasedChunks /\ ~refused
               PROVE  LET page == bucketpages'[a].PageNum
                          e == ChunkOf(page)
                      IN  /\ OffsetOf(page) < Len(chunk'[e])
                          /\ chunk'[e][OffsetOf(page) + 1] = <<a, bucketpages'[a].data>>
    BY DEF PagesReadBack
  <2>1. CASE a = last
    <3>1. bucketpages'[a].PageNum = sectorpointer /\ bucketpages'[a].data = d
      BY <1>3, <2>1
    <3>2. chunk'[c] = device[c]
      BY <1>2, <1>5
    <3>3. ChunkOf(sectorpointer) = c
      BY DEF c
    <3>4. /\ OffsetOf(sectorpointer) < Len(device[c])
          /\ device[c][OffsetOf(sectorpointer) + 1] = <<a, d>>
      <4>1. Len(chunk[c]) = OffsetOf(sectorpointer) /\ OffsetOf(sectorpointer) \in Nat
        BY <1>2
      <4>2. Len(device[c]) = OffsetOf(sectorpointer) + 1
        BY <1>6, <4>1
      <4>3. device[c][OffsetOf(sectorpointer) + 1] = <<a, d>>
        BY <1>6, <2>1, <4>1
      <4> QED  BY <4>1, <4>2, <4>3
    <3> HIDE DEF c
    <3>5. ChunkOf(bucketpages'[a].PageNum) = c /\ OffsetOf(bucketpages'[a].PageNum) = OffsetOf(sectorpointer)
      BY <3>1, <3>3
    <3>6. chunk'[ChunkOf(bucketpages'[a].PageNum)] = device[c]
      BY <3>2, <3>5
    <3> QED  BY <3>1, <3>4, <3>5, <3>6, Zenon
  <2>2. CASE a \in 1 .. Len(bucketpages)
    <3> DEFINE page == bucketpages[a].PageNum
               e == ChunkOf(page)
    <3>1. bucketpages'[a] = bucketpages[a] /\ a \in DOMAIN bucketpages
      BY <1>3, <2>2
    <3>2. e \in Chunk /\ OffsetOf(page) \in 0 .. (PagesPerChunk - 1)
      BY <1>1, <3>1, BucketInChunk
    <3>3. e \notin faulted /\ (~wrapped \/ (e >= ErasedChunks /\ ~refused))
      BY <1>1, <1>4, <3>1
    <3>4. OffsetOf(page) < Len(chunk[e]) /\ chunk[e][OffsetOf(page) + 1] = <<a, bucketpages[a].data>>
      BY <3>1, <3>3 DEF FlashInv, PagesReadBack
    <3>5. e \notin DOMAIN erased
      <4>1. e \in Nat
        BY <3>2 DEF Chunk
      <4> QED  BY <1>4, <1>5, <3>1, <4>1
    <3>6. chunk'[e] = device[e]
      BY <1>5, <3>2, <3>5
    <3>7. OffsetOf(page) + 1 \in 1 .. Len(chunk[e])
      BY <1>1, <3>2, <3>4
    <3> HIDE DEF page, e
    <3>8. OffsetOf(page) < Len(device[e]) /\ device[e][OffsetOf(page) + 1] = chunk[e][OffsetOf(page) + 1]
      <4>1. CASE e = c
        <5>1. Len(chunk[c]) \in Nat /\ c \in Chunk
          BY <1>1, <1>2
        <5>2. OffsetOf(page) \in 0 .. (Len(chunk[c]) - 1) /\ OffsetOf(page) + 1 \in 1 .. Len(chunk[c])
          BY <3>2, <3>4, <3>7, <4>1, <5>1
        <5>3. Len(device[c]) = Len(chunk[c]) + 1
          BY <1>6
        <5>4. device[c][OffsetOf(page) + 1] = chunk[c][OffsetOf(page) + 1]
          BY <1>6, <5>2
        <5>5. OffsetOf(page) < Len(device[c])
          BY <5>1, <5>2, <5>3
        <5> QED  BY <4>1, <5>4, <5>5
      <4>2. CASE e # c
        BY <1>6, <3>2, <3>4, <4>2
      <4> QED  BY <4>1, <4>2
    <3> QED  BY <3>1, <3>4, <3>6, <3>8 DEF page, e
  <2> QED  BY <1>3, <2>1, <2>2 DEF last
<1> QED  BY <1>8, <1>9, <1>10, <1>11, <1>12, <1>13 DEF FlashInv

LEMMA AppendKeepsStore ==
  ASSUME FlashInv, NEW d \in Data, PageAppend(d)
  PROVE  FlashInv'
<1> DEFINE c == ChunkOf(sectorpointer)
           device == [chunk EXCEPT ![ChunkOf(sectorpointer)] =
                        Append(@, <<Len(bucketpages) + 1, d>>)]
           all == [e \in 0 .. (ErasedChunks - 1) |-> erasechunk(e)]
<1>1. GetsPage(d) /\ FlashState /\ faulted \subseteq Chunk
  BY DEF PageAppend, FlashInv, FlashState
<1>2. CASE ~Accepts(sectorpointer)
  BY <1>1, <1>2, NotTakenKeepsStore DEF PageAppend
<1>3. CASE Accepts(sectorpointer) /\ PointerRenew(device) /\ UNCHANGED refused
  <2>1. \A e \in DOMAIN all : /\ all[e] \in Seq(Page) /\ Len(all[e]) <= PagesPerChunk
                              /\ e \notin faulted => all[e] = << >>
    <3>1. ASSUME NEW e \in 0 .. (ErasedChunks - 1)
          PROVE  /\ erasechunk(e) \in Seq(Page) /\ Len(erasechunk(e)) <= PagesPerChunk
                 /\ e \notin faulted => erasechunk(e) = << >>
      <4>1. e \in Chunk
        BY ErasedBeforeEnd
      <4> QED  BY <1>1, <4>1, ErasedChunkIsEmpty DEF FlashInv, UsageTracksDevice
    <3> QED  BY <3>1
  <2>2. DOMAIN all = 0 .. (ErasedChunks - 1)
    OBVIOUS
  <2>0. device = [chunk EXCEPT ![ChunkOf(sectorpointer)] =
                    Append(@, <<Len(bucketpages) + 1, d>>)]
    OBVIOUS
  <2> HIDE DEF all, device
  <2>3. CASE sectorpointer + 1 < LastPage
    <3>1. Renewed(device, [e \in {} |-> << >>]) /\ faulted' = faulted
      BY <1>3, <2>3 DEF PointerRenew, all
    <3> DEFINE none == [e \in {} |-> << >>]
    <3>2. DOMAIN none = {}
      OBVIOUS
    <3>3. Renewed(device, none)
      BY <3>1
    <3>4. Emptied(none)
      BY DEF Emptied
    <3> HIDE DEF none
    <3> QED  BY <1>1, <1>3, <2>3, <3>1, <3>2, <3>3, <3>4, <2>0, TakenKeepsStore
  <2>4. CASE sectorpointer + 1 >= LastPage
    <3>1. ~(sectorpointer + 1 < LastPage)
      BY <1>1, <2>4 DEF FlashState
    <3>2. CASE Renewed(device, all) /\ UNCHANGED faulted
      <4>1. Emptied(all)
        BY <2>1, <3>2 DEF Emptied
      <4>2. faulted \subseteq faulted' /\ faulted' \subseteq Chunk
        BY <1>1, <3>2
      <4> QED  BY <1>1, <1>3, <2>2, <2>4, <3>2, <4>1, <4>2, <2>0, TakenKeepsStore
    <3>3. CASE \E bad \in DOMAIN all :
                 /\ faulted' = faulted \cup {bad}
                 /\ \E left \in EraseFails(bad) : Renewed(device, [all EXCEPT ![bad] = left])
      <4>0. PICK bad \in DOMAIN all :
              /\ faulted' = faulted \cup {bad}
              /\ \E left \in EraseFails(bad) : Renewed(device, [all EXCEPT ![bad] = left])
        BY <3>3
      <4>1. PICK left \in EraseFails(bad) : Renewed(device, [all EXCEPT ![bad] = left])
        BY <4>0
      <4> DEFINE some == [all EXCEPT ![bad] = left]
      <4>2. bad \in Chunk
        BY <2>2, ErasedBeforeEnd
      <4>3. left \in Seq(Page) /\ Len(left) <= PagesPerChunk
        BY <1>1, <4>2, EraseFailsType
      <4>4. DOMAIN some = 0 .. (ErasedChunks - 1)
        BY <2>2
      <4>5. Emptied(some)
        <5>1. ASSUME NEW e \in DOMAIN some
              PROVE  /\ some[e] \in Seq(Page) /\ Len(some[e]) <= PagesPerChunk
                     /\ e \notin faulted' => some[e] = << >>
          <6>1. some[e] = IF e = bad THEN left ELSE all[e]
            BY <2>2, <4>4 DEF all
          <6>2. e \in DOMAIN all
            BY <2>2, <4>4
          <6> HIDE DEF some
          <6>3. CASE e = bad
            BY <4>0, <4>3, <6>1, <6>3
          <6>4. CASE e # bad
            <7>1. e \notin faulted' => e \notin faulted
              BY <4>0
            <7>2. some[e] = all[e]
              BY <6>1, <6>4
            <7>3. /\ all[e] \in Seq(Page) /\ Len(all[e]) <= PagesPerChunk
                  /\ e \notin faulted => all[e] = << >>
              BY <2>1, <6>2
            <7> QED  BY <7>1, <7>2, <7>3
          <6> QED  BY <6>3, <6>4
        <5> QED  BY <5>1 DEF Emptied
      <4>6. Renewed(device, some)
        BY <4>1
      <4> HIDE DEF some
      <4>7. faulted \subseteq faulted' /\ faulted' \subseteq Chunk
        BY <1>1, <4>0, <4>2
      <4> QED  BY <1>1, <1>3, <2>4, <4>7, <4>4, <4>5, <4>6, <2>0, TakenKeepsStore
    <3> QED  BY <1>3, <3>1, <3>2, <3>3 DEF PointerRenew, all
  <2> QED  BY <1>1, <2>3, <2>4 DEF FlashState
<1> QED  BY <1>2, <1>3 DEF PageAppend

LEMMA InitEstablishesStore == FlashInit => FlashInv
<1> SUFFICES ASSUME FlashInit PROVE FlashInv
  OBVIOUS
<1>1. \A c \in Chunk : chunk[c] = << >> /\ chunkusage[c] = 0
  BY DEF FlashInit
<1>2. FlashState
  <2>1. chunk \in [Chunk -> Seq(Page)] /\ chunkusage \in [Chunk -> Nat]
    BY DEF FlashInit
  <2>2. \A c \in Chunk : Len(chunk[c]) <= PagesPerChunk
    BY <1>1
  <2>3. bucketpages \in Seq([PageNum : 0 .. (LastPage - 1), data : Data])
    BY DEF FlashInit
  <2>4. sectorpointer \in 0 .. (LastPage - 1) /\ faulted \subseteq Chunk
        /\ flashstatus \in {"running", "exited"}
    BY DEF FlashInit
  <2>5. wrapped \in BOOLEAN /\ refused \in BOOLEAN
    BY DEF FlashInit
  <2> QED  BY <2>1, <2>2, <2>3, <2>4, <2>5 DEF FlashState
<1>3. UsageTracksDevice
  BY <1>1 DEF UsageTracksDevice
<1>4. FilledInOrder /\ CountedInOrder
  <2>1. ASSUME NEW c \in Chunk PROVE Filled(c, 0) = 0
    <3>1. c \in Nat
      BY DEF Chunk
    <3>2. PagesPerChunk * c \in Nat
      BY <3>1, NextStart
    <3> QED  BY <3>2 DEF Filled
  <2> QED  BY <1>1, <2>1 DEF FilledInOrder, CountedInOrder, FlashInit
<1>5. StopsBehindErased /\ PagesReadBack
  BY DEF FlashInit, StopsBehindErased, PagesReadBack
<1> QED  BY <1>2, <1>3, <1>4, <1>5 DEF FlashInv

LEMMA NextKeepsStore == FlashInv /\ [FlashNext]_flashvars => FlashInv'
<1> SUFFICES ASSUME FlashInv, [FlashNext]_flashvars PROVE FlashInv'
  OBVIOUS
<1>1. ASSUME NEW d \in Data, PageAppendFails(d) PROVE FlashInv'
  BY <1>1, NotTakenKeepsStore DEF PageAppendFails
<1>2. ASSUME faulted \subseteq faulted', faulted' \subseteq Chunk,
             UNCHANGED <<sectorpointer, chunkusage, chunk, bucketpages, wrapped, refused>>,
             flashstatus' \in {"running", "exited"}
      PROVE  FlashInv'
  <2>1. FlashState' /\ UsageTracksDevice'
    BY <1>2 DEF FlashInv, FlashState, UsageTracksDevice
  <2>2. FilledInOrder' /\ CountedInOrder' /\ StopsBehindErased'
    BY <1>2 DEF FlashInv, FilledInOrder, CountedInOrder, StopsBehindErased, Filled
  <2>3. PagesReadBack'
    BY <1>2 DEF FlashInv, PagesReadBack
  <2> QED  BY <2>1, <2>2, <2>3 DEF FlashInv
<1>3. CASE ReadFails
  <2>1. PICK b \in DOMAIN bucketpages : faulted' = faulted \cup {ChunkOf(bucketpages[b].PageNum)}
    BY <1>3 DEF ReadFails
  <2>2. ChunkOf(bucketpages[b].PageNum) \in Chunk /\ faulted \subseteq Chunk
    BY BucketInChunk DEF FlashInv, FlashState
  <2> QED  BY <1>2, <1>3, <2>1, <2>2 DEF ReadFails
<1>4. CASE UNCHANGED flashvars
  BY <1>2, <1>4 DEF flashvars, FlashInv, FlashState
<1> QED  BY <1>1, <1>3, <1>4, AppendKeepsStore, UpdateKeepsStore DEF FlashNext

LEMMA StoreInvTypes == FlashInv => FlashTypeOK
<1> SUFFICES ASSUME FlashInv PROVE FlashTypeOK
  OBVIOUS
<1>1. \A b \in DOMAIN bucketpages : bucketpages[b].PageNum \in 0 .. (LastPage - 1)
  BY BucketInChunk DEF FlashInv, BucketPage
<1> QED  BY <1>1 DEF FlashInv, FlashState, FlashTypeOK

-----------------------------------------------------------------------------
\* For every geometry: a chunk on which no command has failed has as many pages as
\* are counted, also after updates, erasures and a new start of the pointer
\* (WriteDisk.cpp, writer.cpp).
THEOREM UsageIsExact == FlashSpec => []UsageTracksDevice
<1>1. FlashInv => UsageTracksDevice
  BY DEF FlashInv
<1> QED  BY <1>1, InitEstablishesStore, NextKeepsStore, PTL DEF FlashSpec

\* A bucket reads back what was last written for it, as far as PagesReadBack says,
\* for every number of buckets, chunks and failed commands.
THEOREM BucketsReadBack == FlashSpec => []PagesReadBack
<1>1. FlashInv => PagesReadBack
  BY DEF FlashInv
<1> QED  BY <1>1, InitEstablishesStore, NextKeepsStore, PTL DEF FlashSpec

\* Whatever commands fail, no chunk is counted beyond its size, so no update writes into
\* the next one, before the pointer has started over, nor ever for the chunks erased then
\* or for one no command on which has failed (writer.cpp:204-208, 338-342).
THEOREM UpdatesNeverSpillEarly == FlashSpec => []UpdatesStayInChunk
<1>1. FlashInv => UpdatesStayInChunk
  <2> SUFFICES ASSUME FlashInv, NEW c \in Chunk, chunkusage[c] > PagesPerChunk
               PROVE  wrapped /\ c >= ErasedChunks /\ c \in faulted
    BY DEF UpdatesStayInChunk
  <2>1. /\ chunkusage[c] \in Nat /\ Len(chunk[c]) <= PagesPerChunk /\ c \in Nat
        /\ Len(chunk[c]) \in Nat /\ sectorpointer \in Nat /\ wrapped \in BOOLEAN
    <3>1. c \in Nat
      BY DEF Chunk
    <3> QED  BY <3>1 DEF FlashInv, FlashState
  <2>2. c \in faulted
    BY <2>1 DEF FlashInv, UsageTracksDevice
  <2>3. Filled(c, sectorpointer) <= PagesPerChunk
    BY <2>1, FilledWithin
  <2>4. ~(~wrapped \/ c < ErasedChunks)
    <3>1. ASSUME ~wrapped \/ c < ErasedChunks PROVE FALSE
      <4>1. chunkusage[c] = Filled(c, sectorpointer)
        BY <3>1 DEF FlashInv, CountedInOrder
      <4> QED  BY <2>1, <2>3, <4>1
    <3> QED  BY <3>1
  <2> QED  BY <2>1, <2>2, <2>4
<1> QED  BY <1>1, InitEstablishesStore, NextKeepsStore, PTL DEF FlashSpec

\* Without a failed command no page is refused before the pointer has started over
\* and used up all chunks that were erased then.
THEOREM RefusalsComeLate == FlashSpec => []RefusedOnlyPastErased
<1>1. FlashInv => RefusedOnlyPastErased
  <2> SUFFICES ASSUME FlashInv, refused, faulted = {}
               PROVE  wrapped /\ sectorpointer >= ErasedChunks * PagesPerChunk
    BY DEF RefusedOnlyPastErased
  <2>1. wrapped /\ sectorpointer = PagesPerChunk * ErasedChunks
    BY DEF FlashInv, StopsBehindErased
  <2>2. sectorpointer \in Nat /\ ErasedChunks * PagesPerChunk = PagesPerChunk * ErasedChunks
    BY ErasedBeforeEnd DEF FlashInv, FlashState
  <2> QED  BY <2>1, <2>2
<1> QED  BY <1>1, InitEstablishesStore, NextKeepsStore, PTL DEF FlashSpec

-----------------------------------------------------------------------------
(* The processes.                                                          *)

USE ProcessesAssumption

Answering(places) == {c \in Child : places[c] = "answering"}

PlacesOK ==
  /\ runno \in 1 .. MaxRuns
  /\ at \in [Process -> Alive \cup {"none", "ended", "answering"}]
  /\ at[Parent] \in Alive \cup {"ended"}
  /\ \A c \in Child : at[c] \in {"none", "receiving", "blocked", "answering"}
  /\ round \in 0 .. Rounds
  /\ queued \in Nat /\ stranded \in Nat
  /\ waiters \in Seq(Process)

\* A process waits at one place of the line only, and nobody else is in it.
InLine == \A p \in Process : at[p] = "blocked" <=> \E i \in DOMAIN waiters : waiters[i] = p
OnePlaceEach == \A i, j \in DOMAIN waiters : waiters[i] = waiters[j] => i = j

\* The children of the runs to come do not exist, and that of a run not before the
\* fork: the fork makes a child, it turns none into another.
NotForkedYet ==
  \A c \in Child :
    c > runno \/ (c = runno /\ at[Parent] \in {"msgget", "fork"}) => at[c] = "none"

NoneWaitsForQueued == waiters # << >> => queued = 0

ProcInv ==
  PlacesOK /\ InLine /\ OnePlaceEach /\ NotForkedYet /\ NoneWaitsForQueued /\ InFlight

-----------------------------------------------------------------------------
(* Counting those who answer.                                              *)

LEMMA AnsweringCount ==
  ASSUME NEW places
  PROVE  IsFiniteSet(Answering(places)) /\ Cardinality(Answering(places)) \in Nat
<1>1. IsFiniteSet(Child)
  BY FS_Interval DEF Child
<1>2. Answering(places) \in SUBSET Child
  BY DEF Answering
<1> QED  BY <1>1, <1>2, FS_Subset, FS_CardinalityType

LEMMA NobodyStarts ==
  ASSUME NEW before, NEW after,
         \A c \in Child : after[c] = "answering" <=> before[c] = "answering"
  PROVE  Cardinality(Answering(after)) = Cardinality(Answering(before))
<1>1. Answering(after) = Answering(before)
  BY DEF Answering
<1> QED  BY <1>1

LEMMA OneStarts ==
  ASSUME NEW before, NEW after, NEW c \in Child,
         before[c] # "answering", after[c] = "answering",
         \A d \in Child \ {c} : after[d] = "answering" <=> before[d] = "answering"
  PROVE  Cardinality(Answering(after)) = Cardinality(Answering(before)) + 1
<1>1. Answering(after) = Answering(before) \cup {c} /\ c \notin Answering(before)
  BY DEF Answering
<1> QED  BY <1>1, AnsweringCount, FS_AddElement

LEMMA OneEnds ==
  ASSUME NEW before, NEW after, NEW c \in Child,
         before[c] = "answering", after[c] # "answering",
         \A d \in Child \ {c} : after[d] = "answering" <=> before[d] = "answering"
  PROVE  Cardinality(Answering(after)) = Cardinality(Answering(before)) - 1
<1>1. Cardinality(Answering(before)) = Cardinality(Answering(after)) + 1
  BY OneStarts
<1> QED  BY <1>1, AnsweringCount

\* InFlight, with the exchange of the parent as a number.
Awaited(places) == IF places[Parent] \in Awaiting THEN 1 ELSE 0

LEMMA InFlightCounts ==
  InFlight <=> queued + Cardinality(Answering(at)) = stranded + Awaited(at)
BY DEF InFlight, Answering, Awaited

LEMMA InFlightCountsNext ==
  InFlight' <=> queued' + Cardinality(Answering(at')) = stranded' + Awaited(at')
BY DEF InFlight, Answering, Awaited, Child, Parent

-----------------------------------------------------------------------------
(* The line of waiters.                                                    *)

\* Who joins the line comes last.
LEMMA JoinLine ==
  ASSUME ProcInv, NEW p \in Process, at[p] = "receiving",
         waiters' = Append(waiters, p),
         at' = [at EXCEPT ![p] = "blocked"]
  PROVE  waiters' \in Seq(Process) /\ InLine' /\ OnePlaceEach'
<1>1. /\ waiters \in Seq(Process) /\ at \in [Process -> Alive \cup {"none", "ended", "answering"}]
      /\ InLine /\ OnePlaceEach
  BY DEF ProcInv, PlacesOK
<1>2. /\ waiters' \in Seq(Process) /\ Len(waiters') = Len(waiters) + 1
      /\ \A i \in 1 .. Len(waiters) : waiters'[i] = waiters[i]
      /\ waiters'[Len(waiters) + 1] = p
  BY <1>1
<1>3. DOMAIN waiters = 1 .. Len(waiters) /\ DOMAIN waiters' = 1 .. (Len(waiters) + 1)
  BY <1>1, <1>2
<1>4. \A i \in DOMAIN waiters : waiters[i] # p
  BY <1>1 DEF InLine
<1>5. InLine'
  <2>1. SUFFICES ASSUME NEW q \in Process
                 PROVE  at'[q] = "blocked" <=> \E i \in DOMAIN waiters' : waiters'[i] = q
    BY DEF InLine, Process, Parent, Child
  <2>2. CASE q = p
    <3>1. Len(waiters) + 1 \in DOMAIN waiters'
      BY <1>1, <1>3
    <3> QED  BY <1>1, <1>2, <2>2, <3>1
  <2>3. CASE q # p
    <3>1. (\E i \in DOMAIN waiters' : waiters'[i] = q) <=> \E i \in DOMAIN waiters : waiters[i] = q
      BY <1>1, <1>2, <1>3, <2>3
    <3> QED  BY <1>1, <2>3, <3>1 DEF InLine
  <2> QED  BY <2>2, <2>3
<1>6. OnePlaceEach'
  BY <1>1, <1>2, <1>3, <1>4 DEF OnePlaceEach
<1> QED  BY <1>2, <1>5, <1>6

\* Who leaves the line is gone from it; the others keep their order.
LEMMA LeaveLine ==
  ASSUME ProcInv, NEW i \in DOMAIN waiters, waiters' = RemoveAt(waiters, i),
         at'[waiters[i]] # "blocked",
         \A q \in Process \ {waiters[i]} : at'[q] = "blocked" <=> at[q] = "blocked"
  PROVE  waiters' \in Seq(Process) /\ InLine' /\ OnePlaceEach'
<1>1. waiters \in Seq(Process) /\ InLine /\ OnePlaceEach /\ i \in 1 .. Len(waiters)
  BY DEF ProcInv, PlacesOK
<1>2. /\ waiters' \in Seq(Process) /\ Len(waiters') = Len(waiters) - 1
      /\ \A j \in 1 .. (Len(waiters) - 1) :
           waiters'[j] = IF j < i THEN waiters[j] ELSE waiters[j + 1]
  BY <1>1, RemoveAtProperties
<1>3. DOMAIN waiters = 1 .. Len(waiters) /\ DOMAIN waiters' = 1 .. (Len(waiters) - 1)
      /\ Len(waiters) \in Nat
  BY <1>1, <1>2
<1> DEFINE old(m) == IF m < i THEN m ELSE m + 1
<1>0. \A m \in DOMAIN waiters' :
        old(m) \in DOMAIN waiters /\ old(m) # i /\ waiters'[m] = waiters[old(m)]
  BY <1>1, <1>2, <1>3
<1>4. OnePlaceEach'
  <2>1. SUFFICES ASSUME NEW m \in DOMAIN waiters', NEW n \in DOMAIN waiters',
                        waiters'[m] = waiters'[n]
                 PROVE  m = n
    BY DEF OnePlaceEach
  <2>2. old(m) = old(n)
    BY <1>0, <1>1, <2>1 DEF OnePlaceEach
  <2> QED  BY <1>1, <1>3, <2>2
<1>5. InLine'
  <2>1. SUFFICES ASSUME NEW q \in Process
                 PROVE  at'[q] = "blocked" <=> \E j \in DOMAIN waiters' : waiters'[j] = q
    BY DEF InLine, Process, Parent, Child
  <2>2. CASE q = waiters[i]
    <3>1. \A m \in DOMAIN waiters' : waiters'[m] # q
      <4> HIDE DEF old
      <4> QED  BY <1>0, <1>1, <1>3, <2>2 DEF OnePlaceEach
    <3> QED  BY <2>2, <3>1
  <2>3. CASE q # waiters[i]
    <3>1. ASSUME NEW j \in DOMAIN waiters, waiters[j] = q
          PROVE  \E m \in DOMAIN waiters' : waiters'[m] = q
      <4>1. CASE j < i
        BY <1>1, <1>2, <1>3, <3>1, <4>1
      <4>2. CASE j > i
        <5>1. j - 1 \in DOMAIN waiters' /\ ~(j - 1 < i) /\ (j - 1) + 1 = j
          BY <1>1, <1>3, <4>2
        <5> QED  BY <1>2, <1>3, <3>1, <5>1
      <4> QED  BY <1>1, <1>3, <2>3, <3>1, <4>1, <4>2
    <3>2. ASSUME NEW m \in DOMAIN waiters', waiters'[m] = q
          PROVE  \E j \in DOMAIN waiters : waiters[j] = q
      <4>1. m \in DOMAIN waiters /\ m + 1 \in DOMAIN waiters
        BY <1>3
      <4> QED  BY <1>2, <1>3, <3>2, <4>1
    <3> QED  BY <1>1, <2>3, <3>1, <3>2 DEF InLine
  <2> QED  BY <2>2, <2>3
<1> QED  BY <1>2, <1>4, <1>5

\* The first of the line leaves it.
LEMMA TailIsRemoveAt ==
  ASSUME NEW s \in Seq(Process), s # << >>
  PROVE  1 \in DOMAIN s /\ Head(s) = s[1] /\ Head(s) \in Process /\ Tail(s) = RemoveAt(s, 1)
<1>1. Tail(s) = SubSeq(s, 2, Len(s)) /\ SubSeq(s, 1, 0) = << >>
  OBVIOUS
<1>2. << >> \o SubSeq(s, 2, Len(s)) = SubSeq(s, 2, Len(s))
  <2>1. SubSeq(s, 2, Len(s)) \in Seq(Process)
    OBVIOUS
  <2> QED  BY <2>1
<1>3. RemoveAt(s, 1) = SubSeq(s, 1, 0) \o SubSeq(s, 2, Len(s))
  BY DEF RemoveAt
<1>4. Len(s) \in Nat /\ Len(s) # 0 /\ DOMAIN s = 1 .. Len(s)
  OBVIOUS
<1>5. 1 \in DOMAIN s /\ Head(s) = s[1] /\ s[1] \in Process
  BY <1>4, ElementOfSeq
<1> QED  BY <1>1, <1>2, <1>3, <1>5

-----------------------------------------------------------------------------
(* The steps.                                                              *)

\* A step that leaves the line, the queue and who answers alone.
LEMMA QuietStep ==
  ASSUME ProcInv, UNCHANGED <<runno, queued, waiters, stranded>>,
         round' \in 0 .. Rounds,
         at' \in [Process -> Alive \cup {"none", "ended", "answering"}],
         at'[Parent] \in (Alive \cup {"ended"}) \ Awaiting, at[Parent] \notin Awaiting,
         at'[Parent] \in {"msgget", "fork"} => at[Parent] \in {"msgget", "fork"},
         \A c \in Child : \/ at'[c] = at[c]
                          \/ /\ c = runno /\ at'[Parent] \notin {"msgget", "fork"}
                             /\ at[c] = "none" /\ at'[c] = "receiving"
  PROVE  ProcInv'
<1> USE DEF ProcInv
<1>1. PlacesOK'
  BY DEF PlacesOK, Process, Parent, Child
<1>2. \A p \in Process : at'[p] = "blocked" <=> at[p] = "blocked"
  BY DEF Process, Awaiting
<1>3. InLine' /\ OnePlaceEach' /\ NoneWaitsForQueued'
  BY <1>2 DEF InLine, OnePlaceEach, NoneWaitsForQueued
<1>4. NotForkedYet'
  BY DEF NotForkedYet, PlacesOK, Parent, Child
<1>5. InFlight'
  <2>1. Cardinality(Answering(at')) = Cardinality(Answering(at))
    BY NobodyStarts
  <2>2. Awaited(at') = Awaited(at)
    BY DEF Awaited
  <2> QED  BY <2>1, <2>2, InFlightCounts, InFlightCountsNext
<1> QED  BY <1>1, <1>3, <1>4, <1>5

LEMMA ReceiveKeepsProc ==
  ASSUME ProcInv, NEW p \in Process, Receive(p)
  PROVE  ProcInv'
<1>1. /\ at[p] = "receiving" /\ runno' = runno /\ stranded' = stranded
      /\ waiters \in Seq(Process) /\ queued \in Nat /\ runno \in 1 .. MaxRuns
      /\ round \in 0 .. Rounds
      /\ at \in [Process -> Alive \cup {"none", "ended", "answering"}]
      /\ Parent \in Process /\ \A c \in Child : c \in Process /\ c # Parent
  BY DEF Receive, ProcInv, PlacesOK, Process, Parent, Child
<1>2. CASE queued = 0
  <2>1. waiters' = Append(waiters, p) /\ at' = [at EXCEPT ![p] = "blocked"]
        /\ queued' = queued /\ round' = round
    BY <1>2 DEF Receive
  <2>2. waiters' \in Seq(Process) /\ InLine' /\ OnePlaceEach'
    BY <1>1, <2>1, JoinLine
  <2>3. PlacesOK'
    BY <1>1, <2>1, <2>2 DEF ProcInv, PlacesOK, Alive
  <2>4. NotForkedYet'
    BY <1>1, <2>1 DEF ProcInv, NotForkedYet, Parent
  <2>5. Cardinality(Answering(at')) = Cardinality(Answering(at))
    BY <1>1, <2>1, NobodyStarts
  <2>6. Awaited(at') = Awaited(at)
    BY <1>1, <2>1 DEF Awaited, Awaiting
  <2>7. InFlight'
    BY <1>1, <2>1, <2>5, <2>6, InFlightCounts, InFlightCountsNext DEF ProcInv
  <2> QED  BY <1>2, <2>1, <2>2, <2>3, <2>4, <2>7 DEF ProcInv, NoneWaitsForQueued
<1>3. CASE queued > 0
  <2>1. queued' = queued - 1 /\ at' = [at EXCEPT ![p] = Received(p)]
        /\ round' = NextRound(p) /\ waiters' = waiters
    BY <1>3 DEF Receive
  <2>2. Received(p) \in {"answering", "sending", "ready"} /\ NextRound(p) \in 0 .. Rounds
        /\ (p # Parent => Received(p) = "answering")
        /\ (p = Parent => Received(p) \in {"sending", "ready"})
    BY <1>1 DEF Received, NextRound
  <2>3. PlacesOK'
    BY <1>1, <1>3, <2>1, <2>2 DEF ProcInv, PlacesOK, Alive, Process, Parent, Child
  <2>4. waiters = << >>
    BY <1>1, <1>3 DEF ProcInv, NoneWaitsForQueued
  <2>5. InLine' /\ OnePlaceEach' /\ NoneWaitsForQueued'
    BY <1>1, <2>1, <2>2, <2>4
    DEF ProcInv, InLine, OnePlaceEach, NoneWaitsForQueued, Process, Parent, Child
  <2>6. NotForkedYet'
    BY <1>1, <2>1, <2>2 DEF ProcInv, NotForkedYet, Parent
  <2>7. CASE p = Parent
    <3>1. Cardinality(Answering(at')) = Cardinality(Answering(at))
      BY <1>1, <2>1, <2>7, NobodyStarts
    <3>2. Awaited(at) = 1 /\ Awaited(at') = 0
      BY <1>1, <2>1, <2>2, <2>7 DEF Awaited, Awaiting
    <3>3. stranded \in Nat /\ Cardinality(Answering(at)) \in Nat
      BY AnsweringCount DEF ProcInv, PlacesOK
    <3>4. InFlight'
      BY <1>1, <2>1, <3>1, <3>2, <3>3, InFlightCounts, InFlightCountsNext DEF ProcInv
    <3> QED  BY <2>3, <2>5, <2>6, <3>4 DEF ProcInv
  <2>8. CASE p \in Child
    <3>1. Cardinality(Answering(at')) = Cardinality(Answering(at)) + 1
      BY <1>1, <2>1, <2>2, <2>8, OneStarts
    <3>2. Awaited(at') = Awaited(at)
      BY <1>1, <2>1, <2>8 DEF Awaited
    <3>3. stranded \in Nat /\ Cardinality(Answering(at)) \in Nat
      BY AnsweringCount DEF ProcInv, PlacesOK
    <3>4. InFlight'
      BY <1>1, <2>1, <3>1, <3>2, <3>3, InFlightCounts, InFlightCountsNext DEF ProcInv
    <3> QED  BY <2>3, <2>5, <2>6, <3>4 DEF ProcInv
  <2> QED  BY <2>7, <2>8 DEF Process
<1> QED  BY <1>1, <1>2, <1>3

\* p sends what it has to the first of the line, or to the queue.
LEMMA SentKeepsProc ==
  ASSUME ProcInv, NEW p \in Process, Sent(p, "receiving"),
         at[p] = IF p = Parent THEN "sending" ELSE "answering",
         UNCHANGED <<runno, stranded>>
  PROVE  ProcInv'
<1>1. /\ runno' = runno /\ stranded' = stranded
      /\ waiters \in Seq(Process) /\ queued \in Nat /\ runno \in 1 .. MaxRuns
      /\ round \in 0 .. Rounds /\ stranded \in Nat
      /\ at \in [Process -> Alive \cup {"none", "ended", "answering"}]
      /\ Parent \in Process /\ \A c \in Child : c \in Process /\ c # Parent
      /\ Cardinality(Answering(at)) \in Nat
  BY AnsweringCount DEF ProcInv, PlacesOK, Process, Parent, Child
<1>2. CASE waiters = << >>
  <2>1. /\ queued' = queued + 1 /\ at' = [at EXCEPT ![p] = "receiving"]
        /\ waiters' = waiters /\ round' = round
    BY <1>2 DEF Sent
  <2>2. PlacesOK'
    BY <1>1, <2>1 DEF ProcInv, PlacesOK, Alive, Process, Parent, Child
  <2>3. InLine' /\ OnePlaceEach' /\ NoneWaitsForQueued'
    BY <1>1, <1>2, <2>1
    DEF ProcInv, InLine, OnePlaceEach, NoneWaitsForQueued, Process, Parent, Child
  <2>4. NotForkedYet'
    BY <1>1, <2>1 DEF ProcInv, NotForkedYet, Parent
  <2>5. CASE p = Parent
    <3>1. Cardinality(Answering(at')) = Cardinality(Answering(at))
      BY <1>1, <2>1, <2>5, NobodyStarts
    <3>2. Awaited(at) = 0 /\ Awaited(at') = 1
      BY <1>1, <2>1, <2>5 DEF Awaited, Awaiting
    <3>3. InFlight'
      BY <1>1, <2>1, <3>1, <3>2, InFlightCounts, InFlightCountsNext DEF ProcInv
    <3> QED  BY <2>2, <2>3, <2>4, <3>3 DEF ProcInv
  <2>6. CASE p \in Child
    <3>1. Cardinality(Answering(at')) = Cardinality(Answering(at)) - 1
      BY <1>1, <2>1, <2>6, OneEnds
    <3>2. Awaited(at') = Awaited(at)
      BY <1>1, <2>1, <2>6 DEF Awaited
    <3>3. Awaited(at) \in Nat
      BY DEF Awaited
    <3>4. InFlight'
      BY <1>1, <2>1, <3>1, <3>2, <3>3, InFlightCounts, InFlightCountsNext DEF ProcInv
    <3> QED  BY <2>2, <2>3, <2>4, <3>4 DEF ProcInv
  <2> QED  BY <2>5, <2>6 DEF Process
<1>3. CASE waiters # << >>
  <2> DEFINE h == Head(waiters)
  <2>1. /\ at' = [at EXCEPT ![p] = "receiving", ![h] = Received(h)]
        /\ round' = NextRound(h) /\ waiters' = Tail(waiters) /\ queued' = queued
    BY <1>3 DEF Sent
  <2>2. 1 \in DOMAIN waiters /\ h = waiters[1] /\ h \in Process
        /\ Tail(waiters) = RemoveAt(waiters, 1)
    BY <1>1, <1>3, TailIsRemoveAt
  <2> HIDE DEF h
  <2>3. at[h] = "blocked" /\ h # p /\ queued = 0
    BY <1>3, <2>2 DEF ProcInv, InLine, NoneWaitsForQueued
  <2>4. Received(h) \in {"answering", "sending", "ready"} /\ NextRound(h) \in 0 .. Rounds
        /\ (h # Parent => Received(h) = "answering")
        /\ (h = Parent => Received(h) \in {"sending", "ready"})
    BY <1>1 DEF Received, NextRound
  <2>5. at'[p] = "receiving" /\ at'[h] = Received(h)
        /\ \A q \in Process \ {p, h} : at'[q] = at[q]
    BY <1>1, <2>1, <2>2, <2>3
  <2>6. waiters' \in Seq(Process) /\ InLine' /\ OnePlaceEach'
    <3>1. at'[waiters[1]] # "blocked"
      BY <2>2, <2>4, <2>5
    <3>2. \A q \in Process \ {waiters[1]} : at'[q] = "blocked" <=> at[q] = "blocked"
      BY <2>2, <2>5
    <3> QED  BY <2>1, <2>2, <3>1, <3>2, LeaveLine
  <2>7. at' \in [Process -> Alive \cup {"none", "ended", "answering"}]
    BY <1>1, <2>1, <2>4 DEF Alive
  <2>8. PlacesOK'
    <3>1. at'[Parent] \in Alive \cup {"ended"}
      BY <1>1, <2>2, <2>4, <2>5 DEF ProcInv, PlacesOK, Alive
    <3>2. \A c \in Child : at'[c] \in {"none", "receiving", "blocked", "answering"}
      BY <1>1, <2>2, <2>4, <2>5 DEF ProcInv, PlacesOK
    <3> QED  BY <1>1, <2>1, <2>3, <2>4, <2>6, <2>7, <3>1, <3>2 DEF PlacesOK, Child, Parent, Process
  <2>9. NoneWaitsForQueued'
    BY <2>1, <2>3 DEF NoneWaitsForQueued
  <2>10. NotForkedYet'
    <3>1. at[Parent] \notin {"msgget", "fork"} => at'[Parent] \notin {"msgget", "fork"}
      BY <1>1, <2>2, <2>4, <2>5
    <3>2. \A c \in Child : at[c] = "none" => at'[c] = "none"
      BY <1>1, <2>2, <2>3, <2>4, <2>5 DEF Process
    <3>3. at'[Parent] \in {"msgget", "fork"} => at'[Parent] = at[Parent]
      BY <1>1, <2>2, <2>4, <2>5
    <3> QED  BY <1>1, <3>2, <3>3 DEF ProcInv, NotForkedYet, Child, Parent
  <2>11. InFlight'
    <3>1. CASE p = Parent
      <4>1. Cardinality(Answering(at')) = Cardinality(Answering(at)) + 1
        <5>1. h \in Child
          BY <2>2, <2>3, <3>1 DEF Process
        <5>2. at[h] # "answering" /\ at'[h] = "answering"
          BY <1>1, <2>3, <2>4, <2>5, <5>1
        <5>3. \A d \in Child \ {h} : at'[d] = "answering" <=> at[d] = "answering"
          BY <1>1, <2>5, <3>1
        <5> QED  BY <5>1, <5>2, <5>3, OneStarts
      <4>2. Awaited(at) = 0 /\ Awaited(at') = 1
        BY <2>5, <3>1 DEF Awaited, Awaiting
      <4> QED  BY <1>1, <2>1, <4>1, <4>2, InFlightCounts, InFlightCountsNext DEF ProcInv
    <3>2. CASE p \in Child /\ h = Parent
      <4>1. Cardinality(Answering(at')) = Cardinality(Answering(at)) - 1
        <5>1. at[p] = "answering" /\ at'[p] # "answering"
          BY <1>1, <2>5, <3>2
        <5>2. \A d \in Child \ {p} : at'[d] = "answering" <=> at[d] = "answering"
          BY <1>1, <2>5, <3>2
        <5> QED  BY <3>2, <5>1, <5>2, OneEnds
      <4>2. Awaited(at) = 1 /\ Awaited(at') = 0
        BY <2>3, <2>4, <2>5, <3>2 DEF Awaited, Awaiting
      <4> QED  BY <1>1, <2>1, <4>1, <4>2, InFlightCounts, InFlightCountsNext DEF ProcInv
    <3>3. CASE p \in Child /\ h \in Child
      <4> DEFINE between == [at EXCEPT ![p] = "receiving"]
      <4>1. Cardinality(Answering(between)) = Cardinality(Answering(at)) - 1
        BY <1>1, <3>3, OneEnds
      <4>2. Cardinality(Answering(at')) = Cardinality(Answering(between)) + 1
        <5>1. between[h] # "answering" /\ at'[h] = "answering"
          BY <1>1, <2>3, <2>4, <2>5, <3>3
        <5>2. \A d \in Child \ {h} : at'[d] = "answering" <=> between[d] = "answering"
          BY <1>1, <2>1, <3>3
        <5> QED  BY <3>3, <5>1, <5>2, OneStarts
      <4>3. Awaited(at') = Awaited(at)
        BY <1>1, <2>5, <3>3 DEF Awaited
      <4> HIDE DEF between
      <4>4. Cardinality(Answering(between)) \in Nat /\ Awaited(at) \in Nat
        BY AnsweringCount DEF Awaited
      <4> QED  BY <1>1, <2>1, <4>1, <4>2, <4>3, <4>4, InFlightCounts, InFlightCountsNext
               DEF ProcInv
    <3> QED  BY <2>2, <3>1, <3>2, <3>3 DEF Process
  <2> QED  BY <2>6, <2>8, <2>9, <2>10, <2>11 DEF ProcInv
<1> QED  BY <1>2, <1>3

\* The parent ends, in the line or not.
LEMMA EndKeepsProc ==
  ASSUME ProcInv, End
  PROVE  ProcInv'
<1>1. /\ runno' = runno /\ queued' = queued /\ round' = 0
      /\ at' = [at EXCEPT ![Parent] = "ended"]
      /\ waiters \in Seq(Process) /\ queued \in Nat /\ runno \in 1 .. MaxRuns
      /\ stranded \in Nat /\ at[Parent] \in Alive
      /\ stranded' = IF at[Parent] \in Awaiting THEN stranded + 1 ELSE stranded
      /\ at \in [Process -> Alive \cup {"none", "ended", "answering"}]
      /\ Parent \in Process /\ \A c \in Child : c \in Process /\ c # Parent
      /\ 0 \in 0 .. Rounds
  BY DEF End, ProcInv, PlacesOK, Process, Parent, Child
<1>2. waiters' \in Seq(Process) /\ InLine' /\ OnePlaceEach' /\ NoneWaitsForQueued'
  <2>1. CASE at[Parent] # "blocked" /\ UNCHANGED waiters
    BY <1>1, <2>1
    DEF ProcInv, InLine, OnePlaceEach, NoneWaitsForQueued, Process, Parent, Child
  <2>2. CASE \E i \in DOMAIN waiters : waiters[i] = Parent /\ waiters' = RemoveAt(waiters, i)
    <3>1. PICK i \in DOMAIN waiters : waiters[i] = Parent /\ waiters' = RemoveAt(waiters, i)
      BY <2>2
    <3>2. at'[waiters[i]] # "blocked"
      BY <1>1, <3>1
    <3>3. \A q \in Process \ {waiters[i]} : at'[q] = "blocked" <=> at[q] = "blocked"
      BY <1>1, <3>1
    <3>4. waiters # << >>
      BY <3>1
    <3> QED  BY <1>1, <3>1, <3>2, <3>3, <3>4, LeaveLine DEF ProcInv, NoneWaitsForQueued
  <2> QED  BY <2>1, <2>2 DEF End
<1>3. PlacesOK'
  BY <1>1, <1>2 DEF ProcInv, PlacesOK, Alive, Process, Parent, Child
<1>4. NotForkedYet'
  BY <1>1 DEF ProcInv, NotForkedYet, Parent
<1>5. InFlight'
  <2>1. Cardinality(Answering(at')) = Cardinality(Answering(at))
    BY <1>1, NobodyStarts
  <2>2. stranded' + Awaited(at') = stranded + Awaited(at)
    BY <1>1 DEF Awaited, Awaiting
  <2> QED  BY <1>1, <2>1, <2>2, InFlightCounts, InFlightCountsNext DEF ProcInv
<1> QED  BY <1>2, <1>3, <1>4, <1>5 DEF ProcInv

LEMMA RestartKeepsProc ==
  ASSUME ProcInv, Restart
  PROVE  ProcInv'
<1>1. /\ runno' = runno + 1 /\ UNCHANGED <<round, queued, waiters, stranded>>
      /\ at' = [at EXCEPT ![Parent] = "msgget"] /\ at[Parent] = "ended"
      /\ runno \in 1 .. MaxRuns /\ runno < MaxRuns
      /\ at \in [Process -> Alive \cup {"none", "ended", "answering"}]
      /\ Parent \in Process /\ \A c \in Child : c \in Process /\ c # Parent
  BY DEF Restart, ProcInv, PlacesOK, Process, Parent, Child
<1>2. PlacesOK'
  BY <1>1 DEF ProcInv, PlacesOK, Alive, Process, Parent, Child
<1>3. InLine' /\ OnePlaceEach' /\ NoneWaitsForQueued'
  BY <1>1 DEF ProcInv, InLine, OnePlaceEach, NoneWaitsForQueued, Process, Parent, Child
<1>4. NotForkedYet'
  BY <1>1 DEF ProcInv, NotForkedYet, Parent, Child
<1>5. InFlight'
  <2>1. Cardinality(Answering(at')) = Cardinality(Answering(at))
    BY <1>1, NobodyStarts
  <2>2. Awaited(at') = Awaited(at)
    BY <1>1 DEF Awaited, Awaiting
  <2> QED  BY <1>1, <2>1, <2>2, InFlightCounts, InFlightCountsNext DEF ProcInv
<1> QED  BY <1>2, <1>3, <1>4, <1>5 DEF ProcInv

LEMMA InitEstablishesProc == ProcInit => ProcInv
<1> SUFFICES ASSUME ProcInit PROVE ProcInv
  OBVIOUS
<1>1. at \in [Process -> Alive \cup {"none", "ended", "answering"}]
  BY DEF ProcInit, Alive
<1>2. at[Parent] = "msgget" /\ \A c \in Child : at[c] = "none"
  BY DEF ProcInit, Process, Parent, Child
<1>3. PlacesOK
  BY <1>1, <1>2 DEF ProcInit, PlacesOK, Alive
<1>4. InLine /\ OnePlaceEach /\ NoneWaitsForQueued /\ NotForkedYet
  BY <1>2 DEF ProcInit, InLine, OnePlaceEach, NoneWaitsForQueued, NotForkedYet, Process
<1>5. InFlight
  <2>1. Answering(at) = {}
    BY <1>2 DEF Answering
  <2>2. Awaited(at) = 0
    BY <1>2 DEF Awaited, Awaiting
  <2> QED  BY <2>1, <2>2, FS_EmptySet, InFlightCounts DEF ProcInit
<1> QED  BY <1>3, <1>4, <1>5 DEF ProcInv

LEMMA NextKeepsProc == ProcInv /\ [ProcNext]_procvars => ProcInv'
<1> SUFFICES ASSUME ProcInv, [ProcNext]_procvars PROVE ProcInv'
  OBVIOUS
<1>1. /\ at \in [Process -> Alive \cup {"none", "ended", "answering"}]
      /\ runno \in 1 .. MaxRuns /\ round \in 0 .. Rounds /\ 1 \in 0 .. Rounds
      /\ Parent \in Process /\ runno \in Child /\ \A c \in Child : c \in Process /\ c # Parent
  BY DEF ProcInv, PlacesOK, Process, Parent, Child
<1>2. CASE OpenQueue
  BY <1>1, <1>2, QuietStep DEF OpenQueue, Alive, Awaiting
<1>3. CASE Fork
  <2>1. PICK child \in {"receiving", "none"} :
          at' = [at EXCEPT ![Parent] = "index", ![runno] = child]
    BY <1>3 DEF Fork
  <2>2. at[runno] = "none"
    BY <1>1, <1>3 DEF Fork, ProcInv, NotForkedYet
  <2>3. at' \in [Process -> Alive \cup {"none", "ended", "answering"}]
    BY <1>1, <2>1 DEF Alive
  <2>4. at'[Parent] = "index"
    BY <1>1, <2>1
  <2>5. \A c \in Child : at'[c] = at[c] \/ (c = runno /\ at'[c] = "receiving")
    BY <1>1, <2>1, <2>2
  <2> QED  BY <1>1, <1>3, <2>2, <2>3, <2>4, <2>5, QuietStep DEF Fork, Alive, Awaiting
<1>4. CASE BuildIndex
  BY <1>1, <1>4, QuietStep DEF BuildIndex, Alive, Awaiting
<1>5. CASE Exchange
  BY <1>1, <1>5, QuietStep DEF Exchange, Alive, Awaiting
<1>6. CASE Send
  BY <1>1, <1>6, SentKeepsProc DEF Send
<1>7. ASSUME NEW c \in Child, Answer(c) PROVE ProcInv'
  BY <1>1, <1>7, SentKeepsProc DEF Answer
<1>8. CASE UNCHANGED procvars
  <2>1. PlacesOK' /\ InLine' /\ OnePlaceEach' /\ NotForkedYet' /\ NoneWaitsForQueued'
    BY <1>8 DEF procvars, ProcInv, PlacesOK, InLine, OnePlaceEach, NotForkedYet,
               NoneWaitsForQueued
  <2>2. InFlight'
    BY <1>8 DEF procvars, ProcInv, InFlight
  <2> QED  BY <2>1, <2>2 DEF ProcInv
<1> QED  BY <1>2, <1>3, <1>4, <1>5, <1>6, <1>7, <1>8, ReceiveKeepsProc, EndKeepsProc,
            RestartKeepsProc DEF ProcNext

\* The line is as long as there are processes blocked.
LEMMA LineLength ==
  ASSUME ProcInv
  PROVE  Len(waiters) = Cardinality({p \in Process : at[p] = "blocked"})
<1> DEFINE B == {p \in Process : at[p] = "blocked"}
<1>1. /\ waiters \in Seq(Process) /\ Len(waiters) \in Nat /\ InLine /\ OnePlaceEach
      /\ DOMAIN waiters = 1 .. Len(waiters)
  BY DEF ProcInv, PlacesOK
<1>2. waiters \in [1 .. Len(waiters) -> B]
  <2>1. \A i \in 1 .. Len(waiters) : waiters[i] \in B
    BY <1>1, ElementOfSeq DEF InLine
  <2> QED  BY <1>1, <2>1
<1>3. waiters \in Bijection(1 .. Len(waiters), B)
  <2>1. \A i, j \in 1 .. Len(waiters) : waiters[i] = waiters[j] => i = j
    BY <1>1 DEF OnePlaceEach
  <2>2. \A p \in B : \E i \in 1 .. Len(waiters) : waiters[i] = p
    BY <1>1 DEF InLine
  <2> HIDE DEF B
  <2> QED  BY <1>2, <2>1, <2>2 DEF Bijection, Injection, Surjection, IsInjective
<1>4. ExistsBijection(1 .. Len(waiters), B)
  BY <1>3 DEF ExistsBijection
<1>5. IsFiniteSet(1 .. Len(waiters)) /\ Cardinality(1 .. Len(waiters)) = Len(waiters)
  BY <1>1, FS_Interval
<1> QED  BY <1>4, <1>5, FS_Bijection

LEMMA ProcInvTypes == ProcInv => ProcTypeOK
<1> SUFFICES ASSUME ProcInv PROVE ProcTypeOK
  OBVIOUS
<1>1. Len(waiters) = Cardinality({p \in Process : at[p] = "blocked"})
  BY LineLength
<1> QED  BY <1>1 DEF ProcTypeOK, ProcInv, PlacesOK, InLine, NoneWaitsForQueued

\* For any number of runs and rounds: of the messages in the queue and with the
\* children, one is for the exchange the parent is in and one for each exchange that
\* an earlier parent left, whoever took which (TiOCS.cpp:258-320).
THEOREM MessagesAreConserved == ProcSpec => []InFlight
<1>1. ProcInv => InFlight
  BY DEF ProcInv
<1> QED  BY <1>1, InitEstablishesProc, NextKeepsProc, PTL DEF ProcSpec

-----------------------------------------------------------------------------
(* main runs one part and leaves the others alone.                         *)

LEMMA StepsOfParts ==
  ASSUME [Next]_mainvars
  PROVE  /\ [LSMNext]_lsmvars /\ [KVNext]_kvvars /\ [LSNext]_lsvars
         /\ [ProcNext]_procvars /\ [ListNext]_listvars /\ [FlashNext]_flashvars
BY DEF Next, mainvars, GlobalInitialize, RunLSMTree, RunNoFTLKV, RunLSHash, RunTiOCS,
       RunIndex, RunHash

LEMMA RunsParts ==
  Spec => LSMSpec /\ KVSpec /\ LSSpec /\ ProcSpec /\ ListSpec /\ FlashSpec
<1>1. Init => LSMInit /\ KVInit /\ LSInit /\ ProcInit /\ ListInit /\ FlashInit
  BY DEF Init
<1>2. [Next]_mainvars =>
        /\ [LSMNext]_lsmvars /\ [KVNext]_kvvars /\ [LSNext]_lsvars
        /\ [ProcNext]_procvars /\ [ListNext]_listvars /\ [FlashNext]_flashvars
  BY StepsOfParts
<1> QED
  BY <1>1, <1>2, PTL DEF Spec, LSMSpec, KVSpec, LSSpec, ProcSpec, ListSpec, FlashSpec

\* Whichever index main selects and however it goes on, each of the invariants above
\* holds of the whole program, no flush of the LSM tree loses what it flushes, and the
\* skip list is a sorted chain.
THEOREM MainKeepsAll ==
  Spec => /\ [](DeepLevelsEmpty /\ NeverMissesHeld /\ EntriesWhereDue /\ InFlight)
          /\ [](UsageTracksDevice /\ PagesReadBack /\ RefusedOnlyPastErased)
          /\ []UpdatesStayInChunk
          /\ FlushKeepsBuffer /\ SkiplistIsSortedChain
BY RunsParts, DeepLevelsStayEmpty, LookupsMissNothing, EntriesStayWhereDue,
   MessagesAreConserved, UsageIsExact, BucketsReadBack, RefusalsComeLate, UpdatesNeverSpillEarly,
   FlushesLoseNothing, SkiplistRefines, PTL

\* So do those of the LSM tree without an FTL, if its buffer takes more than one entry.
THEOREM MainKeepsLiveKeys ==
  ASSUME BufferSize > 1
  PROVE  Spec => [](OneRunOnDevice /\ LiveKeysKept)
BY RunsParts, RunsStayAlone, LiveKeysAreKept, PTL

\* The state of every part stays well formed, whichever of them main runs.
THEOREM MainTypesAreKept ==
  ASSUME BufferSize > 1
  PROVE  Spec => []TypeOK
<1> DEFINE Selects == selected \in Port \cup {"none", "exited"}
<1>1. Init => Selects
  BY DEF Init
<1>2. Selects /\ [Next]_mainvars => Selects'
  BY DEF Next, mainvars, GlobalInitialize, RunLSMTree, RunNoFTLKV, RunLSHash, RunTiOCS,
         RunIndex, RunHash
<1>3. Spec => []Selects
  BY <1>1, <1>2, PTL DEF Spec
<1>4. ProcSpec => []ProcTypeOK
  BY InitEstablishesProc, NextKeepsProc, ProcInvTypes, PTL DEF ProcSpec
<1>5. FlashSpec => []FlashTypeOK
  BY InitEstablishesStore, NextKeepsStore, StoreInvTypes, PTL DEF FlashSpec
<1>6. /\ Selects /\ LSMTypeOK /\ KVTypeOK /\ LSTypeOK
      /\ ProcTypeOK /\ ListTypeOK /\ FlashTypeOK
      => TypeOK
  BY DEF TypeOK
<1> QED
  BY <1>3, <1>4, <1>5, <1>6, RunsParts, LSMTypesAreKept, KVTypesAreKept, LSTypesAreKept,
     ListTypesAreKept, PTL
=============================================================================
