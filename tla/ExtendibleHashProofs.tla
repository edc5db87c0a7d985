------------------------ MODULE ExtendibleHashProofs ------------------------
(***************************************************************************)
(* The extendible hash: its directory leads to the right buckets through   *)
(* all splits, doublings and merges, whatever writes and reads fail; and   *)
(* before a mishap entries lie where their keys lead, in memory and on     *)
(* pages, no page is shared, splits end, and a search finds what a key was *)
(* last given: for every set of keys and values, every size of a page and  *)
(* every initial depth.                                                    *)
(*                                                                         *)
(* The pages are what makes it hard.  A bucket that was split keeps the    *)
(* page it had, with all the entries from before; Search and Remove look   *)
(* there while it has none in memory.  The invariant says why they find    *)
(* nothing: whatever on such a page leads back to the bucket waits to be   *)
(* inserted, and once nothing waits the other half has a page of its own,  *)
(* so that nothing empty is merged with either of the two.                 *)
(***************************************************************************)
EXTENDS ExtendibleHash, BasicLemmas

USE HashAssumption

-----------------------------------------------------------------------------
(* Low bits.  What the remainders of the hash come to is stated once, with *)
(* a name for i % 2^d, and used without its definition.                    *)

Bits(i, d) == i % 2^d

Indexes(d) == 0 .. (2^d - 1)

LEMMA IndexesType ==
  ASSUME NEW d \in Nat
  PROVE  /\ Indexes(d) \subseteq Nat /\ 0 \in Indexes(d)
         /\ \A e \in Nat : d <= e => Indexes(d) \subseteq Indexes(e)
<1>1. \A e \in Nat : 2^e \in Nat \ {0}
  BY PowerType
<1>2. \A e \in Nat : d <= e => 2^d <= 2^e
  BY PowersAscend
<1> QED  BY <1>1, <1>2 DEF Indexes

LEMMA BitsFacts ==
  /\ \A i, d \in Nat : Bits(i, d) \in Indexes(d)
  /\ \A d \in Nat : \A i \in Indexes(d) : Bits(i, d) = i
  /\ \A i, d, e \in Nat : d <= e => Bits(Bits(i, e), d) = Bits(i, d)
  /\ \A i, j, d, e \in Nat : d <= e /\ Bits(i, e) = Bits(j, e) => Bits(i, d) = Bits(j, d)
<1>1. \A i, d \in Nat : Bits(i, d) \in Indexes(d)
  BY LowBitsType DEF Bits, Indexes
<1>2. \A d \in Nat : \A i \in Indexes(d) : Bits(i, d) = i
  BY LowBitsOfSmall DEF Bits, Indexes
<1>3. \A i, d, e \in Nat : d <= e => Bits(Bits(i, e), d) = Bits(i, d)
  BY LowBits DEF Bits
<1>4. \A i, j, d, e \in Nat : d <= e /\ Bits(i, e) = Bits(j, e) => Bits(i, d) = Bits(j, d)
  <2>1. SUFFICES ASSUME NEW i \in Nat, NEW j \in Nat, NEW d \in Nat, NEW e \in Nat,
                        d <= e, Bits(i, e) = Bits(j, e)
                 PROVE  Bits(i, d) = Bits(j, d)
    OBVIOUS
  <2>2. Bits(Bits(i, e), d) = Bits(i, d) /\ Bits(Bits(j, e), d) = Bits(j, d)
    BY <1>3, <2>1
  <2> QED  BY <2>1, <2>2
<1> QED  BY <1>1, <1>2, <1>3, <1>4

\* The pair of an index differs from it in its last bit alone, and is an index of
\* the same directory.
LEMMA PairDiffers ==
  ASSUME NEW n \in Nat, NEW d \in Nat \ {0}
  PROVE  /\ pairIndex(n, d) \in Nat
         /\ Bits(pairIndex(n, d), d - 1) = Bits(n, d - 1)
         /\ Bits(pairIndex(n, d), d) # Bits(n, d)
         /\ \A i \in Nat : Bits(i, d - 1) = Bits(n, d - 1) =>
              Bits(i, d) \in {Bits(n, d), Bits(pairIndex(n, d), d)}
<1> DEFINE m == 2^(d - 1)
           q == n \div m
           r == (n % m)
           p == pairIndex(n, d)
           u == p \div m
<1>1. m \in Nat \ {0} /\ d - 1 \in Nat /\ (d - 1) + 1 = d
  BY PowerType
<1>2. q \in Nat /\ r \in 0 .. (m - 1) /\ n = m * q + r
  <2> HIDE DEF m
  <2> QED  BY <1>1, QuotientAndRemainder
<1>3. \A i \in Nat : (i % 2^d) = IF (i \div m) % 2 = 0 THEN (i % m) ELSE (i % m) + m
  BY <1>1, OneMoreBit
<1>4. p = IF (q % 2) = 0 THEN n + m ELSE n - m
  BY DEF pairIndex
<1> HIDE DEF m, q, r, p
<1>5. m * (q + 1) = m * q + m /\ (q # 0 => m * (q - 1) = m * q - m)
  BY <1>1, <1>2
<1>6. p \in Nat /\ (p % m) = r /\ ((u % 2) = 0 <=> (q % 2) # 0)
  <2> DEFINE x == m * q
  <2>0. x \in Nat /\ n = x + r
    BY <1>1, <1>2
  <2>1. CASE (q % 2) = 0
    <3>1. p = m * (q + 1) + r /\ q + 1 \in Nat
      <4>1. m * (q + 1) = x + m /\ p = n + m
        BY <1>4, <1>5, <2>1
      <4> HIDE DEF x
      <4> QED  BY <1>1, <1>2, <2>0, <4>1
    <3>2. (p % m) = r /\ u = q + 1
      BY <1>1, <1>2, <3>1, RemainderIsUnique
    <3>3. p \in Nat
      BY <1>1, <1>2, <1>4, <2>1
    <3>4. ((q + 1) % 2) = 1
      BY <1>2, <2>1
    <3> QED  BY <2>1, <3>2, <3>3, <3>4
  <2>2. CASE (q % 2) # 0
    <3>0. q # 0 /\ q - 1 \in Nat /\ ((q - 1) % 2) = 0
      BY <1>2, <2>2
    <3>1. p = m * (q - 1) + r
      <4>1. m * (q - 1) = x - m /\ p = n - m
        BY <1>4, <1>5, <2>2, <3>0
      <4> HIDE DEF x
      <4> QED  BY <1>1, <1>2, <2>0, <4>1
    <3>2. (p % m) = r /\ u = q - 1
      BY <1>1, <1>2, <3>0, <3>1, RemainderIsUnique
    <3>3. m * (q - 1) \in Nat
      BY <1>1, <3>0
    <3>4. p \in Nat
      BY <1>1, <1>2, <3>1, <3>3
    <3> QED  BY <2>2, <3>0, <3>2, <3>4
  <2> QED  BY <2>1, <2>2
<1> DEFINE Top(i) == (i \div m) % 2
<1>7. \A i \in Nat : (i % 2^d) = IF Top(i) = 0 THEN (i % m) ELSE (i % m) + m
  BY <1>3
<1>8. (Top(p) = 0 <=> Top(n) # 0) /\ (p % m) = (n % m) /\ (n % m) = r
  BY <1>6 DEF q, r, u
<1> HIDE DEF Top
<1>9. (p % 2^d) # (n % 2^d)
  BY <1>1, <1>2, <1>6, <1>7, <1>8
<1>10. ASSUME NEW i \in Nat, (i % m) = (n % m)
       PROVE  (i % 2^d) \in {(n % 2^d), (p % 2^d)}
  BY <1>6, <1>7, <1>8, <1>10
<1> QED  BY <1>6, <1>8, <1>9, <1>10 DEF Bits, m, p

LEMMA PairIsIndex ==
  ASSUME NEW d \in Nat \ {0}, NEW e \in Nat, d <= e, NEW n \in Indexes(e)
  PROVE  pairIndex(n, d) \in Indexes(e)
<1> DEFINE m == 2^(d - 1)
           w == 2^d
           h == n \div w
           p == pairIndex(n, d)
<1>1. m \in Nat \ {0} /\ (d - 1) + 1 = d /\ d - 1 \in Nat /\ w \in Nat \ {0} /\ w = 2 * m
  BY PowerType, PowerOfNext
<1>2. PICK k \in Nat \ {0} : 2^e = k * w
  BY PowerDivides
<1>3. n \in Nat /\ n < 2^e
  BY PowerType DEF Indexes
<1>4. (n % w) = IF (n \div m) % 2 = 0 THEN (n % m) ELSE (n % m) + m
  BY <1>1, <1>3, OneMoreBit
<1>5. p = IF (n \div m) % 2 = 0 THEN n + m ELSE n - m
  BY DEF pairIndex
<1>6. p \in Nat
  BY <1>3, PairDiffers
<1> HIDE DEF m, w
<1>7. h \in Nat /\ (n % w) \in 0 .. (w - 1) /\ n = w * h + (n % w) /\ (n % m) \in 0 .. (m - 1)
  BY <1>1, <1>3, QuotientAndRemainder
<1> HIDE DEF h, p
<1>8. CASE (n \div m) % 2 = 0
  <2> DEFINE r == (n % w)
             x == w * h
             y == k * w
  <2>1. r \in 0 .. (m - 1) /\ n = x + r /\ p = n + m /\ n < y /\ x \in Nat /\ y \in Nat
    BY <1>1, <1>2, <1>3, <1>4, <1>5, <1>7, <1>8
  <2>2. h < k
    <3>1. ASSUME k <= h PROVE y <= x
      BY <1>1, <1>2, <1>7, <3>1
    <3> HIDE DEF x, y, r
    <3> QED  BY <1>2, <1>7, <2>1, <3>1
  <2>3. x + w <= y
    <3>1. h + 1 <= k
      BY <1>2, <1>7, <2>2
    <3>2. w * (h + 1) = x + w /\ w * (h + 1) <= w * k /\ w * k = y
      BY <1>1, <1>2, <1>7, <3>1
    <3> HIDE DEF x, y
    <3> QED  BY <3>2
  <2> HIDE DEF x, y, r
  <2>4. p < y
    BY <1>1, <2>1, <2>3
  <2> QED  BY <1>2, <1>6, <2>4 DEF y, p, Indexes
<1>9. CASE (n \div m) % 2 # 0
  <2>1. p < n
    BY <1>1, <1>3, <1>5, <1>9
  <2>2. p <= 2^e - 1
    BY <1>3, <1>6, <2>1, PowerType
  <2> QED  BY <1>6, <2>2 DEF p, Indexes
<1> QED  BY <1>8, <1>9

-----------------------------------------------------------------------------
(* The directory.  dep is the depth of each bucket.                        *)

Consistent(dir, set, dep) ==
  /\ {dir[i] : i \in DOMAIN dir} = set
  /\ \A i, j \in DOMAIN dir :
       dir[i] = dir[j] <=> Bits(i, dep[dir[i]]) = Bits(j, dep[dir[i]])

\* The directory after a split: grown, if the depth of the halves needs it, and with
\* the new half behind the pair of n.
Unfolded(dir, g, h) == [i \in Indexes(h) |-> dir[Bits(i, g)]]

LEMMA UnfoldedConsistent ==
  ASSUME NEW g \in Nat, NEW h \in Nat, g <= h, NEW set, NEW dir \in [Indexes(g) -> set],
         NEW dep \in [set -> 1 .. g], Consistent(dir, set, dep)
  PROVE  /\ Unfolded(dir, g, h) \in [Indexes(h) -> set]
         /\ Consistent(Unfolded(dir, g, h), set, dep)
         /\ \A i \in Indexes(g) : Unfolded(dir, g, h)[i] = dir[i]
<1> DEFINE new == Unfolded(dir, g, h)
<1>1. Indexes(g) \subseteq Nat /\ Indexes(h) \subseteq Nat /\ Indexes(g) \subseteq Indexes(h)
  BY IndexesType
<1>2. new \in [Indexes(h) -> set] /\ \A i \in Indexes(h) : new[i] = dir[Bits(i, g)]
  BY <1>1, BitsFacts DEF Unfolded
<1>3. \A i \in Indexes(g) : new[i] = dir[i]
  BY <1>1, <1>2, BitsFacts
<1>4. {dir[i] : i \in Indexes(g)} = set
  BY DEF Consistent
<1> HIDE DEF new
<1>5. {new[i] : i \in DOMAIN new} = set
  <2>1. \A i \in Indexes(h) : new[i] \in set
    BY <1>2
  <2>2. \A x \in set : \E i \in Indexes(h) : new[i] = x
    BY <1>1, <1>3, <1>4
  <2> QED  BY <1>2, <2>1, <2>2
<1>6. ASSUME NEW i \in DOMAIN new, NEW j \in DOMAIN new
      PROVE  new[i] = new[j] <=> Bits(i, dep[new[i]]) = Bits(j, dep[new[i]])
  <2> DEFINE a == Bits(i, g)
             b == Bits(j, g)
             d == dep[dir[a]]
  <2>1. i \in Nat /\ j \in Nat /\ a \in Indexes(g) /\ b \in Indexes(g) /\ new[i] = dir[a] /\ new[j] = dir[b]
    BY <1>1, <1>2, BitsFacts
  <2>2. d \in Nat /\ d <= g
    BY <2>1
  <2>3. Bits(a, d) = Bits(i, d) /\ Bits(b, d) = Bits(j, d)
    <3> HIDE DEF d
    <3> QED  BY <2>1, <2>2, BitsFacts
  <2>4. dir[a] = dir[b] <=> Bits(a, d) = Bits(b, d)
    BY <2>1 DEF Consistent
  <2> HIDE DEF a, b
  <2> QED  BY <2>1, <2>3, <2>4
<1> QED  BY <1>2, <1>3, <1>5, <1>6 DEF new, Consistent

LEMMA SplitConsistent ==
  ASSUME NEW h \in Nat, NEW set, NEW dir \in [Indexes(h) -> set],
         NEW dep \in [set -> 1 .. h], Consistent(dir, set, dep),
         NEW n \in Indexes(h), NEW d, d = dep[dir[n]] + 1, d <= h,
         NEW new, new \notin set,
         NEW dir2, dir2 = Repoint(dir, pairIndex(n, d), d, new),
         NEW dep2 \in [set \cup {new} -> 1 .. h], dep2[new] = d, dep2[dir[n]] = d,
         \A x \in set \ {dir[n]} : dep2[x] = dep[x]
  PROVE  /\ dir2 \in [Indexes(h) -> set \cup {new}]
         /\ Consistent(dir2, set \cup {new}, dep2)
         /\ \A i \in Indexes(h) : dir[i] # dir[n] => dir2[i] = dir[i]
<1> DEFINE p == pairIndex(n, d)
           old == dir[n]
<1>0. Indexes(h) \subseteq Nat /\ n \in Nat
  BY IndexesType
<1>1. old \in set /\ d \in Nat \ {0} /\ d - 1 \in Nat /\ d - 1 <= d /\ dep[old] = d - 1 /\ new # old
  OBVIOUS
<1>2. /\ p \in Nat /\ Bits(p, d - 1) = Bits(n, d - 1) /\ Bits(p, d) # Bits(n, d)
      /\ \A i \in Nat : Bits(i, d - 1) = Bits(n, d - 1) => Bits(i, d) \in {Bits(n, d), Bits(p, d)}
  BY <1>0, <1>1, PairDiffers
<1>3. /\ dir2 \in [Indexes(h) -> set \cup {new}]
      /\ \A i \in Indexes(h) : dir2[i] = IF Bits(i, d) = Bits(p, d) THEN new ELSE dir[i]
  BY DEF Repoint, Bits
<1> HIDE DEF p
<1>4. \A i \in Indexes(h) : dir[i] = old <=> Bits(i, d - 1) = Bits(n, d - 1)
  BY <1>1 DEF Consistent
<1>5. \A i \in Indexes(h) : Bits(i, d) = Bits(p, d) => dir[i] = old
  <2>1. SUFFICES ASSUME NEW i \in Indexes(h), Bits(i, d) = Bits(p, d) PROVE dir[i] = old
    OBVIOUS
  <2>2. Bits(i, d - 1) = Bits(p, d - 1)
    BY <1>0, <1>1, <1>2, <2>1, BitsFacts
  <2> QED  BY <1>2, <1>4, <2>2
<1>6. \A i \in Indexes(h) : Bits(i, d) = Bits(n, d) => dir[i] = old
  <2>1. SUFFICES ASSUME NEW i \in Indexes(h), Bits(i, d) = Bits(n, d) PROVE dir[i] = old
    OBVIOUS
  <2>2. Bits(i, d - 1) = Bits(n, d - 1)
    BY <1>0, <1>1, <2>1, BitsFacts
  <2> QED  BY <1>4, <2>2
<1>7. \A i \in Indexes(h) : dir2[i] = new <=> Bits(i, d) = Bits(p, d)
  BY <1>3
<1>8. \A i \in Indexes(h) : dir2[i] = old <=> Bits(i, d) = Bits(n, d)
  BY <1>0, <1>1, <1>2, <1>3, <1>4, <1>6
<1>9. \A i \in Indexes(h) : \A x \in set \ {old} : dir2[i] = x <=> dir[i] = x
  BY <1>3, <1>5
<1>10. {dir2[i] : i \in DOMAIN dir2} = set \cup {new}
  <2>1. dir2[n] = old
    BY <1>8
  <2>2. \E i \in Indexes(h) : dir2[i] = new
    <3>1. Bits(p, d) \in Indexes(h)
      BY <1>1, <1>2, BitsFacts, IndexesType
    <3>2. Bits(Bits(p, d), d) = Bits(p, d)
      BY <1>1, <1>2, BitsFacts
    <3> QED  BY <1>7, <3>1, <3>2
  <2>3. \A x \in set : \E i \in Indexes(h) : dir[i] = x
    BY DEF Consistent
  <2>4. \A x \in set \ {old} : \E i \in Indexes(h) : dir2[i] = x
    BY <1>9, <2>3
  <2> QED  BY <1>3, <2>1, <2>2, <2>4
<1>11. ASSUME NEW i \in Indexes(h), NEW j \in Indexes(h)
       PROVE  dir2[i] = dir2[j] <=> Bits(i, dep2[dir2[i]]) = Bits(j, dep2[dir2[i]])
  <2>1. CASE dir2[i] = new
    BY <1>7, <2>1
  <2>2. CASE dir2[i] = old
    BY <1>8, <2>2
  <2>3. CASE dir2[i] \in set \ {old}
    <3>1. dep2[dir2[i]] = dep[dir[i]] /\ dir[i] = dir2[i]
      BY <1>9, <2>3
    <3>2. dir2[j] = dir2[i] <=> dir[j] = dir[i]
      BY <1>9, <2>3, <3>1
    <3> QED  BY <3>1, <3>2 DEF Consistent
  <2> QED  BY <1>3, <2>1, <2>2, <2>3
<1> QED  BY <1>3, <1>9, <1>10, <1>11 DEF Consistent

LEMMA MergeConsistent ==
  ASSUME NEW g \in Nat, NEW set, NEW dir \in [Indexes(g) -> set],
         NEW dep \in [set -> 1 .. g], Consistent(dir, set, dep),
         NEW n \in Indexes(g), NEW d, d = dep[dir[n]], d > 1,
         NEW pair, pair = dir[pairIndex(n, d)], dep[pair] = d,
         NEW dir2, dir2 = Repoint(dir, n, d, pair),
         NEW dep2 \in [set \ {dir[n]} -> 1 .. g], dep2[pair] = d - 1,
         \A x \in set \ {dir[n], pair} : dep2[x] = dep[x]
  PROVE  /\ dir2 \in [Indexes(g) -> set \ {dir[n]}]
         /\ Consistent(dir2, set \ {dir[n]}, dep2)
         /\ \A i \in Indexes(g) : dir[i] # dir[n] => dir2[i] = dir[i]
         /\ pair \in set \ {dir[n]}
<1> DEFINE p == pairIndex(n, d)
           old == dir[n]
<1>0. Indexes(g) \subseteq Nat /\ n \in Nat
  BY IndexesType
<1>1. old \in set /\ d \in Nat \ {0} /\ d <= g /\ d - 1 \in Nat /\ d - 1 <= d
  OBVIOUS
<1>2. /\ p \in Nat /\ Bits(p, d - 1) = Bits(n, d - 1) /\ Bits(p, d) # Bits(n, d)
      /\ \A i \in Nat : Bits(i, d - 1) = Bits(n, d - 1) => Bits(i, d) \in {Bits(n, d), Bits(p, d)}
  BY <1>0, <1>1, PairDiffers
<1>3. p \in Indexes(g)
  BY <1>1, PairIsIndex
<1>4. dir2 = [i \in Indexes(g) |-> IF Bits(i, d) = Bits(n, d) THEN pair ELSE dir[i]]
  BY DEF Repoint, Bits
<1> HIDE DEF p
<1>5. pair = dir[p] /\ pair \in set
  BY <1>3 DEF p
<1>6. \A i \in Indexes(g) : dir[i] = old <=> Bits(i, d) = Bits(n, d)
  BY DEF Consistent
<1>7. \A i \in Indexes(g) : dir[i] = pair <=> Bits(i, d) = Bits(p, d)
  BY <1>3, <1>5 DEF Consistent
<1>8. pair # old
  BY <1>2, <1>3, <1>5, <1>6
<1>9. /\ dir2 \in [Indexes(g) -> set \ {old}]
      /\ \A i \in Indexes(g) : dir2[i] = IF dir[i] = old THEN pair ELSE dir[i]
  BY <1>4, <1>5, <1>6, <1>8
<1>10. \A i \in Indexes(g) : dir2[i] = pair <=> Bits(i, d - 1) = Bits(n, d - 1)
  <2>1. SUFFICES ASSUME NEW i \in Indexes(g)
                 PROVE  dir2[i] = pair <=> Bits(i, d - 1) = Bits(n, d - 1)
    OBVIOUS
  <2>2. dir2[i] = pair <=> Bits(i, d) \in {Bits(n, d), Bits(p, d)}
    BY <1>6, <1>7, <1>9
  <2>3. Bits(i, d) = Bits(n, d) => Bits(i, d - 1) = Bits(n, d - 1)
    BY <1>0, <1>1, BitsFacts
  <2>4. Bits(i, d) = Bits(p, d) => Bits(i, d - 1) = Bits(p, d - 1)
    BY <1>0, <1>1, <1>2, BitsFacts
  <2>5. Bits(i, d - 1) = Bits(n, d - 1) => Bits(i, d) \in {Bits(n, d), Bits(p, d)}
    BY <1>0, <1>2
  <2> QED  BY <1>2, <2>2, <2>3, <2>4, <2>5
<1>11. \A i \in Indexes(g) : \A x \in set \ {old, pair} : dir2[i] = x <=> dir[i] = x
  BY <1>9
<1>12. {dir2[i] : i \in DOMAIN dir2} = set \ {old}
  <2>1. \A x \in set : \E i \in Indexes(g) : dir[i] = x
    BY DEF Consistent
  <2>2. \A x \in set \ {old} : \E i \in Indexes(g) : dir2[i] = x
    BY <1>9, <2>1
  <2> QED  BY <1>9, <2>2
<1>13. ASSUME NEW i \in Indexes(g), NEW j \in Indexes(g)
       PROVE  dir2[i] = dir2[j] <=> Bits(i, dep2[dir2[i]]) = Bits(j, dep2[dir2[i]])
  <2>1. CASE dir2[i] = pair
    BY <1>10, <2>1
  <2>2. CASE dir2[i] # pair
    <3>1. dir2[i] \in set \ {old, pair} /\ dir[i] = dir2[i] /\ dep2[dir2[i]] = dep[dir[i]]
      BY <1>9, <2>2
    <3>2. dir2[j] = dir2[i] <=> dir[j] = dir[i]
      BY <1>11, <3>1
    <3> QED  BY <3>1, <3>2 DEF Consistent
  <2> QED  BY <2>1, <2>2
<1> QED  BY <1>5, <1>8, <1>9, <1>12, <1>13 DEF Consistent

-----------------------------------------------------------------------------
(* Contents of buckets and pages: functions from finitely many keys.       *)

LEMMA NothingAndBlank ==
  /\ Nothing \in Contents /\ DOMAIN Nothing = {} /\ Cardinality(DOMAIN Nothing) = 0
  /\ Blank \in Contents /\ DOMAIN Blank = {0} /\ Cardinality(DOMAIN Blank) = 1
<1>1. DOMAIN Nothing = {} /\ Nothing \in [{} -> Nat]
  BY DEF Nothing
<1>2. DOMAIN Blank = {0} /\ Blank \in [{0} -> Nat]
  BY DEF Blank
<1>3. IsFiniteSet({}) /\ Cardinality({}) = 0 /\ IsFiniteSet({0}) /\ Cardinality({0}) = 1
  BY FS_EmptySet, FS_Singleton
<1> QED  BY <1>1, <1>2, <1>3, ContentsFacts

LEMMA SetKeepsContents ==
  ASSUME NEW c \in Contents, NEW k \in Nat, NEW v \in Nat
  PROVE  /\ Set(c, k, v) \in Contents
         /\ DOMAIN Set(c, k, v) = DOMAIN c \cup {k}
         /\ Cardinality(DOMAIN Set(c, k, v)) =
              IF k \in DOMAIN c THEN Cardinality(DOMAIN c) ELSE Cardinality(DOMAIN c) + 1
<1>1. DOMAIN c \in SUBSET Nat /\ IsFiniteSet(DOMAIN c) /\ c \in [DOMAIN c -> Nat]
  BY ContentsFacts
<1>2. DOMAIN Set(c, k, v) = DOMAIN c \cup {k} /\ Set(c, k, v) \in [DOMAIN c \cup {k} -> Nat]
  BY <1>1 DEF Set
<1>3. /\ IsFiniteSet(DOMAIN c \cup {k})
      /\ Cardinality(DOMAIN c \cup {k}) =
           IF k \in DOMAIN c THEN Cardinality(DOMAIN c) ELSE Cardinality(DOMAIN c) + 1
  BY <1>1, FS_AddElement
<1> QED  BY <1>1, <1>2, <1>3, ContentsFacts

LEMMA WithoutKeepsContents ==
  ASSUME NEW c \in Contents, NEW k
  PROVE  /\ Without(c, k) \in Contents
         /\ DOMAIN Without(c, k) = DOMAIN c \ {k}
         /\ Cardinality(DOMAIN Without(c, k)) =
              IF k \in DOMAIN c THEN Cardinality(DOMAIN c) - 1 ELSE Cardinality(DOMAIN c)
<1>1. DOMAIN c \in SUBSET Nat /\ IsFiniteSet(DOMAIN c) /\ c \in [DOMAIN c -> Nat]
  BY ContentsFacts
<1>2. DOMAIN Without(c, k) = DOMAIN c \ {k} /\ Without(c, k) \in [DOMAIN c \ {k} -> Nat]
  BY <1>1 DEF Without
<1>3. /\ IsFiniteSet(DOMAIN c \ {k})
      /\ Cardinality(DOMAIN c \ {k}) =
           IF k \in DOMAIN c THEN Cardinality(DOMAIN c) - 1 ELSE Cardinality(DOMAIN c)
  BY <1>1, FS_RemoveElement
<1> QED  BY <1>1, <1>2, <1>3, ContentsFacts

LEMMA InOrderType ==
  ASSUME NEW S \in SUBSET Nat, IsFiniteSet(S)
  PROVE  /\ InOrder(S) \in Seq(S)
         /\ \A k \in S : \E i \in DOMAIN InOrder(S) :
              \A j \in DOMAIN InOrder(S) : InOrder(S)[j] = k <=> j = i
<1>1. InOrder(S) = Ranked(S)
  BY DEF InOrder, Ranked
<1> QED  BY <1>1, RankedProperties

\* A number that no bucket has yet is among the first ones.
LEMMA NewIsNew ==
  ASSUME NEW S \in SUBSET Nat, IsFiniteSet(S)
  PROVE  Min((0 .. Cardinality(S)) \ S) \in Nat \ S
<1> DEFINE n == Cardinality(S)
           F == (0 .. n) \ S
<1>1. n \in Nat
  BY FS_CardinalityType
<1>2. F # {}
  <2>1. SUFFICES ASSUME 0 .. n \subseteq S PROVE FALSE
    OBVIOUS
  <2>2. Cardinality(0 .. n) = n + 1
    BY <1>1, FS_Interval
  <2>3. Cardinality(0 .. n) <= n
    BY <2>1, FS_Subset
  <2> HIDE DEF n
  <2> QED  BY <1>1, <2>2, <2>3
<1>3. F \in SUBSET Nat
  BY <1>1
<1>4. Min(F) = CHOOSE x \in F : \A y \in F : x <= y
  BY DEF Min
<1> HIDE DEF F
<1>5. Min(F) \in F
  BY <1>2, <1>3, <1>4, LeastOfNats
<1> QED  BY <1>3, <1>5 DEF F

-----------------------------------------------------------------------------
(* Types, and the directory they are about.                                *)

Good(g) ==
  {bk \in [depth : 1 .. g, size : 0 .. MaxSize, PageNum : Nat \cup {NoPage}, values : Contents] :
     Cardinality(DOMAIN bk.values) <= bk.size}

PageContents == {c \in Contents : Cardinality(DOMAIN c) <= bucket_size}

PagesOK(pg) == \E n \in Nat : pg \in [0 .. (n - 1) -> PageContents]

Insertion == [key : Nat, val : Nat]

HashTypes ==
  /\ global_depth \in Nat \ {0}
  /\ DOMAIN bucket \in SUBSET Nat /\ IsFiniteSet(DOMAIN bucket)
  /\ bucket \in [DOMAIN bucket -> Good(global_depth)]
  /\ buckets \in [Indexes(global_depth) -> DOMAIN bucket]
  /\ PagesOK(page)
  /\ todo \in Seq(Insertion)
  /\ status \in {"running", "exited", "aborted"}

DepthOf == [b \in DOMAIN bucket |-> bucket[b].depth]

HashInv == HashTypes /\ Consistent(buckets, DOMAIN bucket, DepthOf)

LEMMA GoodFacts ==
  ASSUME NEW g \in Nat, NEW bk \in Good(g)
  PROVE  /\ bk \in [depth : 1 .. g, size : 0 .. MaxSize, PageNum : Nat \cup {NoPage}, values : Contents]
         /\ bk.depth \in 1 .. g /\ bk.size \in 0 .. MaxSize /\ bk.PageNum \in Nat \cup {NoPage}
         /\ bk.values \in Contents
         /\ Cardinality(DOMAIN bk.values) \in Nat /\ Cardinality(DOMAIN bk.values) <= bk.size
BY ContentsCount DEF Good

LEMMA BucketOfKey ==
  ASSUME HashTypes, NEW k \in Nat
  PROVE  /\ hash(k) \in Indexes(global_depth) /\ hash(k) = Bits(k, global_depth)
         /\ BucketOf(k) \in DOMAIN bucket /\ BucketOf(k) = buckets[hash(k)]
         /\ bucket[BucketOf(k)] \in Good(global_depth)
<1>1. global_depth \in Nat
  BY DEF HashTypes
<1>2. hash(k) = Bits(k, global_depth)
  BY DEF hash, Bits
<1>3. hash(k) \in Indexes(global_depth)
  BY <1>1, <1>2, BitsFacts
<1> QED  BY <1>2, <1>3 DEF HashTypes, BucketOf

LEMMA PagesCount ==
  ASSUME NEW pg, PagesOK(pg)
  PROVE  /\ Cardinality(DOMAIN pg) \in Nat
         /\ DOMAIN pg = 0 .. (Cardinality(DOMAIN pg) - 1)
         /\ pg \in [DOMAIN pg -> PageContents]
         /\ Cardinality(DOMAIN pg) \notin DOMAIN pg
<1>1. PICK n \in Nat : pg \in [0 .. (n - 1) -> PageContents]
  BY DEF PagesOK
<1>2. DOMAIN pg = 0 .. (n - 1)
  BY <1>1
<1>3. Cardinality(0 .. (n - 1)) = n
  <2>1. 0 \in Int /\ n - 1 \in Int
    OBVIOUS
  <2>2. Cardinality(0 .. (n - 1)) = IF 0 > n - 1 THEN 0 ELSE (n - 1) - 0 + 1
    BY <2>1, FS_Interval
  <2> QED  BY <2>2
<1> QED  BY <1>1, <1>2, <1>3

LEMMA PageReadType ==
  ASSUME HashTypes, NEW p
  PROVE  PageRead(p) \in PageContents
<1>1. page \in [DOMAIN page -> PageContents]
  BY PagesCount DEF HashTypes
<1>2. Blank \in PageContents
  BY NothingAndBlank DEF PageContents
<1> QED  BY <1>1, <1>2 DEF PageRead

LEMMA PageUpdateType ==
  ASSUME HashTypes, NEW p, NEW entries \in PageContents, PageUpdate(p, entries)
  PROVE  PagesOK(page')
<1>1. PICK n \in Nat : page \in [0 .. (n - 1) -> PageContents]
  BY DEF HashTypes, PagesOK
<1>2. Blank \in PageContents
  BY NothingAndBlank DEF PageContents
<1>3. CASE UNCHANGED page
  BY <1>1, <1>3 DEF PagesOK
<1>4. ASSUME NEW lost,
             page' = [q \in DOMAIN page |-> IF q \in lost THEN Blank
                                            ELSE IF q = p THEN entries ELSE page[q]]
      PROVE  PagesOK(page')
  <2>1. page' \in [0 .. (n - 1) -> PageContents]
    BY <1>1, <1>2, <1>4
  <2> QED  BY <2>1 DEF PagesOK
<1> QED  BY <1>3, <1>4 DEF PageUpdate

LEMMA PageAppendType ==
  ASSUME HashTypes, NEW entries \in PageContents, PageAppend(entries)
  PROVE  PagesOK(page')
<1>1. PICK n \in Nat : page \in [0 .. (n - 1) -> PageContents]
  BY DEF HashTypes, PagesOK
<1>2. CASE UNCHANGED page
  BY <1>1, <1>2 DEF PagesOK
<1>3. CASE page' = Set(page, sectorpointer, entries)
  <2>1. sectorpointer \in Nat /\ DOMAIN page = 0 .. (sectorpointer - 1)
    BY PagesCount DEF HashTypes, sectorpointer
  <2> DEFINE s == sectorpointer
  <2> HIDE DEF s
  <2>2. s \in Nat /\ DOMAIN page = 0 .. (s - 1) /\ page' = Set(page, s, entries)
    BY <1>3, <2>1 DEF s
  <2>3. 0 .. (s - 1) \cup {s} = 0 .. ((s + 1) - 1)
    BY <2>2
  <2>4. page' \in [0 .. ((s + 1) - 1) -> PageContents]
    BY <1>1, <2>2, <2>3 DEF Set
  <2>5. s + 1 \in Nat
    BY <2>2
  <2> QED  BY <2>4, <2>5 DEF PagesOK
<1> QED  BY <1>2, <1>3 DEF PageAppend

\* A bucket that keeps its depth may change in place.
LEMMA ReplaceKeepsHash ==
  ASSUME HashInv, NEW b \in DOMAIN bucket, NEW bk \in Good(global_depth),
         bk.depth = bucket[b].depth, bucket' = [bucket EXCEPT ![b] = bk],
         UNCHANGED <<global_depth, buckets>>,
         PagesOK(page'), todo' \in Seq(Insertion),
         status' \in {"running", "exited", "aborted"}
  PROVE  HashInv'
<1>1. bucket \in [DOMAIN bucket -> Good(global_depth)]
  BY DEF HashInv, HashTypes
<1>2. /\ DOMAIN bucket' = DOMAIN bucket /\ bucket' \in [DOMAIN bucket -> Good(global_depth)]
      /\ \A x \in DOMAIN bucket : bucket'[x].depth = bucket[x].depth
  BY <1>1
<1>3. HashTypes'
  BY <1>2 DEF HashInv, HashTypes
<1>4. DepthOf' = DepthOf
  BY <1>2 DEF DepthOf
<1> QED  BY <1>2, <1>3, <1>4 DEF HashInv

LEMMA PageWriteKeepsHash ==
  ASSUME HashInv, NEW b \in DOMAIN bucket, NEW bk \in Good(global_depth),
         bk.depth = bucket[b].depth, bk.values \in PageContents, PageWrite(b, bk),
         UNCHANGED <<global_depth, buckets>>, todo' \in Seq(Insertion),
         status' \in {"running", "exited", "aborted"}
  PROVE  HashInv'
<1>1. global_depth \in Nat /\ HashTypes
  BY DEF HashInv, HashTypes
<1>2. bk \in [depth : 1 .. global_depth, size : 0 .. MaxSize, PageNum : Nat \cup {NoPage}, values : Contents]
  BY <1>1, GoodFacts
<1>3. ASSUME bk.PageNum = NoPage PROVE HashInv'
  <2> DEFINE next == [bk EXCEPT !.PageNum = sectorpointer, !.values = Nothing]
  <2>1. PageAppend(bk.values) /\ bucket' = [bucket EXCEPT ![b] = next]
    BY <1>3 DEF PageWrite
  <2>2. sectorpointer \in Nat
    BY <1>1, PagesCount DEF HashTypes, sectorpointer
  <2>3. next \in Good(global_depth) /\ next.depth = bk.depth
    <3>1. /\ next \in [depth : 1 .. global_depth, size : 0 .. MaxSize, PageNum : Nat \cup {NoPage}, values : Contents]
          /\ next.depth = bk.depth /\ next.size = bk.size /\ next.values = Nothing
      BY <1>2, <2>2, NothingAndBlank
    <3> HIDE DEF next
    <3>2. bk.size \in Nat
      BY <1>2
    <3> QED  BY <3>1, <3>2, NothingAndBlank DEF Good
  <2>4. PagesOK(page')
    BY <1>1, <2>1, PageAppendType
  <2> HIDE DEF next
  <2> QED  BY <2>1, <2>3, <2>4, ReplaceKeepsHash
<1>4. ASSUME bk.PageNum # NoPage PROVE HashInv'
  <2> DEFINE next == [bk EXCEPT !.values = Nothing]
  <2>1. PageUpdate(bk.PageNum, bk.values) /\ bucket' = [bucket EXCEPT ![b] = next]
    BY <1>4 DEF PageWrite
  <2>2. next \in Good(global_depth) /\ next.depth = bk.depth
    BY <1>2, NothingAndBlank DEF Good
  <2>3. PagesOK(page')
    BY <1>1, <2>1, PageUpdateType
  <2> HIDE DEF next
  <2> QED  BY <2>1, <2>2, <2>3, ReplaceKeepsHash
<1> QED  BY <1>3, <1>4

LEMMA BucketInsertKeepsHash ==
  ASSUME HashInv, NEW b \in DOMAIN bucket, ~IsFull(b), NEW e \in Insertion, BucketInsert(b, e),
         UNCHANGED <<global_depth, buckets, status>>, todo' \in Seq(Insertion)
  PROVE  HashInv'
<1> DEFINE bk == bucket[b]
           more == [bk EXCEPT !.values = Set(bk.values, e.key, e.val), !.size = @ + 1]
<1>1. /\ global_depth \in Nat /\ HashTypes /\ bk \in Good(global_depth) /\ PagesOK(page)
      /\ status' \in {"running", "exited", "aborted"}
  BY DEF HashInv, HashTypes
<1>2. /\ bk \in [depth : 1 .. global_depth, size : 0 .. MaxSize, PageNum : Nat \cup {NoPage}, values : Contents]
      /\ bk.values \in Contents /\ bk.size \in Nat
      /\ Cardinality(DOMAIN bk.values) \in Nat /\ Cardinality(DOMAIN bk.values) <= bk.size
  BY <1>1, GoodFacts
<1>3. bk.size < bucket_size
  BY <1>2 DEF IsFull
<1>4. e.key \in Nat /\ e.val \in Nat
  BY DEF Insertion
<1>5. CASE e.key \in DOMAIN bk.values
  <2> DEFINE v == [bk.values EXCEPT ![e.key] = e.val]
             next == [bk EXCEPT !.values = v]
  <2>1. bucket' = [bucket EXCEPT ![b].values[e.key] = e.val] /\ UNCHANGED page
    BY <1>5 DEF BucketInsert
  <2>2. bucket \in [DOMAIN bucket -> Good(global_depth)]
    BY DEF HashInv, HashTypes
  <2>3. bucket' = [bucket EXCEPT ![b] = next]
    BY <1>2, <2>1, <2>2
  <2>4. v \in Contents /\ DOMAIN v = DOMAIN bk.values
    <3>1. /\ DOMAIN bk.values \in SUBSET Nat /\ IsFiniteSet(DOMAIN bk.values)
          /\ bk.values \in [DOMAIN bk.values -> Nat]
      BY <1>2, ContentsFacts
    <3>2. DOMAIN v = DOMAIN bk.values /\ v \in [DOMAIN bk.values -> Nat]
      BY <1>4, <3>1
    <3> HIDE DEF v
    <3> QED  BY <3>1, <3>2, ContentsFacts
  <2> HIDE DEF v
  <2>5. next \in Good(global_depth) /\ next.depth = bk.depth
    BY <1>2, <2>4 DEF Good
  <2> HIDE DEF next
  <2> QED  BY <1>1, <2>1, <2>3, <2>5, ReplaceKeepsHash
<1>6. CASE e.key \notin DOMAIN bk.values
  <2>1. /\ Set(bk.values, e.key, e.val) \in Contents
        /\ Cardinality(DOMAIN Set(bk.values, e.key, e.val)) = Cardinality(DOMAIN bk.values) + 1
    <3> DEFINE c == bk.values
               k == e.key
               v == e.val
    <3>1. c \in Contents /\ k \in Nat /\ v \in Nat /\ k \notin DOMAIN c
      BY <1>2, <1>4, <1>6
    <3> HIDE DEF c, k, v
    <3>2. /\ Set(c, k, v) \in Contents
          /\ Cardinality(DOMAIN Set(c, k, v)) = Cardinality(DOMAIN c) + 1
      BY <3>1, SetKeepsContents
    <3> QED  BY <3>2 DEF c, k, v
  <2>2. more \in Good(global_depth) /\ more.depth = bk.depth
    <3> DEFINE c == Set(bk.values, e.key, e.val)
               m == bk.size + 1
    <3>1. m \in 0 .. MaxSize /\ Cardinality(DOMAIN c) <= m /\ c \in Contents
      BY <1>2, <1>3, <2>1
    <3>2. more = [bk EXCEPT !.values = c, !.size = m]
      OBVIOUS
    <3> HIDE DEF more, c, m
    <3>3. /\ more \in [depth : 1 .. global_depth, size : 0 .. MaxSize, PageNum : Nat \cup {NoPage}, values : Contents]
          /\ more.depth = bk.depth /\ more.size = m /\ more.values = c
      BY <1>2, <3>1, <3>2
    <3> QED  BY <3>1, <3>3 DEF Good
  <2>3. more.values \in PageContents
    BY <1>2, <1>3, <2>1 DEF PageContents
  <2>4. \/ bucket' = [bucket EXCEPT ![b] = more] /\ UNCHANGED page
        \/ PageWrite(b, more)
    BY <1>6 DEF BucketInsert
  <2> HIDE DEF more
  <2> QED  BY <1>1, <2>2, <2>3, <2>4, ReplaceKeepsHash, PageWriteKeepsHash
<1> QED  BY <1>5, <1>6

\* What a split inserts again: the entries in memory, or those of the page.
Data(b) ==
  IF bucket[b].PageNum # NoPage /\ ~InMemory(b) THEN PageRead(bucket[b].PageNum)
  ELSE bucket[b].values

LEMMA GetDataType ==
  ASSUME HashTypes, NEW b \in DOMAIN bucket
  PROVE  /\ Data(b) \in Contents
         /\ GetData(b) \in Seq(Insertion)
         /\ \A i \in DOMAIN GetData(b) :
              LET e == GetData(b)[i] IN e.key \in DOMAIN Data(b) /\ e.val = Data(b)[e.key]
         /\ Data(b) # Blank => \A k \in DOMAIN Data(b) : \E i \in DOMAIN GetData(b) :
              \A j \in DOMAIN GetData(b) : GetData(b)[j].key = k <=> j = i
<1> DEFINE c == Data(b)
           keys == IF c = Blank THEN [i \in 1 .. bucket_size |-> 0] ELSE InOrder(DOMAIN c)
<1>1. bucket[b] \in Good(global_depth) /\ global_depth \in Nat
  BY DEF HashTypes
<1>2. c \in Contents
  <2>1. bucket[b].values \in Contents
    BY <1>1, GoodFacts
  <2>2. PageRead(bucket[b].PageNum) \in Contents
    BY PageReadType DEF PageContents
  <2> QED  BY <2>1, <2>2 DEF Data
<1>3. GetData(b) = [i \in DOMAIN keys |-> [key |-> keys[i], val |-> c[keys[i]]]]
  BY DEF GetData, Data
<1> HIDE DEF c
<1>4. DOMAIN c \in SUBSET Nat /\ IsFiniteSet(DOMAIN c) /\ c \in [DOMAIN c -> Nat]
  BY <1>2, ContentsFacts
<1>5. keys \in Seq(DOMAIN c)
  <2>1. CASE c = Blank
    <3>1. 0 \in DOMAIN c
      BY <2>1, NothingAndBlank
    <3>2. keys = [i \in 1 .. bucket_size |-> 0]
      BY <2>1
    <3>3. bucket_size \in Nat
      OBVIOUS
    <3> HIDE DEF keys
    <3> QED  BY <3>1, <3>2, <3>3
  <2>2. CASE c # Blank
    BY <1>4, <2>2, InOrderType
  <2> QED  BY <2>1, <2>2
<1> HIDE DEF keys
<1>6. \A i \in DOMAIN keys : keys[i] \in DOMAIN c
  BY <1>5
<1>7. DOMAIN keys = 1 .. Len(keys) /\ Len(keys) \in Nat
  BY <1>5
<1>8. \A i \in 1 .. Len(keys) : keys[i] \in Nat /\ c[keys[i]] \in Nat
  BY <1>4, <1>6, <1>7
<1>9. GetData(b) \in [1 .. Len(keys) -> Insertion]
  BY <1>3, <1>7, <1>8 DEF Insertion
<1>10. GetData(b) \in Seq(Insertion)
  BY <1>7, <1>9
<1>11. \A i \in DOMAIN GetData(b) :
         LET e == GetData(b)[i] IN e.key \in DOMAIN c /\ e.val = c[e.key]
  BY <1>3, <1>6
<1>12. ASSUME c # Blank, NEW k \in DOMAIN c
       PROVE  \E i \in DOMAIN GetData(b) :
                \A j \in DOMAIN GetData(b) : GetData(b)[j].key = k <=> j = i
  <2>1. DOMAIN GetData(b) = DOMAIN keys /\ \A j \in DOMAIN keys : GetData(b)[j].key = keys[j]
    BY <1>3
  <2>2. keys = InOrder(DOMAIN c)
    BY <1>12 DEF keys
  <2> DEFINE S == DOMAIN c
  <2>3. S \in SUBSET Nat /\ IsFiniteSet(S) /\ k \in S
    BY <1>4, <1>12
  <2> HIDE DEF S
  <2>4. \A x \in S : \E i \in DOMAIN InOrder(S) : \A j \in DOMAIN InOrder(S) :
          InOrder(S)[j] = x <=> j = i
    BY <2>3, InOrderType
  <2>5. keys = InOrder(S)
    BY <2>2 DEF S
  <2>6. PICK i \in DOMAIN keys : \A j \in DOMAIN keys : keys[j] = k <=> j = i
    BY <2>3, <2>4, <2>5
  <2> QED  BY <2>1, <2>6
<1> QED  BY <1>2, <1>10, <1>11, <1>12 DEF c

\* Splitting the bucket behind index n.
LEMMA SplitKeepsHash ==
  ASSUME HashInv, NEW n \in Indexes(global_depth), split(n), UNCHANGED status
  PROVE  /\ HashInv'
         /\ global_depth' \in Nat /\ global_depth <= global_depth'
         /\ DOMAIN bucket \subseteq DOMAIN bucket'
         /\ \A i \in Indexes(global_depth') :
              buckets[Bits(i, global_depth)] # buckets[n] =>
                buckets'[i] = buckets[Bits(i, global_depth)]
<1> DEFINE b == buckets[n]
           d == bucket[b].depth + 1
           new == Min((0 .. Cardinality(DOMAIN bucket)) \ DOMAIN bucket)
           g == global_depth
           h == IF d > g THEN d ELSE g
           big == Unfolded(buckets, g, h)
           next == [x \in DOMAIN bucket \cup {new} |->
                      IF x = new THEN NewBucket(d) ELSE IF x = b THEN Cleared(b, d) ELSE bucket[x]]
<1>1. /\ HashTypes /\ g \in Nat \ {0} /\ buckets \in [Indexes(g) -> DOMAIN bucket]
      /\ DOMAIN bucket \in SUBSET Nat /\ IsFiniteSet(DOMAIN bucket)
      /\ bucket \in [DOMAIN bucket -> Good(g)] /\ Consistent(buckets, DOMAIN bucket, DepthOf)
  BY DEF HashInv, HashTypes
<1>2. b \in DOMAIN bucket /\ bucket[b] \in Good(g) /\ new \in Nat \ DOMAIN bucket
  BY <1>1, NewIsNew
<1>3. d \in Nat \ {0} /\ d <= h /\ h \in Nat \ {0} /\ g <= h /\ d <= g + 1
  BY <1>1, <1>2, GoodFacts
<1>4. DepthOf \in [DOMAIN bucket -> 1 .. g]
  BY <1>1, GoodFacts DEF DepthOf
<1>5. Grown(d) = big
  <2>1. CASE d > g
    <3>1. big = [i \in 0 .. (2^d - 1) |-> buckets[i % 2^g]]
      BY <2>1 DEF Unfolded, Indexes, Bits
    <3> QED  BY <2>1, <3>1 DEF Grown
  <2>2. CASE ~ (d > g)
    <3>1. \A i \in Indexes(g) : Bits(i, g) = i
      BY <1>1, BitsFacts
    <3>2. big = [i \in Indexes(g) |-> buckets[i]]
      BY <2>2, <3>1 DEF Unfolded
    <3>3. big = buckets
      BY <1>1, <3>2
    <3> QED  BY <2>2, <3>3 DEF Grown
  <2> QED  BY <2>1, <2>2
<1>6. /\ buckets' = Repoint(big, pairIndex(n, d), d, new)
      /\ global_depth' = h /\ bucket' = next /\ todo' = GetData(b) \o todo
      /\ UNCHANGED page
  BY <1>5 DEF split
<1>7. /\ big \in [Indexes(h) -> DOMAIN bucket] /\ Consistent(big, DOMAIN bucket, DepthOf)
      /\ \A i \in Indexes(g) : big[i] = buckets[i]
  <2>1. big = Unfolded(buckets, g, h)
    OBVIOUS
  <2>2. g \in Nat /\ h \in Nat /\ g <= h
    BY <1>1, <1>3
  <2>3. /\ buckets \in [Indexes(g) -> DOMAIN bucket] /\ DepthOf \in [DOMAIN bucket -> 1 .. g]
        /\ Consistent(buckets, DOMAIN bucket, DepthOf)
    BY <1>1, <1>4
  <2> DEFINE set == DOMAIN bucket
             dep == DepthOf
  <2> HIDE DEF g, h, big, set, dep
  <2>4. /\ Unfolded(buckets, g, h) \in [Indexes(h) -> set]
        /\ Consistent(Unfolded(buckets, g, h), set, dep)
        /\ \A i \in Indexes(g) : Unfolded(buckets, g, h)[i] = buckets[i]
    <3>1. /\ buckets \in [Indexes(g) -> set] /\ dep \in [set -> 1 .. g]
          /\ Consistent(buckets, set, dep)
      BY <2>3 DEF set, dep
    <3> QED  BY <2>2, <3>1, UnfoldedConsistent, Z3
  <2> QED  BY <2>1, <2>4 DEF set, dep
<1>8. n \in Indexes(h) /\ big[n] = b
  BY <1>1, <1>3, <1>7, IndexesType
<1>9. DepthOf \in [DOMAIN bucket -> 1 .. h] /\ d = DepthOf[big[n]] + 1
  <2>1. d = DepthOf[b] + 1
    BY <1>2 DEF DepthOf
  <2> HIDE DEF g, h, big, b, d
  <2>2. 1 .. g \subseteq 1 .. h
    BY <1>1, <1>3
  <2> QED  BY <1>4, <1>8, <2>1, <2>2
<1>10. /\ NewBucket(d) \in Good(h) /\ NewBucket(d).depth = d
       /\ Cleared(b, d) \in Good(h) /\ Cleared(b, d).depth = d
       /\ \A x \in DOMAIN bucket : bucket[x] \in Good(h)
  <2>1. d \in 1 .. h /\ 0 \in 0 .. MaxSize /\ 1 .. g \subseteq 1 .. h
    BY <1>1, <1>3
  <2> HIDE DEF d, h, g, b
  <2>2. NewBucket(d) \in Good(h) /\ NewBucket(d).depth = d
    BY <2>1, NothingAndBlank DEF NewBucket, Good
  <2>3. Cleared(b, d) \in Good(h) /\ Cleared(b, d).depth = d
    <3> DEFINE cl == Cleared(b, d)
    <3>1. cl = [bucket[b] EXCEPT !.depth = d, !.size = 0, !.values = Nothing]
      BY DEF Cleared
    <3>2. bucket[b] \in [depth : 1 .. g, size : 0 .. MaxSize, PageNum : Nat \cup {NoPage}, values : Contents]
      BY <1>1, <1>2, GoodFacts
    <3> HIDE DEF cl
    <3>3. /\ cl \in [depth : 1 .. h, size : 0 .. MaxSize, PageNum : Nat \cup {NoPage}, values : Contents]
          /\ cl.depth = d /\ cl.size = 0 /\ cl.values = Nothing
      BY <2>1, <3>1, <3>2, NothingAndBlank
    <3>4. cl \in Good(h) /\ cl.depth = d
      BY <3>3, NothingAndBlank DEF Good
    <3> QED  BY <3>4 DEF cl
  <2>4. Good(g) \subseteq Good(h)
    BY <2>1 DEF Good
  <2> QED  BY <1>1, <2>2, <2>3, <2>4
<1>11. next \in [DOMAIN bucket \cup {new} -> Good(h)] /\ DOMAIN next = DOMAIN bucket \cup {new}
  BY <1>10
<1> DEFINE dep2 == [x \in DOMAIN next |-> next[x].depth]
<1>12. /\ dep2 \in [DOMAIN bucket \cup {new} -> 1 .. h] /\ dep2[new] = d /\ dep2[b] = d
       /\ \A x \in DOMAIN bucket \ {b} : dep2[x] = DepthOf[x]
  <2>1. \A x \in DOMAIN next : next[x].depth \in 1 .. h
    BY <1>3, <1>11, GoodFacts
  <2>2. next[new].depth = d /\ next[b].depth = d
    BY <1>2, <1>10
  <2>3. \A x \in DOMAIN bucket \ {b} : next[x].depth = bucket[x].depth
    BY <1>2
  <2> HIDE DEF next
  <2> QED  BY <1>2, <1>11, <2>1, <2>2, <2>3 DEF DepthOf
<1> HIDE DEF next, new, d, h, g, b, big, dep2
<1>13. /\ buckets' \in [Indexes(h) -> DOMAIN bucket \cup {new}]
       /\ Consistent(buckets', DOMAIN bucket \cup {new}, dep2)
       /\ \A i \in Indexes(h) : big[i] # big[n] => buckets'[i] = big[i]
  <2>1. dep2[big[n]] = d /\ \A x \in DOMAIN bucket \ {big[n]} : dep2[x] = DepthOf[x]
    BY <1>8, <1>12
  <2> DEFINE set == DOMAIN bucket
             dep == DepthOf
  <2>2. big \in [Indexes(h) -> set] /\ dep \in [set -> 1 .. h] /\ Consistent(big, set, dep)
    BY <1>7, <1>9
  <2>3. d = dep[big[n]] + 1 /\ new \notin set
    BY <1>2, <1>9
  <2>4. dep2 \in [set \cup {new} -> 1 .. h] /\ dep2[new] = d
    BY <1>12
  <2>5. dep2[big[n]] = d /\ \A x \in set \ {big[n]} : dep2[x] = dep[x]
    BY <2>1
  <2> DEFINE dir2 == buckets'
  <2>7. dir2 = Repoint(big, pairIndex(n, d), d, new)
    BY <1>6
  <2>8. h \in Nat /\ d <= h /\ n \in Indexes(h)
    BY <1>3, <1>8
  <2> HIDE DEF set, dep, dir2
  <2>6. /\ dir2 \in [Indexes(h) -> set \cup {new}]
        /\ Consistent(dir2, set \cup {new}, dep2)
        /\ \A i \in Indexes(h) : big[i] # big[n] => dir2[i] = big[i]
    BY <2>2, <2>3, <2>4, <2>5, <2>7, <2>8, SplitConsistent, Z3
  <2> QED  BY <2>6 DEF set, dir2
<1>14. DOMAIN bucket \cup {new} \in SUBSET Nat /\ IsFiniteSet(DOMAIN bucket \cup {new})
  BY <1>1, <1>2, FS_AddElement
<1>15. todo' \in Seq(Insertion)
  <2>1. GetData(b) \in Seq(Insertion) /\ todo \in Seq(Insertion)
    BY <1>1, <1>2, GetDataType DEF HashTypes
  <2> QED  BY <1>6, <2>1
<1>16. PagesOK(page') /\ status' \in {"running", "exited", "aborted"}
  BY <1>1, <1>6 DEF HashTypes
<1>17. DepthOf' = dep2
  BY <1>6 DEF DepthOf, dep2
<1>18. HashInv'
  BY <1>3, <1>6, <1>11, <1>13, <1>14, <1>15, <1>16, <1>17 DEF HashInv, HashTypes
<1>19. \A i \in Indexes(h) : big[i] = buckets[Bits(i, g)]
  BY DEF big, Unfolded
<1> QED  BY <1>3, <1>6, <1>8, <1>11, <1>13, <1>18, <1>19 DEF g, b

LEMMA InsertStepKeepsHash ==
  ASSUME HashInv, InsertStep
  PROVE  HashInv'
<1> DEFINE e == Head(todo)
<1>1. HashTypes /\ todo \in Seq(Insertion) /\ todo # << >>
  BY DEF HashInv, HashTypes, InsertStep
<1>2. e \in Insertion /\ Tail(todo) \in Seq(Insertion) /\ e.key \in Nat
  <2>1. e \in Insertion /\ Tail(todo) \in Seq(Insertion)
    BY <1>1
  <2> QED  BY <2>1 DEF Insertion
<1> HIDE DEF e
<1>3. hash(e.key) \in Indexes(global_depth) /\ BucketOf(e.key) \in DOMAIN bucket
  BY <1>1, <1>2, BucketOfKey
<1>4. CASE split(hash(e.key))
  BY <1>3, <1>4, SplitKeepsHash DEF InsertStep
<1>5. CASE /\ ~IsFull(BucketOf(e.key)) /\ BucketInsert(BucketOf(e.key), e)
           /\ todo' = Tail(todo) /\ UNCHANGED <<global_depth, buckets>>
  <2>1. UNCHANGED <<global_depth, buckets, status>> /\ todo' \in Seq(Insertion)
    BY <1>2, <1>5 DEF InsertStep
  <2> QED  BY <1>2, <1>3, <1>5, <2>1, BucketInsertKeepsHash
<1> QED  BY <1>4, <1>5 DEF InsertStep, e

LEMMA LoadedType ==
  ASSUME HashTypes, NEW b \in DOMAIN bucket, LoadWorks(b)
  PROVE  /\ Loaded(b) \in Good(global_depth) /\ Loaded(b).depth = bucket[b].depth
         /\ Loaded(b).PageNum = bucket[b].PageNum
         /\ Loaded(b).values =
              IF InMemory(b) THEN bucket[b].values ELSE PageRead(bucket[b].PageNum)
         /\ Loaded(b).size =
              IF InMemory(b) THEN bucket[b].size ELSE bucket[b].size + bucket_size
         /\ ~InMemory(b) => Loaded(b).values \in PageContents
<1>1. bucket[b] \in Good(global_depth) /\ global_depth \in Nat
  BY DEF HashTypes
<1>2. CASE InMemory(b)
  BY <1>1, <1>2 DEF Loaded
<1>3. CASE ~InMemory(b)
  <2> DEFINE bk == bucket[b]
             c == PageRead(bk.PageNum)
             m == bk.size + bucket_size
             ld == Loaded(b)
  <2>1. c \in PageContents /\ c \in Contents /\ Cardinality(DOMAIN c) <= bucket_size
        /\ Cardinality(DOMAIN c) \in Nat
    BY PageReadType, ContentsCount DEF PageContents
  <2>2. /\ bk \in [depth : 1 .. global_depth, size : 0 .. MaxSize, PageNum : Nat \cup {NoPage}, values : Contents]
        /\ bk.size \in Nat /\ m <= MaxSize
    BY <1>1, <1>3, GoodFacts DEF LoadWorks
  <2>3. m \in 0 .. MaxSize /\ Cardinality(DOMAIN c) <= m
    BY <2>1, <2>2
  <2>4. ld = [bk EXCEPT !.values = c, !.size = m]
    BY <1>3 DEF Loaded
  <2> HIDE DEF bk, c, m, ld
  <2>5. /\ ld \in [depth : 1 .. global_depth, size : 0 .. MaxSize, PageNum : Nat \cup {NoPage}, values : Contents]
        /\ ld.depth = bk.depth /\ ld.PageNum = bk.PageNum /\ ld.values = c /\ ld.size = m
    BY <2>1, <2>2, <2>3, <2>4
  <2>6. ld \in Good(global_depth)
    BY <2>3, <2>5 DEF Good
  <2> QED  BY <1>3, <2>1, <2>5, <2>6 DEF ld, bk, c, m
<1> QED  BY <1>2, <1>3

LEMMA LeftType ==
  ASSUME HashTypes, NEW b \in DOMAIN bucket, LoadWorks(b), NEW k
  PROVE  /\ Left(b, k) \in Good(global_depth) /\ Left(b, k).depth = bucket[b].depth
         /\ Left(b, k).PageNum = bucket[b].PageNum
         /\ k \notin DOMAIN Loaded(b).values => Left(b, k) = Loaded(b)
         /\ k \in DOMAIN Loaded(b).values =>
              /\ Left(b, k).size = Loaded(b).size - 1
              /\ Left(b, k).values = Without(Loaded(b).values, k)
<1> DEFINE ld == Loaded(b)
           c == Without(ld.values, k)
           m == ld.size - 1
           left == Left(b, k)
<1>1. /\ ld \in Good(global_depth) /\ ld.depth = bucket[b].depth /\ ld.PageNum = bucket[b].PageNum
      /\ global_depth \in Nat
  BY LoadedType DEF HashTypes
<1>2. left = IF k \in DOMAIN ld.values THEN [ld EXCEPT !.values = c, !.size = m] ELSE ld
  BY DEF Left
<1> HIDE DEF ld, left
<1>3. /\ ld \in [depth : 1 .. global_depth, size : 0 .. MaxSize, PageNum : Nat \cup {NoPage}, values : Contents]
      /\ ld.size \in 0 .. MaxSize /\ ld.values \in Contents
      /\ Cardinality(DOMAIN ld.values) \in Nat /\ Cardinality(DOMAIN ld.values) <= ld.size
  BY <1>1, GoodFacts
<1>4. CASE k \notin DOMAIN ld.values
  BY <1>1, <1>2, <1>4 DEF ld, left
<1>5. CASE k \in DOMAIN ld.values
  <2>1. c \in Contents /\ Cardinality(DOMAIN c) = Cardinality(DOMAIN ld.values) - 1
    BY <1>3, <1>5, WithoutKeepsContents
  <2>2. Cardinality(DOMAIN ld.values) # 0
    BY <1>3, <1>5, ContentsCount
  <2>3. m \in 0 .. MaxSize /\ Cardinality(DOMAIN c) <= m
    BY <1>3, <2>1, <2>2
  <2>4. left = [ld EXCEPT !.values = c, !.size = m]
    BY <1>2, <1>5
  <2> HIDE DEF c, m
  <2>5. /\ left \in [depth : 1 .. global_depth, size : 0 .. MaxSize, PageNum : Nat \cup {NoPage}, values : Contents]
        /\ left.depth = ld.depth /\ left.PageNum = ld.PageNum /\ left.values = c /\ left.size = m
    BY <1>3, <2>1, <2>3, <2>4
  <2>6. left \in Good(global_depth)
    BY <2>3, <2>5 DEF Good
  <2> QED  BY <1>1, <1>5, <2>5, <2>6 DEF ld, left, c, m
<1> QED  BY <1>4, <1>5

\* The bucket behind index n goes into its pair.
LEMMA MergeKeepsHash ==
  ASSUME HashInv, NEW n \in Indexes(global_depth), NEW d, d = bucket[buckets[n]].depth, d > 1,
         bucket[buckets[pairIndex(n, d)]].depth = d, merge(n, d),
         UNCHANGED <<global_depth, page, todo>>,
         status' \in {"running", "exited", "aborted"}
  PROVE  /\ HashInv'
         /\ buckets[pairIndex(n, d)] \in DOMAIN bucket \ {buckets[n]}
         /\ DOMAIN bucket' = DOMAIN bucket \ {buckets[n]}
         /\ \A i \in Indexes(global_depth) : buckets[i] # buckets[n] => buckets'[i] = buckets[i]
<1> DEFINE g == global_depth
           b == buckets[n]
           pair == buckets[pairIndex(n, d)]
           set == DOMAIN bucket
           dep == DepthOf
           dir2 == buckets'
           next == [x \in set \ {b} |-> IF x = pair THEN [bucket[x] EXCEPT !.depth = @ - 1] ELSE bucket[x]]
           dep2 == [x \in DOMAIN next |-> next[x].depth]
<1>1. /\ HashTypes /\ g \in Nat \ {0} /\ buckets \in [Indexes(g) -> set]
      /\ set \in SUBSET Nat /\ IsFiniteSet(set)
      /\ bucket \in [set -> Good(g)] /\ Consistent(buckets, set, dep)
  BY DEF HashInv, HashTypes
<1>2. b \in set /\ bucket[b] \in Good(g) /\ d \in Nat /\ d \in 1 .. g
  BY <1>1, GoodFacts
<1>3. dep \in [set -> 1 .. g] /\ dep[b] = d
  BY <1>1, <1>2, GoodFacts DEF DepthOf
<1>4. pairIndex(n, d) \in Indexes(g) /\ pair \in set
  <2>1. d \in Nat \ {0} /\ d <= g /\ g \in Nat
    BY <1>1, <1>2
  <2> HIDE DEF g
  <2>2. n \in Indexes(g)
    BY DEF g
  <2>3. pairIndex(n, d) \in Indexes(g)
    BY <2>1, <2>2, PairIsIndex
  <2> QED  BY <1>1, <2>3
<1>5. dep[pair] = d /\ d - 1 \in 1 .. g
  <2>1. dep[pair] = d
    BY <1>4 DEF DepthOf
  <2> HIDE DEF g, dep, pair
  <2>2. d - 1 \in 1 .. g
    BY <1>1, <1>2
  <2> QED  BY <2>1, <2>2
<1>6. dir2 = Repoint(buckets, n, d, pair) /\ bucket' = next
  BY DEF merge
<1>7. /\ next \in [set \ {b} -> Good(g)]
      /\ pair \in set \ {b} => next[pair].depth = d - 1
      /\ \A x \in set \ {b, pair} : next[x].depth = dep[x]
  <2> DEFINE low == [bucket[pair] EXCEPT !.depth = @ - 1]
  <2>1. low = [bucket[pair] EXCEPT !.depth = d - 1]
    BY <1>4, <1>5 DEF DepthOf
  <2>2. /\ bucket[pair] \in [depth : 1 .. g, size : 0 .. MaxSize, PageNum : Nat \cup {NoPage}, values : Contents]
        /\ Cardinality(DOMAIN bucket[pair].values) <= bucket[pair].size
    BY <1>1, <1>4, GoodFacts
  <2> HIDE DEF low, pair, g
  <2>3. /\ low \in [depth : 1 .. g, size : 0 .. MaxSize, PageNum : Nat \cup {NoPage}, values : Contents]
        /\ low.depth = d - 1 /\ low.values = bucket[pair].values /\ low.size = bucket[pair].size
    BY <1>5, <2>1, <2>2
  <2>4. low \in Good(g)
    BY <2>2, <2>3 DEF Good
  <2>5. next = [x \in set \ {b} |-> IF x = pair THEN low ELSE bucket[x]]
    BY DEF low
  <2>6. \A x \in set : bucket[x].depth = dep[x]
    BY DEF DepthOf
  <2> HIDE DEF next, set, b, dep
  <2> QED  BY <1>1, <2>3, <2>4, <2>5, <2>6
<1> HIDE DEF g, b, pair, set, dep, dir2, next
<1>8. \A x \in set \ {b} : next[x].depth \in 1 .. g
  BY <1>1, <1>7, GoodFacts
<1>9. /\ dep2 \in [set \ {b} -> 1 .. g]
      /\ pair \in set \ {b} => dep2[pair] = d - 1
      /\ \A x \in set \ {b, pair} : dep2[x] = dep[x]
  BY <1>7, <1>8
<1>10. pair # b
  <2>1. DOMAIN buckets = Indexes(g) /\ n \in Indexes(g)
    BY <1>1 DEF g
  <2>2. Indexes(g) \subseteq Nat /\ n \in Nat /\ d \in Nat \ {0}
    BY <1>1, <1>2, <2>1, IndexesType
  <2>3. Bits(pairIndex(n, d), d) # Bits(n, d)
    BY <2>2, PairDiffers
  <2>4. buckets[n] = b /\ buckets[pairIndex(n, d)] = pair
    BY DEF b, pair
  <2> QED  BY <1>1, <1>3, <1>4, <2>1, <2>3, <2>4 DEF Consistent
<1>11. /\ dir2 \in [Indexes(g) -> set \ {b}]
       /\ Consistent(dir2, set \ {b}, dep2)
       /\ \A i \in Indexes(g) : buckets[i] # b => dir2[i] = buckets[i]
  <2>1. b = buckets[n] /\ pair = buckets[pairIndex(n, d)] /\ n \in Indexes(g)
    BY DEF b, pair, g
  <2>2. dep2 \in [set \ {b} -> 1 .. g] /\ dep2[pair] = d - 1
    BY <1>4, <1>9, <1>10
  <2>3. g \in Nat /\ buckets \in [Indexes(g) -> set] /\ Consistent(buckets, set, dep)
    BY <1>1
  <2> HIDE DEF dep2
  <2>4. /\ dir2 \in [Indexes(g) -> set \ {buckets[n]}]
        /\ Consistent(dir2, set \ {buckets[n]}, dep2)
        /\ \A i \in Indexes(g) : buckets[i] # buckets[n] => dir2[i] = buckets[i]
    <3>1. dep2 \in [set \ {buckets[n]} -> 1 .. g]
      BY <2>1, <2>2
    <3>2. \A x \in set \ {buckets[n], pair} : dep2[x] = dep[x]
      BY <1>9, <2>1 DEF dep2
    <3>3. d = dep[buckets[n]] /\ d > 1
      BY <1>3, <2>1
    <3> QED  BY <1>5, <1>6, <2>1, <2>2, <2>3, <1>3, <3>1, <3>2, <3>3, MergeConsistent, Z3
  <2> QED  BY <2>1, <2>4
<1>12. set \ {b} \in SUBSET Nat /\ IsFiniteSet(set \ {b})
  BY <1>1, FS_RemoveElement
<1>13. DOMAIN bucket' = set \ {b} /\ bucket' \in [set \ {b} -> Good(g)]
  BY <1>6, <1>7
<1>14. DepthOf' = dep2
  BY <1>6 DEF DepthOf, dep2
<1>15. g = global_depth /\ global_depth' = g /\ dir2 = buckets' /\ set = DOMAIN bucket
  BY DEF g, dir2, set
<1>16. HashInv'
  <2>1. PagesOK(page') /\ todo' \in Seq(Insertion)
    BY <1>1 DEF HashTypes
  <2> QED  BY <1>1, <1>11, <1>12, <1>13, <1>14, <1>15, <2>1 DEF HashInv, HashTypes
<1> QED  BY <1>4, <1>10, <1>11, <1>13, <1>15, <1>16 DEF b, pair

LEMMA RemoveKeepsHash ==
  ASSUME HashInv, NEW k \in Key, remove(k)
  PROVE  HashInv'
<1> DEFINE b == BucketOf(k)
           n == hash(k)
           left == Left(b, k)
<1>1. HashTypes /\ k \in Nat
  BY DEF HashInv
<1>2. n \in Indexes(global_depth) /\ b \in DOMAIN bucket /\ b = buckets[n]
  BY <1>1, BucketOfKey
<1>3. UNCHANGED todo
  BY DEF remove
<1>4. CASE LoadFails(b)
  <2>1. UNCHANGED <<global_depth, buckets, bucket, page>> /\ status' = "exited"
    BY <1>4 DEF LoadFails
  <2>2. UNCHANGED DepthOf
    BY <2>1 DEF DepthOf
  <2> QED  BY <1>3, <2>1, <2>2 DEF HashInv, HashTypes
<1>5. CASE LoadWorks(b) /\ ~LoadFails(b)
  <2>1. UNCHANGED <<global_depth, page, status>> /\ status' \in {"running", "exited", "aborted"} /\ PagesOK(page')
        /\ todo' \in Seq(Insertion)
    BY <1>1, <1>3, <1>5 DEF remove, LoadWorks, HashTypes
  <2>2. left \in Good(global_depth) /\ left.depth = bucket[b].depth
    BY <1>1, <1>2, <1>5, LeftType
  <2>3. CASE Joins(n, left) /\ merge(n, bucket[b].depth)
    <3> DEFINE d == bucket[b].depth
    <3>1. d > 1 /\ bucket[buckets[pairIndex(n, d)]].depth = d /\ d = bucket[buckets[n]].depth
      BY <1>2, <2>2, <2>3 DEF Joins
    <3>2. merge(n, d)
      BY <2>3
    <3> HIDE DEF d, n
    <3> QED  BY <1>2, <1>3, <2>1, <3>1, <3>2, MergeKeepsHash
  <2>4. CASE bucket' = [bucket EXCEPT ![b] = left] /\ UNCHANGED buckets
    <3> HIDE DEF b, left
    <3> QED  BY <1>2, <2>1, <2>2, <2>4, ReplaceKeepsHash
  <2> QED  BY <1>5, <2>3, <2>4 DEF remove
<1> QED  BY <1>4, <1>5 DEF remove

LEMMA UpdateKeepsHash ==
  ASSUME HashInv, NEW k \in Key, NEW v \in Value, update(k, v)
  PROVE  HashInv'
<1> DEFINE b == BucketOf(k)
           ld == Loaded(b)
           c == Set(ld.values, k, v)
           changed == [ld EXCEPT !.values = c]
<1>1. HashTypes /\ k \in Nat /\ v \in Nat /\ global_depth \in Nat
  BY DEF HashInv, HashTypes
<1>2. b \in DOMAIN bucket
  BY <1>1, BucketOfKey
<1>3. UNCHANGED todo
  BY DEF update
<1>4. CASE LoadFails(b)
  <2>1. UNCHANGED <<global_depth, buckets, bucket, page>> /\ status' = "exited"
    BY <1>4 DEF LoadFails
  <2>2. UNCHANGED DepthOf
    BY <2>1 DEF DepthOf
  <2> QED  BY <1>3, <2>1, <2>2 DEF HashInv, HashTypes
<1>5. CASE LoadWorks(b) /\ Change(b, k, v) /\ UNCHANGED <<global_depth, buckets>>
  <2>1. /\ UNCHANGED <<global_depth, buckets>> /\ PagesOK(page) /\ todo' \in Seq(Insertion)
        /\ status' \in {"running", "exited", "aborted"}
    BY <1>1, <1>3, <1>5 DEF LoadWorks, HashTypes
  <2>2. ld \in Good(global_depth) /\ ld.depth = bucket[b].depth /\ (~InMemory(b) => ld.values \in PageContents)
    BY <1>1, <1>2, <1>5, LoadedType
  <2>3. CASE bucket' = [bucket EXCEPT ![b] = ld] /\ UNCHANGED page
    <3> HIDE DEF b, ld
    <3> QED  BY <1>2, <2>1, <2>2, <2>3, ReplaceKeepsHash
  <2>4. ASSUME k \in DOMAIN ld.values
        PROVE  /\ changed \in Good(global_depth) /\ changed.depth = bucket[b].depth
               /\ changed.values = c
               /\ ld.values \in PageContents => c \in PageContents
    <3> HIDE DEF b, ld, changed
    <3>1. /\ ld \in [depth : 1 .. global_depth, size : 0 .. MaxSize, PageNum : Nat \cup {NoPage}, values : Contents]
          /\ ld.values \in Contents /\ Cardinality(DOMAIN ld.values) <= ld.size
      BY <1>1, <2>2, GoodFacts
    <3>2. c \in Contents /\ Cardinality(DOMAIN c) = Cardinality(DOMAIN ld.values)
      BY <1>1, <2>4, <3>1, SetKeepsContents
    <3>3. changed = [ld EXCEPT !.values = c]
      BY DEF changed
    <3> HIDE DEF c
    <3>4. /\ changed \in [depth : 1 .. global_depth, size : 0 .. MaxSize, PageNum : Nat \cup {NoPage}, values : Contents]
          /\ changed.depth = ld.depth /\ changed.size = ld.size /\ changed.values = c
      BY <3>1, <3>2, <3>3
    <3>5. changed \in Good(global_depth)
      BY <3>1, <3>2, <3>4 DEF Good
    <3>6. ld.values \in PageContents => c \in PageContents
      BY <3>2 DEF PageContents
    <3> QED  BY <2>2, <3>4, <3>5, <3>6
  <2>5. CASE k \in DOMAIN ld.values /\ bucket' = [bucket EXCEPT ![b] = changed] /\ UNCHANGED page
    <3> HIDE DEF b, ld, changed, c
    <3> QED  BY <1>2, <2>1, <2>4, <2>5, ReplaceKeepsHash
  <2>6. CASE k \in DOMAIN ld.values /\ ~InMemory(b) /\ PageWrite(b, changed)
    <3> HIDE DEF b, ld, changed, c
    <3> QED  BY <1>2, <2>1, <2>2, <2>4, <2>6, PageWriteKeepsHash
  <2> QED  BY <1>5, <2>3, <2>5, <2>6 DEF Change
<1> QED  BY <1>4, <1>5 DEF update

LEMMA InitEstablishesHash == Init => HashInv
<1> SUFFICES ASSUME Init PROVE HashInv
  OBVIOUS
<1> DEFINE d == InitialDepth
           S == Indexes(d)
<1>1. d \in Nat \ {0} /\ S \in SUBSET Nat /\ IsFiniteSet(S)
  <2>1. d \in Nat \ {0}
    OBVIOUS
  <2>2. 2^d \in Nat
    BY PowerType
  <2>3. IsFiniteSet(0 .. (2^d - 1))
    BY <2>2, FS_Interval
  <2> QED  BY <2>1, <2>2, <2>3 DEF Indexes
<1>2. /\ global_depth = d /\ buckets = [i \in S |-> i] /\ bucket = [x \in S |-> NewBucket(d)]
      /\ page = Nothing /\ todo = << >> /\ status = "running"
  BY DEF Init, Indexes
<1> HIDE DEF d, S
<1>3. NewBucket(d) \in Good(d) /\ NewBucket(d).depth = d
  <2>1. d \in 1 .. d /\ 0 \in 0 .. MaxSize
    BY <1>1
  <2> QED  BY <2>1, NothingAndBlank DEF NewBucket, Good
<1>4. PagesOK(page)
  <2>1. DOMAIN Nothing = {} /\ Nothing \in [{} -> PageContents] /\ 0 .. (0 - 1) = {} /\ 0 \in Nat
    BY DEF Nothing
  <2>2. page \in [0 .. (0 - 1) -> PageContents]
    BY <1>2, <2>1
  <2> QED  BY <2>2 DEF PagesOK
<1>5. HashTypes
  BY <1>1, <1>2, <1>3, <1>4 DEF HashTypes, S
<1>6. DepthOf = [x \in S |-> d]
  BY <1>2, <1>3 DEF DepthOf
<1>7. \A i \in S : Bits(i, d) = i
  BY <1>1, BitsFacts DEF S
<1>8. Consistent(buckets, DOMAIN bucket, DepthOf)
  <2>1. DOMAIN bucket = S /\ DOMAIN buckets = S /\ {buckets[i] : i \in S} = S
    BY <1>2
  <2>2. \A i \in S : buckets[i] = i /\ DepthOf[buckets[i]] = d
    BY <1>2, <1>6
  <2> QED  BY <1>7, <2>1, <2>2 DEF Consistent
<1> QED  BY <1>5, <1>8 DEF HashInv

LEMMA NextKeepsHash == HashInv /\ [Next]_vars => HashInv'
<1> SUFFICES ASSUME HashInv, [Next]_vars PROVE HashInv'
  OBVIOUS
<1>1. ASSUME UNCHANGED <<global_depth, buckets, bucket, page>>,
             todo' \in Seq(Insertion), status' \in {"running", "exited", "aborted"}
      PROVE  HashInv'
  <2>1. UNCHANGED DepthOf
    BY <1>1 DEF DepthOf
  <2> QED  BY <1>1, <2>1 DEF HashInv, HashTypes
<1>2. todo \in Seq(Insertion) /\ status \in {"running", "exited", "aborted"}
  BY DEF HashInv, HashTypes
<1>3. ASSUME NEW k \in Key, NEW v \in Value, insert(k, v) PROVE HashInv'
  <2>1. [key |-> k, val |-> v] \in Insertion
    BY DEF Insertion
  <2>2. todo' \in Seq(Insertion)
    BY <1>3, <2>1 DEF insert
  <2> QED  BY <1>1, <1>2, <1>3, <2>2 DEF insert
<1>4. ASSUME NEW k \in Key, search(k) PROVE HashInv'
  BY <1>1, <1>2, <1>4 DEF search
<1>5. CASE UNCHANGED vars
  BY <1>1, <1>2, <1>5 DEF vars
<1> QED  BY <1>3, <1>4, <1>5, RemoveKeepsHash, UpdateKeepsHash, InsertStepKeepsHash DEF Next

LEMMA HashInvHolds == Spec => []HashInv
  BY InitEstablishesHash, NextKeepsHash, PTL DEF Spec

-----------------------------------------------------------------------------
\* The directory has an entry for every index, and every bucket a depth within it and
\* a size that does not grow beyond its bound.
THEOREM HashTypesAreKept == Spec => []TypeOK
<1>1. ASSUME HashInv PROVE TypeOK
  <2>1. \A b \in DOMAIN bucket :
          /\ bucket[b].depth \in 1 .. global_depth /\ bucket[b].size \in 0 .. MaxSize
          /\ bucket[b].PageNum \in Nat \cup {NoPage}
    BY <1>1, GoodFacts DEF HashInv, HashTypes
  <2>2. DOMAIN page = 0 .. (sectorpointer - 1)
    BY <1>1, PagesCount DEF HashInv, HashTypes, sectorpointer
  <2> QED  BY <1>1, <2>1, <2>2 DEF HashInv, HashTypes, TypeOK, Indexes
<1> QED  BY <1>1, HashInvHolds, PTL

\* Through all splits, doublings of the directory and merges, two indexes lead to one
\* bucket exactly if they agree in its depth's low bits, and every bucket can be
\* reached (ExHash.cpp:67-130).
THEOREM DirectoryStaysConsistent == Spec => []DirectoryConsistent
<1>1. ASSUME HashInv PROVE DirectoryConsistent
  <2>1. \A i \in DOMAIN buckets : buckets[i] \in DOMAIN bucket
    BY <1>1 DEF HashInv, HashTypes
  <2>2. \A i \in DOMAIN buckets : DepthOf[buckets[i]] = bucket[buckets[i]].depth
    BY <2>1 DEF DepthOf
  <2>3. Consistent(buckets, DOMAIN bucket, DepthOf)
    BY <1>1 DEF HashInv
  <2> QED  BY <2>2, <2>3 DEF Consistent, DirectoryConsistent, Bits
<1> QED  BY <1>1, HashInvHolds, PTL

-----------------------------------------------------------------------------
(* Contents.  A bucket that is not full has its entries in memory.  A full *)
(* one has them on its page and perhaps in memory.  One that was split and *)
(* has got no entry since still has the page from before, whose keys are   *)
(* of no concern: none of them leads here unless it waits to be inserted.  *)

Waiting(k) == \E i \in DOMAIN todo : todo[i].key = k

Current(b) == PageRead(bucket[b].PageNum)

InPlace(values, b) ==
  \A k \in DOMAIN values : k \in Key /\ values[k] \in Value /\ BucketOf(k) = b

FullOK(b) ==
  /\ bucket[b].PageNum # NoPage
  /\ InPlace(Current(b), b)
  /\ Cardinality(DOMAIN Current(b)) >= bucket_size
  /\ InMemory(b) => DOMAIN bucket[b].values = DOMAIN Current(b)

Held(b) ==
  /\ bucket[b].PageNum \in DOMAIN page \cup {NoPage}
  /\ InPlace(bucket[b].values, b)
  /\ ~IsFull(b) => Cardinality(DOMAIN bucket[b].values) = bucket[b].size
  /\ IsFull(b) => FullOK(b)

Old(b) == bucket[b].size = 0 /\ bucket[b].PageNum # NoPage

\* What the page of b had before the split, and where its keys are.
FromParent(b, k) ==
  \E i \in Indexes(global_depth) :
    buckets[i] = b /\ Bits(k, bucket[b].depth - 1) = Bits(i, bucket[b].depth - 1)

OldPage(b) ==
  /\ Cardinality(DOMAIN Current(b)) >= bucket_size
  /\ \A k \in DOMAIN Current(b) : k \in Key /\ FromParent(b, k) /\ (BucketOf(k) = b => Waiting(k))

\* A bucket that has the same parent, or a part of it.
Beside(b, c) ==
  /\ c \in DOMAIN bucket \ {b}
  /\ \E i, j \in Indexes(global_depth) :
       /\ buckets[i] = b /\ buckets[j] = c
       /\ Bits(i, bucket[b].depth - 1) = Bits(j, bucket[b].depth - 1)

Covers(b, c) ==
  \/ bucket[c].PageNum # NoPage
  \/ /\ bucket[c].depth = bucket[b].depth
     /\ \A k \in DOMAIN Current(b) : Waiting(k) \/ k \in DOMAIN bucket[c].values

OldOK(b) == Old(b) => OldPage(b) /\ \E c \in DOMAIN bucket : Beside(b, c) /\ Covers(b, c)

OwnPages ==
  \A b, c \in DOMAIN bucket :
    b # c /\ bucket[b].PageNum # NoPage => bucket[b].PageNum # bucket[c].PageNum

Stored == /\ \A b \in DOMAIN bucket : Held(b) /\ OldOK(b)
          /\ OwnPages

SplitsNeeded ==
  global_depth > InitialDepth =>
    \E k, l \in Key : k # l /\ Bits(k, global_depth - 1) = Bits(l, global_depth - 1)

TodoOK == \A i \in DOMAIN todo : todo[i].key \in Key /\ todo[i].val \in Value

\* The last insertion of k still to be made is the one of its value.
LastOne(k) ==
  \E i \in DOMAIN todo :
    /\ todo[i].key = k /\ todo[i].val = dict[k]
    /\ \A j \in DOMAIN todo : j > i => todo[j].key # k

Answers ==
  status = "running" =>
    \A k \in Key : IF Waiting(k) THEN LastOne(k) ELSE Lookup(k) = dict[k]

ContentsInv ==
  /\ DOMAIN dict = Key
  /\ ~strayed => Stored /\ SplitsNeeded /\ TodoOK /\ Answers

-----------------------------------------------------------------------------
(* What follows from it.                                                   *)

LEMMA Typed ==
  ASSUME HashInv
  PROVE  /\ HashTypes /\ global_depth \in Nat
         /\ DOMAIN buckets = Indexes(global_depth) /\ Indexes(global_depth) \subseteq Nat
         /\ \A i \in Indexes(global_depth) : buckets[i] \in DOMAIN bucket
         /\ \A b \in DOMAIN bucket :
              /\ bucket[b] \in Good(global_depth)
              /\ bucket[b].depth \in 1 .. global_depth /\ bucket[b].depth - 1 \in Nat
              /\ bucket[b].depth \in Nat
              /\ bucket[b].size \in 0 .. MaxSize /\ bucket[b].size \in Nat
              /\ bucket[b].PageNum \in Nat \cup {NoPage}
              /\ bucket[b].values \in Contents
              /\ Current(b) \in PageContents /\ Current(b) \in Contents
<1>1. /\ HashTypes /\ global_depth \in Nat /\ DOMAIN buckets = Indexes(global_depth)
      /\ \A i \in Indexes(global_depth) : buckets[i] \in DOMAIN bucket
      /\ \A b \in DOMAIN bucket : bucket[b] \in Good(global_depth)
  BY DEF HashInv, HashTypes
<1>2. Indexes(global_depth) \subseteq Nat
  BY <1>1, IndexesType
<1>3. ASSUME NEW b \in DOMAIN bucket
      PROVE  /\ bucket[b].depth \in 1 .. global_depth /\ bucket[b].depth - 1 \in Nat
             /\ bucket[b].depth \in Nat
             /\ bucket[b].size \in 0 .. MaxSize /\ bucket[b].size \in Nat
             /\ bucket[b].PageNum \in Nat \cup {NoPage}
             /\ bucket[b].values \in Contents
             /\ Current(b) \in PageContents /\ Current(b) \in Contents
  <2>1. /\ bucket[b].depth \in 1 .. global_depth /\ bucket[b].size \in 0 .. MaxSize
        /\ bucket[b].PageNum \in Nat \cup {NoPage} /\ bucket[b].values \in Contents
    BY <1>1, GoodFacts
  <2>2. Current(b) \in PageContents
    BY <1>1, PageReadType DEF Current
  <2>3. Current(b) \in Contents
    BY <2>2 DEF PageContents
  <2> DEFINE d == bucket[b].depth
             s == bucket[b].size
  <2>4. d \in 1 .. global_depth /\ s \in 0 .. MaxSize
    BY <2>1
  <2> HIDE DEF d, s
  <2>5. d - 1 \in Nat /\ d \in Nat /\ s \in Nat
    BY <1>1, <2>4
  <2> QED  BY <2>1, <2>2, <2>3, <2>5 DEF d, s
<1> QED  BY <1>1, <1>2, <1>3

LEMMA SameBucket ==
  ASSUME HashInv, NEW i \in Indexes(global_depth), NEW j \in Indexes(global_depth)
  PROVE  buckets[i] = buckets[j] <=>
           Bits(i, bucket[buckets[i]].depth) = Bits(j, bucket[buckets[i]].depth)
<1>1. DOMAIN buckets = Indexes(global_depth) /\ buckets[i] \in DOMAIN bucket
  BY Typed
<1>2. DepthOf[buckets[i]] = bucket[buckets[i]].depth
  BY <1>1 DEF DepthOf
<1> QED  BY <1>1, <1>2 DEF HashInv, Consistent

\* Keys that agree with an index of a bucket in the bits of its depth lead to it.
LEMMA LeadsHere ==
  ASSUME HashInv, NEW k \in Nat, NEW i \in Indexes(global_depth)
  PROVE  LET d == bucket[buckets[i]].depth IN
         BucketOf(k) = buckets[i] <=> Bits(k, d) = Bits(i, d)
<1> DEFINE d == bucket[buckets[i]].depth
           g == global_depth
           h == hash(k)
<1>1. g \in Nat /\ HashTypes /\ buckets[i] \in DOMAIN bucket
  BY Typed
<1>2. h \in Indexes(global_depth) /\ h = Bits(k, g) /\ BucketOf(k) = buckets[h]
  BY <1>1, BucketOfKey
<1>3. d \in 1 .. g /\ d \in Nat
  BY <1>1, Typed
<1>4. buckets[i] = buckets[h] <=> Bits(i, d) = Bits(h, d)
  BY <1>2, SameBucket
<1> HIDE DEF g, d, h
<1>5. Bits(h, d) = Bits(k, d)
  BY <1>1, <1>2, <1>3, BitsFacts
<1> QED  BY <1>2, <1>4, <1>5 DEF d

\* A bucket beside b, of the same depth, is the other half of their parent: what
\* comes from the parent leads to one of the two.
LEMMA TwoHalves ==
  ASSUME HashInv, NEW b \in DOMAIN bucket, NEW c \in DOMAIN bucket, Beside(b, c),
         bucket[c].depth = bucket[b].depth, NEW k \in Nat, FromParent(b, k)
  PROVE  BucketOf(k) \in {b, c}
<1> DEFINE d == bucket[b].depth
<1>1. d \in Nat \ {0} /\ d - 1 \in Nat /\ d - 1 <= d
  <2>1. d \in 1 .. global_depth /\ d \in Nat /\ d - 1 \in Nat
    BY Typed
  <2> HIDE DEF d
  <2> QED  BY <2>1
<1>2. PICK i \in Indexes(global_depth), j \in Indexes(global_depth) :
        buckets[i] = b /\ buckets[j] = c /\ Bits(i, d - 1) = Bits(j, d - 1) /\ b # c
  BY DEF Beside
<1>3. PICK m \in Indexes(global_depth) : buckets[m] = b /\ Bits(k, d - 1) = Bits(m, d - 1)
  BY DEF FromParent
<1>4. i \in Nat /\ j \in Nat /\ m \in Nat
  BY Typed
<1>5. Bits(i, d) = Bits(m, d) /\ Bits(i, d) # Bits(j, d)
  BY <1>2, <1>3, SameBucket
<1>6. (BucketOf(k) = b <=> Bits(k, d) = Bits(i, d)) /\ (BucketOf(k) = c <=> Bits(k, d) = Bits(j, d))
  BY <1>2, LeadsHere
<1> HIDE DEF d
<1>7. Bits(i, d - 1) = Bits(m, d - 1)
  BY <1>1, <1>4, <1>5, BitsFacts
<1> DEFINE p == pairIndex(i, d)
<1>8. /\ \A x \in Nat : Bits(x, d - 1) = Bits(i, d - 1) => Bits(x, d) \in {Bits(i, d), Bits(p, d)}
  BY <1>1, <1>4, PairDiffers
<1> HIDE DEF p
<1>9. Bits(j, d) = Bits(p, d)
  BY <1>2, <1>4, <1>5, <1>8
<1>10. Bits(k, d) \in {Bits(i, d), Bits(p, d)}
  BY <1>3, <1>7, <1>8
<1> QED  BY <1>6, <1>9, <1>10

\* When nothing waits, a bucket beside an old one has a page: it has the entries the
\* old one lost, and they fill it.
LEMMA QuietSibling ==
  ASSUME HashInv, Stored, NEW b \in DOMAIN bucket, Old(b), \A k \in Key : ~Waiting(k)
  PROVE  \E c \in DOMAIN bucket : Beside(b, c) /\ bucket[c].PageNum # NoPage
<1>1. OldPage(b) /\ \E c \in DOMAIN bucket : Beside(b, c) /\ Covers(b, c)
  BY DEF Stored, OldOK
<1>2. PICK c \in DOMAIN bucket : Beside(b, c) /\ Covers(b, c)
  BY <1>1
<1>3. SUFFICES ASSUME bucket[c].PageNum = NoPage PROVE FALSE
  BY <1>2
<1> DEFINE P == DOMAIN Current(b)
           V == DOMAIN bucket[c].values
<1>4. P \subseteq V
  <2>1. \A k \in P : k \in Key /\ (Waiting(k) \/ k \in V)
    BY <1>1, <1>2, <1>3 DEF OldPage, Covers
  <2> QED  BY <2>1
<1>5. ~IsFull(c) /\ Cardinality(V) = bucket[c].size
  BY <1>3 DEF Stored, Held, FullOK
<1>6. Cardinality(V) < bucket_size
  BY <1>5, Typed DEF IsFull
<1>7. Cardinality(P) >= bucket_size
  BY <1>1 DEF OldPage
<1>8. bucket[c].values \in Contents /\ Current(b) \in Contents
  BY Typed
<1>9. IsFiniteSet(V) /\ IsFiniteSet(P)
  BY <1>8, ContentsFacts
<1> HIDE DEF P, V
<1>10. Cardinality(P) <= Cardinality(V) /\ Cardinality(P) \in Nat /\ Cardinality(V) \in Nat
  BY <1>4, <1>9, FS_Subset, FS_CardinalityType
<1> QED  BY <1>6, <1>7, <1>10

\* What Search looks through is what a split would insert again.
LookIn(b, k) == IF k \in DOMAIN Data(b) THEN Data(b)[k] ELSE 0

LEMMA LookupLooksIn ==
  ASSUME NEW k
  PROVE  Lookup(k) = LookIn(BucketOf(k), k)
BY DEF Lookup, Found, LookIn, Data

LEMMA DataOfFull ==
  ASSUME HashInv, Stored, NEW b \in DOMAIN bucket, IsFull(b)
  PROVE  /\ InPlace(Data(b), b) /\ DOMAIN Data(b) = DOMAIN Current(b)
         /\ Cardinality(DOMAIN Data(b)) >= bucket_size /\ bucket[b].PageNum # NoPage
<1>1. FullOK(b) /\ InPlace(bucket[b].values, b)
  BY DEF Stored, Held
<1>2. CASE InMemory(b)
  BY <1>1, <1>2 DEF FullOK, Data
<1>3. CASE ~InMemory(b)
  BY <1>1, <1>3 DEF FullOK, Data, Current
<1> QED  BY <1>2, <1>3

LEMMA NoEntries ==
  ASSUME NEW c \in Contents
  PROVE  Cardinality(DOMAIN c) = 0 <=> DOMAIN c = {}
<1>1. IsFiniteSet(DOMAIN c)
  BY ContentsFacts
<1> QED  BY <1>1, FS_EmptySet

LEMMA DataOfOther ==
  ASSUME HashInv, Stored, NEW b \in DOMAIN bucket, ~IsFull(b)
  PROVE  \/ Data(b) = bucket[b].values
         \/ Old(b) /\ Data(b) = Current(b) /\ DOMAIN bucket[b].values = {}
<1>1. Cardinality(DOMAIN bucket[b].values) = bucket[b].size
  BY DEF Stored, Held
<1>2. CASE InMemory(b) \/ bucket[b].PageNum = NoPage
  BY <1>2 DEF Data
<1>3. CASE ~InMemory(b) /\ bucket[b].PageNum # NoPage
  <2>1. bucket[b].values \in Contents
    BY Typed
  <2>2. DOMAIN bucket[b].values = {} /\ bucket[b].size = 0
    BY <1>1, <1>3, <2>1, NoEntries DEF InMemory
  <2> QED  BY <1>3, <2>2 DEF Old, Data, Current
<1> QED  BY <1>2, <1>3

\* In a bucket that is not full Search finds what is in memory.
LEMMA LookupInMemory ==
  ASSUME HashInv, Stored, NEW k \in Key, ~IsFull(BucketOf(k)), ~Waiting(k)
  PROVE  LET values == bucket[BucketOf(k)].values IN
         Lookup(k) = IF k \in DOMAIN values THEN values[k] ELSE 0
<1> DEFINE b == BucketOf(k)
<1>1. b \in DOMAIN bucket
  BY BucketOfKey DEF HashInv
<1>2. Lookup(k) = LookIn(b, k)
  BY LookupLooksIn
<1>3. CASE Data(b) = bucket[b].values
  BY <1>2, <1>3 DEF LookIn
<1>4. CASE Old(b) /\ Data(b) = Current(b) /\ DOMAIN bucket[b].values = {}
  <2>1. OldPage(b)
    BY <1>1, <1>4 DEF Stored, OldOK
  <2>2. k \notin DOMAIN Current(b)
    BY <2>1 DEF OldPage
  <2> QED  BY <1>2, <1>4, <2>2 DEF LookIn
<1> QED  BY <1>1, <1>3, <1>4, DataOfOther

\* Search finds no key that leads to another bucket, unless the page is old.
LEMMA NotElsewhere ==
  ASSUME HashInv, Stored, NEW b \in DOMAIN bucket, NEW k \in Key, BucketOf(k) # b, ~Old(b)
  PROVE  LookIn(b, k) = 0
<1>1. CASE IsFull(b)
  <2>1. InPlace(Data(b), b)
    BY <1>1, DataOfFull
  <2> QED  BY <2>1 DEF LookIn, InPlace
<1>2. CASE ~IsFull(b)
  <2>1. Data(b) = bucket[b].values /\ InPlace(bucket[b].values, b)
    BY <1>2, DataOfOther DEF Stored, Held
  <2> QED  BY <2>1 DEF LookIn, InPlace
<1> QED  BY <1>1, <1>2

LEMMA LookupElsewhereStays ==
  ASSUME NEW k, NEW c, c = BucketOf(k), BucketOf(k)' = c, bucket'[c] = bucket[c],
         bucket[c].PageNum # NoPage => Current(c)' = Current(c)
  PROVE  Lookup(k)' = Lookup(k)
<1>1. Data(c)' = Data(c)
  BY DEF Data, Current, InMemory
<1>2. Lookup(k) = LookIn(c, k)
  BY LookupLooksIn
<1>3. Lookup(k)' = LookIn(c, k)'
  BY DEF Lookup, Found, LookIn, Data
<1> QED  BY <1>1, <1>2, <1>3 DEF LookIn

LEMMA StoredStays ==
  ASSUME Stored, UNCHANGED <<global_depth, buckets, bucket, page, todo>>
  PROVE  Stored'
<1>1. /\ \A b : Current(b)' = Current(b) /\ (IsFull(b)' <=> IsFull(b)) /\ (InMemory(b)' <=> InMemory(b))
      /\ \A k : BucketOf(k)' = BucketOf(k) /\ (Waiting(k)' <=> Waiting(k))
  BY DEF Current, PageRead, IsFull, InMemory, BucketOf, hash, Waiting
<1>2. \A b \in DOMAIN bucket : Held(b)'
  <2>1. SUFFICES ASSUME NEW b \in DOMAIN bucket PROVE Held(b)'
    OBVIOUS
  <2>2. Held(b)
    BY DEF Stored
  <2>3. InPlace(bucket[b].values, b)' /\ (FullOK(b) => FullOK(b)')
    BY <1>1, <2>2 DEF Held, FullOK, InPlace
  <2> QED  BY <1>1, <2>2, <2>3 DEF Held
<1>3. \A b \in DOMAIN bucket : OldOK(b)'
  <2>1. SUFFICES ASSUME NEW b \in DOMAIN bucket, Old(b)' PROVE OldOK(b)'
    BY DEF OldOK
  <2>2. OldPage(b) /\ \E c \in DOMAIN bucket : Beside(b, c) /\ Covers(b, c)
    BY <2>1 DEF Stored, OldOK, Old
  <2>3. OldPage(b)'
    BY <1>1, <2>2 DEF OldPage, FromParent
  <2>4. \A c \in DOMAIN bucket : (Beside(b, c) => Beside(b, c)') /\ (Covers(b, c) => Covers(b, c)')
    BY <1>1 DEF Beside, Covers
  <2> QED  BY <2>2, <2>3, <2>4 DEF OldOK
<1>4. OwnPages'
  BY DEF Stored, OwnPages
<1> QED  BY <1>2, <1>3, <1>4 DEF Stored

-----------------------------------------------------------------------------
(* Changes of one bucket.                                                  *)

\* Without a mishap PageWrite writes a page that is this bucket's alone, and no other.
SamePage(p) == p \in DOMAIN page /\ p \in DOMAIN page' /\ page'[p] = page[p]

LEMMA PageWriteEffect ==
  ASSUME HashInv, Stored, NEW b \in DOMAIN bucket, NEW bk, bk.PageNum = bucket[b].PageNum,
         PageWrite(b, bk), ~strayed'
  PROVE  /\ ~strayed /\ DOMAIN page \subseteq DOMAIN page'
         /\ \E p \in Nat :
              /\ p \in DOMAIN page' /\ page'[p] = bk.values
              /\ bucket' = [bucket EXCEPT ![b] = [bk EXCEPT !.PageNum = p, !.values = Nothing]]
              /\ \A c \in DOMAIN bucket \ {b} :
                   bucket[c].PageNum # NoPage =>
                     bucket[c].PageNum # p /\ SamePage(bucket[c].PageNum)
<1>1. PagesOK(page) /\ bucket \in [DOMAIN bucket -> Good(global_depth)]
  BY DEF HashInv, HashTypes
<1>2. /\ sectorpointer \in Nat /\ sectorpointer \notin DOMAIN page
      /\ page \in [DOMAIN page -> PageContents] /\ DOMAIN page = 0 .. (sectorpointer - 1)
  BY <1>1, PagesCount DEF sectorpointer
<1>3. \A c \in DOMAIN bucket : bucket[c].PageNum # NoPage => bucket[c].PageNum \in DOMAIN page
  BY DEF Stored, Held
<1>4. CASE bk.PageNum = NoPage /\ PageAppend(bk.values)
           /\ bucket' = [bucket EXCEPT ![b] = [bk EXCEPT !.PageNum = sectorpointer, !.values = Nothing]]
  <2> DEFINE s == sectorpointer
  <2>1. page' = Set(page, s, bk.values) /\ ~strayed
    BY <1>4 DEF PageAppend
  <2>2. s \in Nat /\ s \notin DOMAIN page
    BY <1>2
  <2>3. bucket' = [bucket EXCEPT ![b] = [bk EXCEPT !.PageNum = s, !.values = Nothing]]
    BY <1>4
  <2> HIDE DEF s
  <2>4. /\ DOMAIN page' = DOMAIN page \cup {s} /\ page'[s] = bk.values
        /\ \A q \in DOMAIN page : q # s => page'[q] = page[q]
    BY <2>1 DEF Set
  <2>5. ASSUME NEW c \in DOMAIN bucket \ {b}, bucket[c].PageNum # NoPage
        PROVE  bucket[c].PageNum # s /\ SamePage(bucket[c].PageNum)
    BY <1>3, <2>2, <2>4, <2>5 DEF SamePage
  <2> QED  BY <2>1, <2>2, <2>3, <2>4, <2>5
<1>5. CASE bk.PageNum # NoPage /\ PageUpdate(bk.PageNum, bk.values)
           /\ bucket' = [bucket EXCEPT ![b] = [bk EXCEPT !.values = Nothing]]
  <2> DEFINE p == bk.PageNum
             next == [bk EXCEPT !.values = Nothing]
  <2>1. p \in DOMAIN page /\ p \in Nat
    BY <1>2, <1>3, <1>5
  <2>2. ~strayed /\ page' = [q \in DOMAIN page |-> IF q = p THEN bk.values ELSE page[q]]
    <3>1. PICK lost : /\ page' = [q \in DOMAIN page |-> IF q \in lost THEN Blank
                                         ELSE IF q = p THEN bk.values ELSE page[q]]
                      /\ strayed' = (strayed \/ lost # {})
      BY <1>5 DEF PageUpdate
    <3>2. lost = {} /\ ~strayed
      BY <3>1
    <3> QED  BY <3>1, <3>2
  <2>3. bucket' = [bucket EXCEPT ![b] = [bk EXCEPT !.PageNum = p, !.values = Nothing]]
    <3>1. [bk EXCEPT !.PageNum = p, !.values = Nothing] = [bk EXCEPT !.values = Nothing]
      OBVIOUS
    <3> QED  BY <1>5, <3>1
  <2>4. p = bucket[b].PageNum
    OBVIOUS
  <2> HIDE DEF p
  <2>5. ASSUME NEW c \in DOMAIN bucket \ {b}, bucket[c].PageNum # NoPage
        PROVE  bucket[c].PageNum # p /\ SamePage(bucket[c].PageNum)
    <3>1. bucket[c].PageNum # p
      BY <2>4, <2>5 DEF Stored, OwnPages
    <3> QED  BY <1>3, <2>2, <2>5, <3>1 DEF SamePage
  <2> QED  BY <2>1, <2>2, <2>3, <2>5
<1> QED  BY <1>4, <1>5 DEF PageWrite

\* A bucket is replaced that neither loses its page nor entries that are not there.
LEMMA ReplaceKeepsStored ==
  ASSUME HashInv, HashInv', Stored, NEW b \in DOMAIN bucket,
         DOMAIN bucket' = DOMAIN bucket, UNCHANGED <<global_depth, buckets>>,
         \A c \in DOMAIN bucket : bucket'[c].depth = bucket[c].depth,
         \A c \in DOMAIN bucket \ {b} : bucket'[c] = bucket[c],
         \A c \in DOMAIN bucket \ {b} : bucket[c].PageNum # NoPage =>
            bucket'[b].PageNum # bucket[c].PageNum /\ SamePage(bucket[c].PageNum),
         Held(b)', ~Old(b)',
         bucket[b].PageNum # NoPage => bucket'[b].PageNum # NoPage,
         \A k \in Key : Waiting(k) => Waiting(k)' \/ BucketOf(k) = b,
         \/ bucket'[b].PageNum # NoPage
         \/ \A k \in Key : ~Waiting(k)
         \/ /\ DOMAIN bucket[b].values \subseteq DOMAIN bucket'[b].values
            /\ \A k \in Key : Waiting(k) => Waiting(k)' \/ k \in DOMAIN bucket'[b].values
  PROVE  Stored'
<1>1. \A k : BucketOf(k)' = BucketOf(k)
  BY DEF BucketOf, hash
<1>2. ASSUME NEW c \in DOMAIN bucket \ {b}, bucket[c].PageNum # NoPage
      PROVE  Current(c)' = Current(c)
  <2>1. bucket'[c] = bucket[c] /\ SamePage(bucket[c].PageNum)
    BY <1>2
  <2> QED  BY <2>1 DEF Current, PageRead, SamePage
<1>3. ASSUME NEW c \in DOMAIN bucket \ {b} PROVE Held(c)'
  <2>1. Held(c) /\ bucket'[c] = bucket[c]
    BY DEF Stored
  <2>2. bucket'[c].PageNum \in DOMAIN page' \cup {NoPage}
    <3>1. bucket[c].PageNum # NoPage => SamePage(bucket[c].PageNum)
      OBVIOUS
    <3> QED  BY <2>1, <3>1 DEF SamePage
  <2>3. InPlace(bucket[c].values, c) => InPlace(bucket[c].values, c)'
    BY <1>1, <2>1 DEF InPlace
  <2>4. (IsFull(c)' <=> IsFull(c)) /\ (InMemory(c)' <=> InMemory(c))
    BY <2>1 DEF IsFull, InMemory
  <2>5. FullOK(c) => FullOK(c)'
    <3>1. SUFFICES ASSUME FullOK(c) PROVE FullOK(c)'
      OBVIOUS
    <3>2. bucket[c].PageNum # NoPage /\ Current(c)' = Current(c)
      BY <1>2, <3>1 DEF FullOK
    <3>3. InPlace(Current(c), c)'
      BY <1>1, <3>1, <3>2 DEF FullOK, InPlace
    <3> QED  BY <2>1, <2>4, <3>1, <3>2, <3>3 DEF FullOK
  <2> QED  BY <2>1, <2>2, <2>3, <2>4, <2>5 DEF Held
<1>4. ASSUME NEW c \in DOMAIN bucket \ {b}, Old(c)' PROVE OldOK(c)'
  <2>1. Old(c) /\ bucket'[c] = bucket[c] /\ Current(c)' = Current(c)
    <3>1. bucket'[c] = bucket[c]
      OBVIOUS
    <3>2. Old(c)
      BY <1>4, <3>1 DEF Old
    <3> QED  BY <1>2, <3>1, <3>2 DEF Old
  <2>2. OldPage(c) /\ \E s \in DOMAIN bucket : Beside(c, s) /\ Covers(c, s)
    BY <2>1 DEF Stored, OldOK
  <2>3. \A k : FromParent(c, k)' = FromParent(c, k)
    BY <2>1 DEF FromParent
  <2>4. OldPage(c)'
    BY <1>1, <2>1, <2>2, <2>3 DEF OldPage
  <2>5. \A s \in DOMAIN bucket : Beside(c, s) => Beside(c, s)'
    BY <2>1 DEF Beside
  <2>6. PICK s \in DOMAIN bucket :
          /\ Beside(c, s) /\ Covers(c, s)
          /\ (\A k \in Key : ~Waiting(k)) => bucket[s].PageNum # NoPage
    <3>1. CASE \A k \in Key : ~Waiting(k)
      <4>1. PICK s \in DOMAIN bucket : Beside(c, s) /\ bucket[s].PageNum # NoPage
        BY <2>1, <3>1, QuietSibling
      <4> QED  BY <4>1 DEF Covers
    <3>2. CASE ~ \A k \in Key : ~Waiting(k)
      BY <2>2, <3>2
    <3> QED  BY <3>1, <3>2
  <2>7. Covers(c, s)'
    <3>1. CASE bucket[s].PageNum # NoPage
      BY <3>1 DEF Covers
    <3>2. CASE bucket[s].PageNum = NoPage
      <4>1. /\ bucket[s].depth = bucket[c].depth
            /\ \A k \in DOMAIN Current(c) : Waiting(k) \/ k \in DOMAIN bucket[s].values
            /\ ~ \A k \in Key : ~Waiting(k)
        BY <2>6, <3>2 DEF Covers
      <4>2. bucket'[s].depth = bucket'[c].depth
        BY <4>1
      <4>3. ASSUME NEW k \in DOMAIN Current(c), bucket'[s].PageNum = NoPage
            PROVE  Waiting(k)' \/ k \in DOMAIN bucket'[s].values
        <5>1. k \in Key /\ FromParent(c, k) /\ k \in Nat
          BY <2>2 DEF OldPage
        <5>2. CASE s = b
          BY <4>1, <4>3, <5>1, <5>2
        <5>3. CASE s # b
          <6>1. BucketOf(k) \in {c, s}
            BY <2>6, <4>1, <5>1, TwoHalves
          <6> QED  BY <4>1, <5>1, <5>3, <6>1
        <5> QED  BY <5>2, <5>3
      <4> QED  BY <2>1, <4>2, <4>3 DEF Covers
    <3> QED  BY <3>1, <3>2
  <2> QED  BY <2>4, <2>5, <2>6, <2>7 DEF OldOK
<1>5. OwnPages'
  <2>1. SUFFICES ASSUME NEW c \in DOMAIN bucket, NEW e \in DOMAIN bucket, c # e,
                        bucket'[c].PageNum # NoPage
                 PROVE  bucket'[c].PageNum # bucket'[e].PageNum
    BY DEF OwnPages
  <2>2. CASE c = b
    BY <2>1, <2>2
  <2>3. CASE e = b
    BY <2>1, <2>3
  <2>4. CASE c # b /\ e # b
    BY <2>1, <2>4 DEF Stored, OwnPages
  <2> QED  BY <2>2, <2>3, <2>4
<1>6. OldOK(b)'
  BY DEF OldOK
<1> QED  BY <1>3, <1>4, <1>5, <1>6 DEF Stored, OldOK

\* A full bucket goes to its page.
LEMMA PageWriteKeepsStored ==
  ASSUME HashInv, HashInv', Stored, NEW b \in DOMAIN bucket, NEW bk \in Good(global_depth),
         bk.PageNum = bucket[b].PageNum, bk.depth = bucket[b].depth, PageWrite(b, bk), ~strayed',
         UNCHANGED <<global_depth, buckets>>, InPlace(bk.values, b),
         Cardinality(DOMAIN bk.values) >= bucket_size, bk.size >= bucket_size,
         \A k \in Key : Waiting(k) => Waiting(k)' \/ BucketOf(k) = b
  PROVE  /\ ~strayed /\ Stored' /\ Data(b)' = bk.values
         /\ \A c \in DOMAIN bucket \ {b} :
              bucket'[c] = bucket[c] /\ (bucket[c].PageNum # NoPage => Current(c)' = Current(c))
<1>1. /\ ~strayed /\ DOMAIN page \subseteq DOMAIN page'
      /\ bucket \in [DOMAIN bucket -> Good(global_depth)] /\ global_depth \in Nat
  BY PageWriteEffect DEF HashInv, HashTypes
<1>2. PICK p \in Nat :
        /\ p \in DOMAIN page' /\ page'[p] = bk.values
        /\ bucket' = [bucket EXCEPT ![b] = [bk EXCEPT !.PageNum = p, !.values = Nothing]]
        /\ \A c \in DOMAIN bucket \ {b} :
             bucket[c].PageNum # NoPage => bucket[c].PageNum # p /\ SamePage(bucket[c].PageNum)
  BY PageWriteEffect
<1>3. bk \in [depth : 1 .. global_depth, size : 0 .. MaxSize, PageNum : Nat \cup {NoPage}, values : Contents]
  BY <1>1, GoodFacts
<1> DEFINE next == [bk EXCEPT !.PageNum = p, !.values = Nothing]
<1>4. next.PageNum = p /\ next.values = Nothing /\ next.size = bk.size /\ next.depth = bk.depth
  BY <1>3
<1>5. bucket' = [bucket EXCEPT ![b] = next]
  BY <1>2
<1> HIDE DEF next
<1>6. /\ DOMAIN bucket' = DOMAIN bucket /\ bucket'[b] = next
      /\ \A c \in DOMAIN bucket \ {b} : bucket'[c] = bucket[c]
      /\ \A c \in DOMAIN bucket : bucket'[c].depth = bucket[c].depth
  BY <1>1, <1>4, <1>5
<1>7. p # NoPage /\ bucket'[b].PageNum = p
  BY <1>4, <1>6 DEF NoPage
<1>8. Current(b)' = bk.values
  BY <1>2, <1>7 DEF Current, PageRead
<1>9. DOMAIN bucket'[b].values = {} /\ ~InMemory(b)' /\ bucket'[b].size = bk.size
  BY <1>4, <1>6 DEF Nothing, InMemory
<1>10. Data(b)' = bk.values
  BY <1>7, <1>8, <1>9 DEF Data, Current
<1>11. \A k : BucketOf(k)' = BucketOf(k)
  BY DEF BucketOf, hash
<1>12. Held(b)' /\ ~Old(b)'
  <2>1. InPlace(Current(b), b)' /\ InPlace(bucket[b].values, b)'
    BY <1>8, <1>9, <1>11 DEF InPlace
  <2>2. FullOK(b)'
    BY <1>7, <1>8, <1>9, <2>1 DEF FullOK
  <2>3. IsFull(b)' /\ bk.size # 0
    BY <1>9 DEF IsFull
  <2> QED  BY <1>2, <1>7, <1>9, <2>1, <2>2, <2>3 DEF Held, Old
<1>13. \A c \in DOMAIN bucket \ {b} : bucket[c].PageNum # NoPage =>
          bucket'[b].PageNum # bucket[c].PageNum /\ SamePage(bucket[c].PageNum)
  BY <1>2, <1>7
<1>14. Stored'
  BY <1>6, <1>7, <1>12, <1>13, ReplaceKeepsStored
<1>15. \A c \in DOMAIN bucket \ {b} : bucket[c].PageNum # NoPage => Current(c)' = Current(c)
  BY <1>6, <1>13 DEF Current, PageRead, SamePage
<1> QED  BY <1>1, <1>6, <1>10, <1>14, <1>15

\* A bucket changes in memory.
MayBecome(b, bk) ==
  /\ bk \in Good(global_depth)
  /\ bk.PageNum = bucket[b].PageNum /\ bk.depth = bucket[b].depth
  /\ InPlace(bk.values, b)
  /\ \/ bk.size < bucket_size /\ Cardinality(DOMAIN bk.values) = bk.size
     \/ IsFull(b) /\ bk.size >= bucket_size /\ DOMAIN bk.values \in {{}, DOMAIN Current(b)}
  /\ ~ (bk.size = 0 /\ bk.PageNum # NoPage)
  /\ \A k \in Key : Waiting(k) => Waiting(k)' \/ BucketOf(k) = b
  /\ \/ bk.PageNum # NoPage
     \/ \A k \in Key : ~Waiting(k)
     \/ /\ DOMAIN bucket[b].values \subseteq DOMAIN bk.values
        /\ \A k \in Key : Waiting(k) => Waiting(k)' \/ k \in DOMAIN bk.values

LEMMA MemoryKeepsStored ==
  ASSUME HashInv, HashInv', Stored, NEW b \in DOMAIN bucket, NEW bk, MayBecome(b, bk),
         bucket' = [bucket EXCEPT ![b] = bk], UNCHANGED <<global_depth, buckets, page>>
  PROVE  /\ Stored'
         /\ Data(b)' = IF bk.PageNum # NoPage /\ DOMAIN bk.values = {} THEN Current(b) ELSE bk.values
         /\ \A c \in DOMAIN bucket \ {b} : bucket'[c] = bucket[c] /\ Current(c)' = Current(c)
<1>0. /\ bk \in Good(global_depth)
      /\ bk.PageNum = bucket[b].PageNum /\ bk.depth = bucket[b].depth
      /\ InPlace(bk.values, b)
      /\ \/ bk.size < bucket_size /\ Cardinality(DOMAIN bk.values) = bk.size
         \/ IsFull(b) /\ bk.size >= bucket_size /\ DOMAIN bk.values \in {{}, DOMAIN Current(b)}
      /\ ~ (bk.size = 0 /\ bk.PageNum # NoPage)
  BY DEF MayBecome
<1>1. bucket \in [DOMAIN bucket -> Good(global_depth)] /\ global_depth \in Nat
  BY DEF HashInv, HashTypes
<1>2. /\ DOMAIN bucket' = DOMAIN bucket /\ bucket'[b] = bk
      /\ \A c \in DOMAIN bucket \ {b} : bucket'[c] = bucket[c]
      /\ \A c \in DOMAIN bucket : bucket'[c].depth = bucket[c].depth
  BY <1>0, <1>1
<1>3. \A c \in DOMAIN bucket : Current(c)' = Current(c)
  BY <1>0, <1>2 DEF Current, PageRead
<1>4. \A k : BucketOf(k)' = BucketOf(k)
  BY DEF BucketOf, hash
<1>5. Data(b)' = IF bk.PageNum # NoPage /\ DOMAIN bk.values = {} THEN Current(b) ELSE bk.values
  BY <1>0, <1>2 DEF Data, InMemory, Current, PageRead
<1>6. bk.size \in Nat /\ Held(b)
  BY <1>0, <1>1, GoodFacts DEF Stored
<1>7. Held(b)' /\ ~Old(b)'
  <2>1. InPlace(bucket[b].values, b)'
    BY <1>0, <1>2, <1>4 DEF InPlace
  <2>2. CASE bk.size < bucket_size /\ Cardinality(DOMAIN bk.values) = bk.size
    <3>1. ~IsFull(b)'
      BY <1>0, <1>2, <1>6, <2>2 DEF IsFull
    <3> QED  BY <1>0, <1>2, <1>6, <2>1, <2>2, <3>1 DEF Held, Old
  <2>3. CASE IsFull(b) /\ bk.size >= bucket_size /\ DOMAIN bk.values \in {{}, DOMAIN Current(b)}
    <3>1. FullOK(b)
      BY <1>6, <2>3 DEF Held
    <3>2. InPlace(Current(b), b)'
      BY <1>3, <1>4, <3>1 DEF FullOK, InPlace
    <3>3. FullOK(b)'
      BY <1>0, <1>2, <1>3, <2>3, <3>1, <3>2 DEF FullOK, InMemory
    <3>4. IsFull(b)'
      BY <1>2, <2>3 DEF IsFull
    <3> QED  BY <1>0, <1>2, <1>6, <2>1, <3>3, <3>4 DEF Held, Old
  <2> QED  BY <1>0, <2>2, <2>3
<1>8. \A c \in DOMAIN bucket \ {b} : bucket[c].PageNum # NoPage =>
          bucket'[b].PageNum # bucket[c].PageNum /\ SamePage(bucket[c].PageNum)
  BY <1>0, <1>2 DEF Stored, OwnPages, Held, SamePage
<1>9. Stored'
  <2>1. /\ bucket[b].PageNum # NoPage => bucket'[b].PageNum # NoPage
        /\ \A k \in Key : Waiting(k) => Waiting(k)' \/ BucketOf(k) = b
        /\ \/ bucket'[b].PageNum # NoPage
           \/ \A k \in Key : ~Waiting(k)
           \/ /\ DOMAIN bucket[b].values \subseteq DOMAIN bucket'[b].values
              /\ \A k \in Key : Waiting(k) => Waiting(k)' \/ k \in DOMAIN bucket'[b].values
    BY <1>2 DEF MayBecome
  <2> QED  BY <1>2, <1>7, <1>8, <2>1, ReplaceKeepsStored
<1> QED  BY <1>2, <1>3, <1>5, <1>9

-----------------------------------------------------------------------------
(* Insertions.                                                             *)

\* The first insertion is made.
LEMMA FirstIsTaken ==
  ASSUME todo \in Seq(Insertion), todo # << >>, todo' = Tail(todo), UNCHANGED dict, TodoOK
  PROVE  /\ TodoOK' /\ Head(todo).key \in Key /\ Head(todo).val \in Value
         /\ Waiting(Head(todo).key)
         /\ \A k : Waiting(k) => Waiting(k)' \/ k = Head(todo).key
         /\ \A k : Waiting(k)' /\ LastOne(k) => Waiting(k) /\ LastOne(k)'
         /\ \A k : k = Head(todo).key /\ LastOne(k) /\ ~ (Waiting(k)') => Head(todo).val = dict[k]
<1> DEFINE n == Len(todo)
           e == Head(todo)
<1>1. n \in Nat \ {0} /\ DOMAIN todo = 1 .. n /\ e = todo[1] /\ 1 \in DOMAIN todo
  BY DEF Waiting
<1>2. DOMAIN todo' = 1 .. (n - 1) /\ \A i \in 1 .. (n - 1) : todo'[i] = todo[i + 1]
  OBVIOUS
<1> HIDE DEF n, e
<1>3. \A i \in DOMAIN todo' : i + 1 \in DOMAIN todo /\ i + 1 > 1 /\ todo'[i] = todo[i + 1]
  BY <1>1, <1>2
<1>4. \A i \in DOMAIN todo : i # 1 => i - 1 \in DOMAIN todo' /\ todo'[i - 1] = todo[i]
  BY <1>1, <1>2
<1>5. TodoOK' /\ e.key \in Key /\ e.val \in Value /\ Waiting(e.key)
  BY <1>1, <1>3 DEF TodoOK, Waiting
<1>6. ASSUME NEW k, Waiting(k), ~ (Waiting(k)') PROVE k = e.key
  <2>1. PICK i \in DOMAIN todo : todo[i].key = k
    BY <1>6 DEF Waiting
  <2>2. i = 1
    BY <1>4, <1>6, <2>1 DEF Waiting
  <2> QED  BY <1>1, <2>1, <2>2
<1>7. ASSUME NEW k, Waiting(k)', LastOne(k) PROVE Waiting(k) /\ LastOne(k)'
  <2>1. PICK i \in DOMAIN todo :
          /\ todo[i].key = k /\ todo[i].val = dict[k]
          /\ \A j \in DOMAIN todo : j > i => todo[j].key # k
    BY <1>7 DEF LastOne
  <2>2. PICK m \in DOMAIN todo' : todo'[m].key = k
    BY <1>7 DEF Waiting
  <2>3. i # 1
    BY <1>3, <2>1, <2>2
  <2>4. i - 1 \in DOMAIN todo' /\ todo'[i - 1] = todo[i]
    BY <1>4, <2>3
  <2>5. ASSUME NEW j \in DOMAIN todo', j > i - 1 PROVE todo'[j].key # k
    <3>1. j + 1 > i
      BY <1>1, <1>2, <2>5
    <3> QED  BY <1>3, <2>1, <3>1
  <2> QED  BY <2>1, <2>4, <2>5 DEF Waiting, LastOne
<1>8. ASSUME NEW k, k = e.key, LastOne(k), ~ (Waiting(k)') PROVE e.val = dict[k]
  <2>1. PICK i \in DOMAIN todo : todo[i].key = k /\ todo[i].val = dict[k]
    BY <1>8 DEF LastOne
  <2>2. i = 1
    BY <1>4, <1>8, <2>1 DEF Waiting
  <2> QED  BY <1>1, <2>1, <2>2
<1> QED  BY <1>5, <1>6, <1>7, <1>8 DEF e

\* A bucket that is not full gets an entry: in its memory, or on its page if it is
\* full now.
LEMMA BucketInsertEffect ==
  ASSUME HashInv, HashInv', Stored, NEW b \in DOMAIN bucket, ~IsFull(b), BucketInsert(b, Head(todo)),
         todo \in Seq(Insertion), todo # << >>, todo' = Tail(todo), TodoOK,
         UNCHANGED <<global_depth, buckets, dict>>,
         BucketOf(Head(todo).key) = b, ~strayed'
  PROVE  /\ ~strayed /\ Stored'
         /\ Data(b)' = Set(bucket[b].values, Head(todo).key, Head(todo).val)
         /\ \A c \in DOMAIN bucket \ {b} :
              bucket'[c] = bucket[c] /\ (bucket[c].PageNum # NoPage => Current(c)' = Current(c))
<1> DEFINE bk == bucket[b]
           k == Head(todo).key
           v == Head(todo).val
           new == Set(bk.values, k, v)
           m == bk.size + 1
           more == [bk EXCEPT !.values = new, !.size = m]
           Rest == \A c \in DOMAIN bucket \ {b} :
              bucket'[c] = bucket[c] /\ (bucket[c].PageNum # NoPage => Current(c)' = Current(c))
<1>1. /\ bk \in Good(global_depth) /\ global_depth \in Nat /\ bk.size \in Nat /\ bk.values \in Contents
      /\ bucket \in [DOMAIN bucket -> Good(global_depth)]
  BY Typed DEF HashInv, HashTypes
<1>2. /\ bk \in [depth : 1 .. global_depth, size : 0 .. MaxSize, PageNum : Nat \cup {NoPage}, values : Contents]
      /\ bk.size \in 0 .. MaxSize
  BY <1>1, GoodFacts
<1>3. k \in Key /\ v \in Value /\ k \in Nat /\ v \in Nat
  BY FirstIsTaken
<1>4. bk.size < bucket_size /\ Cardinality(DOMAIN bk.values) = bk.size
      /\ InPlace(bk.values, b)
  BY <1>1 DEF IsFull, Stored, Held
<1> DEFINE c0 == bk.values
<1>5. /\ new \in Contents /\ DOMAIN new = DOMAIN bk.values \cup {k}
      /\ Cardinality(DOMAIN new) = IF k \in DOMAIN bk.values THEN bk.size ELSE m
  <2>1. c0 \in Contents /\ new = Set(c0, k, v) /\ Cardinality(DOMAIN c0) = bk.size
    BY <1>1, <1>4
  <2> HIDE DEF c0, k, v, new, m
  <2>2. /\ Set(c0, k, v) \in Contents /\ DOMAIN Set(c0, k, v) = DOMAIN c0 \cup {k}
        /\ Cardinality(DOMAIN Set(c0, k, v)) =
             IF k \in DOMAIN c0 THEN Cardinality(DOMAIN c0) ELSE Cardinality(DOMAIN c0) + 1
    BY <1>3, <2>1, SetKeepsContents
  <2> QED  BY <2>1, <2>2 DEF c0, m
<1>6. InPlace(new, b)
  <2>1. \A x \in DOMAIN new : new[x] = IF x = k THEN v ELSE bk.values[x]
    BY <1>5 DEF Set
  <2> HIDE DEF new, k, v
  <2> QED  BY <1>3, <1>4, <1>5, <2>1 DEF InPlace, k
<1>7. \A x \in Key : Waiting(x) => Waiting(x)' \/ x = k
  BY FirstIsTaken
<1>8. \A x \in Key : Waiting(x) => Waiting(x)' \/ BucketOf(x) = b
  BY <1>7
<1>9. /\ DOMAIN bk.values \subseteq DOMAIN new
      /\ \A x \in Key : Waiting(x) => Waiting(x)' \/ x \in DOMAIN new
  BY <1>5, <1>7
<1>10. bk.size = 0 <=> DOMAIN bk.values = {}
  BY <1>1, <1>4, NoEntries
<1>11. DOMAIN new # {}
  BY <1>5
<1>12. CASE k \in DOMAIN bk.values
  <2> DEFINE next == [bk EXCEPT !.values = new]
  <2>1. bucket' = [bucket EXCEPT ![b].values[k] = v] /\ UNCHANGED <<page, strayed>>
    BY <1>12 DEF BucketInsert
  <2>2. new = [bk.values EXCEPT ![k] = v]
    <3>1. bk.values \in [DOMAIN bk.values -> Nat]
      BY <1>1, ContentsFacts
    <3>2. DOMAIN bk.values \cup {k} = DOMAIN bk.values
      BY <1>12
    <3> QED  BY <3>1, <3>2 DEF Set
  <2> HIDE DEF new
  <2>3. bucket' = [bucket EXCEPT ![b] = next]
    BY <1>1, <1>2, <2>1, <2>2
  <2>4. next.PageNum = bk.PageNum /\ next.depth = bk.depth /\ next.values = new /\ next.size = bk.size
    BY <1>2
  <2>5. next \in [depth : 1 .. global_depth, size : 0 .. MaxSize, PageNum : Nat \cup {NoPage}, values : Contents]
    BY <1>2, <1>5
  <2>6. bk.size # 0
    BY <1>10, <1>12
  <2> DEFINE s == bk.size
  <2>7. s \in Nat /\ s < bucket_size /\ Cardinality(DOMAIN new) = s /\ next.size = s /\ s # 0
    BY <1>1, <1>4, <1>5, <1>12, <2>4, <2>6
  <2> HIDE DEF next, s
  <2>8. next \in Good(global_depth)
    BY <2>4, <2>5, <2>7 DEF Good
  <2>9. Stored' /\ Data(b)' = new /\ Rest
    <3>1. /\ next.PageNum = bucket[b].PageNum /\ next.depth = bucket[b].depth
          /\ InPlace(next.values, b)
          /\ next.size < bucket_size /\ Cardinality(DOMAIN next.values) = next.size
          /\ ~ (next.size = 0 /\ next.PageNum # NoPage)
          /\ DOMAIN bucket[b].values \subseteq DOMAIN next.values
          /\ \A x \in Key : Waiting(x) => Waiting(x)' \/ x \in DOMAIN next.values
      BY <1>6, <1>9, <2>4, <2>7
    <3>2. /\ Stored'
          /\ Data(b)' = IF next.PageNum # NoPage /\ DOMAIN next.values = {} THEN Current(b) ELSE next.values
          /\ \A c \in DOMAIN bucket \ {b} : bucket'[c] = bucket[c] /\ Current(c)' = Current(c)
      <4>1. MayBecome(b, next)
        BY <1>8, <2>8, <3>1 DEF MayBecome
      <4> QED  BY <2>1, <2>3, <4>1, MemoryKeepsStored
    <3> QED  BY <1>11, <2>4, <3>2
  <2> QED  BY <2>1, <2>9 DEF new
<1>13. CASE k \notin DOMAIN bk.values
  <2>1. /\ m \in Nat /\ m # 0 /\ m <= bucket_size /\ m \in 0 .. MaxSize
    <3> DEFINE s == bk.size
    <3>1. s \in Nat /\ s < bucket_size /\ m = s + 1
      BY <1>1, <1>4
    <3> HIDE DEF s, m
    <3> QED  BY <3>1
  <2>2. /\ more.PageNum = bk.PageNum /\ more.depth = bk.depth /\ more.values = new /\ more.size = m
        /\ more \in [depth : 1 .. global_depth, size : 0 .. MaxSize, PageNum : Nat \cup {NoPage}, values : Contents]
    BY <1>2, <1>5, <2>1
  <2>3. \/ more.size < bucket_size /\ bucket' = [bucket EXCEPT ![b] = more] /\ UNCHANGED <<page, strayed>>
        \/ more.size >= bucket_size /\ PageWrite(b, more)
    BY <1>13 DEF BucketInsert
  <2>4. Cardinality(DOMAIN new) = m
    BY <1>5, <1>13
  <2> HIDE DEF more, new, m
  <2>5. more \in Good(global_depth)
    BY <2>1, <2>2, <2>4 DEF Good
  <2>6. /\ more.PageNum = bucket[b].PageNum /\ more.depth = bucket[b].depth
        /\ InPlace(more.values, b) /\ Cardinality(DOMAIN more.values) = more.size
        /\ ~ (more.size = 0 /\ more.PageNum # NoPage)
        /\ DOMAIN bucket[b].values \subseteq DOMAIN more.values
        /\ \A x \in Key : Waiting(x) => Waiting(x)' \/ x \in DOMAIN more.values
    BY <1>6, <1>9, <2>1, <2>2, <2>4
  <2>7. CASE more.size < bucket_size /\ bucket' = [bucket EXCEPT ![b] = more] /\ UNCHANGED <<page, strayed>>
    <3>1. /\ Stored'
          /\ Data(b)' = IF more.PageNum # NoPage /\ DOMAIN more.values = {} THEN Current(b) ELSE more.values
          /\ \A c \in DOMAIN bucket \ {b} : bucket'[c] = bucket[c] /\ Current(c)' = Current(c)
      <4>1. MayBecome(b, more)
        BY <1>8, <2>5, <2>6, <2>7 DEF MayBecome
      <4> QED  BY <2>7, <4>1, MemoryKeepsStored
    <3> QED  BY <1>11, <2>2, <2>7, <3>1 DEF new
  <2>8. CASE more.size >= bucket_size /\ PageWrite(b, more)
    <3>1. ~strayed /\ Stored' /\ Data(b)' = more.values /\ Rest
      BY <1>8, <2>5, <2>6, <2>8, PageWriteKeepsStored
    <3> QED  BY <2>2, <3>1 DEF new
  <2> QED  BY <2>3, <2>7, <2>8
<1> QED  BY <1>12, <1>13

LEMMA BucketInsertKeepsContents ==
  ASSUME HashInv, HashInv', Stored, TodoOK, Answers, NEW b, b = BucketOf(Head(todo).key),
         ~IsFull(b), BucketInsert(b, Head(todo)), todo # << >>, todo' = Tail(todo),
         UNCHANGED <<global_depth, buckets, status, dict>>, ~strayed'
  PROVE  ~strayed /\ Stored' /\ TodoOK' /\ Answers'
<1> DEFINE key == Head(todo).key
           val == Head(todo).val
<1>1. todo \in Seq(Insertion) /\ HashTypes
  BY DEF HashInv, HashTypes
<1>2. /\ TodoOK' /\ key \in Key /\ val \in Value /\ Waiting(key)
      /\ \A k : Waiting(k) => Waiting(k)' \/ k = key
      /\ \A k : Waiting(k)' /\ LastOne(k) => Waiting(k) /\ LastOne(k)'
      /\ \A k : k = key /\ LastOne(k) /\ ~ (Waiting(k)') => val = dict[k]
  BY <1>1, FirstIsTaken
<1>3. b \in DOMAIN bucket
  BY <1>1, <1>2, BucketOfKey
<1>4. /\ ~strayed /\ Stored' /\ Data(b)' = Set(bucket[b].values, key, val)
      /\ \A c \in DOMAIN bucket \ {b} :
           bucket'[c] = bucket[c] /\ (bucket[c].PageNum # NoPage => Current(c)' = Current(c))
  BY <1>1, <1>3, BucketInsertEffect
<1> HIDE DEF key, val
<1>5. \A k : BucketOf(k)' = BucketOf(k)
  BY DEF BucketOf, hash
<1>6. ASSUME NEW k \in Key, status = "running"
      PROVE  IF Waiting(k)' THEN LastOne(k)' ELSE Lookup(k)' = dict'[k]
  <2>1. IF Waiting(k) THEN LastOne(k) ELSE Lookup(k) = dict[k]
    BY <1>6 DEF Answers
  <2>2. CASE Waiting(k)'
    <3>1. Waiting(k)
      BY <2>2 DEF Waiting
    <3> QED  BY <1>2, <2>1, <2>2, <3>1
  <2>3. CASE ~ (Waiting(k)') /\ BucketOf(k) # b
    <3>1. Lookup(k)' = Lookup(k)
      <4>1. BucketOf(k) \in DOMAIN bucket \ {b}
        BY <1>1, <2>3, BucketOfKey
      <4> QED  BY <1>4, <1>5, <4>1, LookupElsewhereStays
    <3>2. ~Waiting(k)
      BY <1>2, <2>3 DEF key
    <3> QED  BY <2>1, <2>3, <3>1, <3>2
  <2>4. CASE ~ (Waiting(k)') /\ BucketOf(k) = b
    <3>1. Lookup(k)' = LookIn(b, k)'
      BY <1>5, <2>4 DEF Lookup, Found, LookIn, Data
    <3>2. Lookup(k)' = IF k = key THEN val
                       ELSE IF k \in DOMAIN bucket[b].values THEN bucket[b].values[k] ELSE 0
      BY <1>4, <3>1 DEF LookIn, Set
    <3>3. CASE k = key
      BY <1>2, <2>1, <2>4, <3>2, <3>3
    <3>4. CASE k # key
      <4>1. ~Waiting(k)
        BY <1>2, <2>4, <3>4
      <4>2. Lookup(k) = IF k \in DOMAIN bucket[b].values THEN bucket[b].values[k] ELSE 0
        BY <2>4, <4>1, LookupInMemory
      <4> QED  BY <2>1, <2>4, <3>2, <3>4, <4>1, <4>2
    <3> QED  BY <3>3, <3>4
  <2> QED  BY <2>2, <2>3, <2>4
<1> QED  BY <1>2, <1>4, <1>6 DEF Answers

-----------------------------------------------------------------------------
(* Splits.                                                                 *)

\* The entries of a bucket are put before the insertions still to be made.
LEMMA MoreAreWaiting ==
  ASSUME NEW s \in Seq(Insertion), todo \in Seq(Insertion), todo' = s \o todo, UNCHANGED dict,
         TodoOK, \A i \in DOMAIN s : s[i].key \in Key /\ s[i].val \in Value
  PROVE  /\ TodoOK'
         /\ \A k : Waiting(k)' <=> Waiting(k) \/ \E i \in DOMAIN s : s[i].key = k
         /\ \A k : Waiting(k) /\ LastOne(k) => LastOne(k)'
         /\ \A k : ~Waiting(k) =>
              \A i \in DOMAIN s :
                /\ s[i].key = k /\ s[i].val = dict[k]
                /\ \A j \in DOMAIN s : s[j].key = k <=> j = i
                => LastOne(k)'
<1> DEFINE m == Len(s)
           n == Len(todo)
<1>1. m \in Nat /\ n \in Nat /\ DOMAIN s = 1 .. m /\ DOMAIN todo = 1 .. n
  OBVIOUS
<1>2. /\ DOMAIN todo' = 1 .. (m + n)
      /\ \A i \in 1 .. (m + n) : todo'[i] = IF i <= m THEN s[i] ELSE todo[i - m]
  OBVIOUS
<1> HIDE DEF m, n
<1>3. \A i \in DOMAIN s : i \in DOMAIN todo' /\ todo'[i] = s[i]
  BY <1>1, <1>2
<1>4. \A i \in DOMAIN todo : i + m \in DOMAIN todo' /\ todo'[i + m] = todo[i]
  <2>1. ASSUME NEW i \in 1 .. n PROVE i + m \in 1 .. (m + n) /\ ~ (i + m <= m) /\ (i + m) - m = i
    BY <1>1
  <2> QED  BY <1>1, <1>2, <2>1
<1>5. ASSUME NEW i \in DOMAIN todo'
      PROVE  \/ i \in DOMAIN s /\ i <= m /\ todo'[i] = s[i]
             \/ i > m /\ i - m \in DOMAIN todo /\ todo'[i] = todo[i - m]
  <2>1. CASE i <= m
    BY <1>1, <1>2, <2>1
  <2>2. CASE ~ (i <= m)
    <3>1. i > m /\ i - m \in 1 .. n
      BY <1>1, <1>2, <2>2
    <3> QED  BY <1>1, <1>2, <2>2, <3>1
  <2> QED  BY <2>1, <2>2
<1>6. TodoOK'
  BY <1>5 DEF TodoOK
<1>7. \A k : Waiting(k)' <=> Waiting(k) \/ \E i \in DOMAIN s : s[i].key = k
  <2>1. ASSUME NEW k, Waiting(k)' PROVE Waiting(k) \/ \E i \in DOMAIN s : s[i].key = k
    <3>1. PICK i \in DOMAIN todo' : todo'[i].key = k
      BY <2>1 DEF Waiting
    <3> QED  BY <1>5, <3>1 DEF Waiting
  <2>2. ASSUME NEW k, Waiting(k) PROVE Waiting(k)'
    <3>1. PICK i \in DOMAIN todo : todo[i].key = k
      BY <2>2 DEF Waiting
    <3> QED  BY <1>3, <1>4, <3>1 DEF Waiting
  <2>3. ASSUME NEW k, NEW i \in DOMAIN s, s[i].key = k PROVE Waiting(k)'
    BY <1>3, <1>4, <2>3 DEF Waiting
  <2> QED  BY <2>1, <2>2, <2>3
<1>8. ASSUME NEW k, Waiting(k), LastOne(k) PROVE LastOne(k)'
  <2>1. PICK i \in DOMAIN todo :
          /\ todo[i].key = k /\ todo[i].val = dict[k]
          /\ \A j \in DOMAIN todo : j > i => todo[j].key # k
    BY <1>8 DEF LastOne
  <2>2. i + m \in DOMAIN todo' /\ todo'[i + m] = todo[i]
    BY <1>4
  <2>3. ASSUME NEW j \in DOMAIN todo', j > i + m PROVE todo'[j].key # k
    <3>1. j > m /\ j - m > i /\ ~ (j <= m)
      BY <1>1, <1>2, <2>3
    <3>2. j - m \in DOMAIN todo /\ todo'[j] = todo[j - m]
      BY <1>5, <3>1
    <3> QED  BY <2>1, <3>1, <3>2
  <2> QED  BY <2>1, <2>2, <2>3 DEF LastOne
<1>9. ASSUME NEW k, ~Waiting(k), NEW i \in DOMAIN s, s[i].key = k, s[i].val = dict[k],
             \A j \in DOMAIN s : s[j].key = k <=> j = i
      PROVE  LastOne(k)'
  <2>1. ASSUME NEW j \in DOMAIN todo', j > i PROVE todo'[j].key # k
    <3>1. j # i
      BY <1>1, <2>1
    <3> QED  BY <1>5, <1>9, <3>1 DEF Waiting
  <2> QED  BY <1>3, <1>9, <2>1 DEF LastOne
<1> QED  BY <1>6, <1>7, <1>8, <1>9

\* What a split of b behind index n comes to.
SplitInto(b, n, d, new) ==
  /\ new \notin DOMAIN bucket /\ DOMAIN bucket' = DOMAIN bucket \cup {new}
  /\ bucket'[new] = NewBucket(d) /\ bucket'[b] = Cleared(b, d)
  /\ \A c \in DOMAIN bucket \ {b} : bucket'[c] = bucket[c]
  /\ global_depth' = IF d > global_depth THEN d ELSE global_depth
  /\ todo' = GetData(b) \o todo /\ UNCHANGED <<page, strayed>>
  /\ \A i \in Indexes(global_depth') :
       \/ buckets'[i] = buckets[Bits(i, global_depth)]
       \/ buckets'[i] = new /\ buckets[Bits(i, global_depth)] = b
  /\ buckets'[n] = b
  /\ \E p \in Indexes(global_depth') : buckets'[p] = new /\ Bits(p, d - 1) = Bits(n, d - 1)

LEMMA SplitParts ==
  ASSUME HashInv, NEW n \in Indexes(global_depth), NEW b, b = buckets[n],
         NEW d, d = bucket[b].depth + 1, split(n), UNCHANGED status
  PROVE  HashInv' /\ \E new \in Nat : SplitInto(b, n, d, new)
<1> DEFINE new == Min((0 .. Cardinality(DOMAIN bucket)) \ DOMAIN bucket)
           g == global_depth
           h == global_depth'
           p == pairIndex(n, d)
<1>1. /\ HashInv' /\ h \in Nat /\ g <= h /\ DOMAIN bucket \subseteq DOMAIN bucket'
      /\ \A i \in Indexes(h) : buckets[Bits(i, g)] # b => buckets'[i] = buckets[Bits(i, g)]
  BY SplitKeepsHash
<1>2. /\ DOMAIN bucket \in SUBSET Nat /\ IsFiniteSet(DOMAIN bucket) /\ g \in Nat
      /\ DOMAIN buckets = Indexes(g) /\ b \in DOMAIN bucket
      /\ Indexes(g) \subseteq Nat /\ n \in Nat /\ bucket[b].depth \in Nat
  BY Typed DEF HashTypes
<1>3. new \in Nat \ DOMAIN bucket
  BY <1>2, NewIsNew
<1>4. /\ buckets' = Repoint(Grown(d), p, d, new)
      /\ h = IF d > g THEN d ELSE g
      /\ bucket' = [x \in DOMAIN bucket \cup {new} |->
                      IF x = new THEN NewBucket(d) ELSE IF x = b THEN Cleared(b, d) ELSE bucket[x]]
      /\ todo' = GetData(b) \o todo /\ UNCHANGED <<page, strayed>>
  BY DEF split
<1>5. DOMAIN Grown(d) = Indexes(h) /\ \A i \in Indexes(h) : Grown(d)[i] = buckets[Bits(i, g)]
  <2>1. CASE d > g
    <3>1. Grown(d) = [i \in 0 .. (2^d - 1) |-> buckets[i % 2^g]] /\ h = d
      BY <1>4, <2>1 DEF Grown
    <3> QED  BY <3>1 DEF Indexes, Bits
  <2>2. CASE ~ (d > g)
    <3>1. Grown(d) = buckets /\ h = g
      BY <1>4, <2>2 DEF Grown
    <3>2. \A i \in Indexes(g) : Bits(i, g) = i
      BY <1>2, BitsFacts
    <3> HIDE DEF g, h
    <3> QED  BY <1>2, <3>1, <3>2
  <2> QED  BY <2>1, <2>2
<1> HIDE DEF new, p
<1>6. \A i \in Indexes(h) :
         buckets'[i] = IF Bits(i, d) = Bits(p, d) THEN new ELSE buckets[Bits(i, g)]
  BY <1>4, <1>5 DEF Repoint, Bits
<1>7. n \in Indexes(h) /\ Bits(n, g) = n
  BY <1>1, <1>2, IndexesType, BitsFacts
<1>8. d \in Nat \ {0} /\ d - 1 \in Nat /\ d - 1 = bucket[b].depth
  BY <1>2
<1>9. Bits(p, d) # Bits(n, d)
  BY <1>2, <1>8, PairDiffers DEF p
<1>10. buckets'[n] = b
  BY <1>6, <1>7, <1>9
<1>11. \A i \in Indexes(h) :
          buckets'[i] = buckets[Bits(i, g)] \/ (buckets'[i] = new /\ buckets[Bits(i, g)] = b)
  BY <1>1, <1>6
<1>12. /\ DOMAIN bucket' = DOMAIN bucket \cup {new}
       /\ bucket'[new] = NewBucket(d) /\ bucket'[b] = Cleared(b, d)
       /\ \A c \in DOMAIN bucket \ {b} : bucket'[c] = bucket[c]
  BY <1>2, <1>3, <1>4
<1>13. \E q \in Indexes(h) : buckets'[q] = new /\ Bits(q, d - 1) = Bits(n, d - 1)
  <2>1. PICK q \in Indexes(h) : buckets'[q] = new
    <3>1. HashTypes' /\ {buckets'[i] : i \in DOMAIN buckets'} = DOMAIN bucket'
      BY <1>1 DEF HashInv, Consistent
    <3>2. DOMAIN buckets' = Indexes(h)
      BY <3>1 DEF HashTypes
    <3> QED  BY <1>12, <3>1, <3>2
  <2>2. q \in Nat /\ Bits(q, g) \in Indexes(g) /\ buckets[Bits(q, g)] \in DOMAIN bucket
    <3>1. q \in Nat
      BY <1>1, IndexesType
    <3>2. Bits(q, g) \in Indexes(g)
      BY <1>2, <3>1, BitsFacts
    <3> QED  BY <3>1, <3>2, Typed
  <2>3. buckets[Bits(q, g)] = b
    BY <1>3, <1>11, <2>1, <2>2
  <2>4. Bits(Bits(q, g), d - 1) = Bits(n, d - 1)
    <3> DEFINE i == Bits(q, g)
    <3>1. i \in Indexes(global_depth) /\ buckets[i] = buckets[n] /\ buckets[i] = b
      BY <2>2, <2>3
    <3> HIDE DEF i
    <3>2. Bits(i, bucket[b].depth) = Bits(n, bucket[b].depth)
      BY <3>1, SameBucket
    <3> QED  BY <1>8, <3>2 DEF i
  <2>5. d - 1 <= g
    BY <1>2, <1>8, Typed
  <2>6. Bits(Bits(q, g), d - 1) = Bits(q, d - 1)
    BY <1>2, <1>8, <2>2, <2>5, BitsFacts
  <2> QED  BY <2>1, <2>4, <2>6
<1>14. SplitInto(b, n, d, new)
  BY <1>3, <1>4, <1>10, <1>11, <1>12, <1>13 DEF SplitInto
<1> QED  BY <1>1, <1>3, <1>14

LEMMA SplitTodo ==
  ASSUME HashInv, Stored, NEW b \in DOMAIN bucket, IsFull(b), TodoOK,
         todo' = GetData(b) \o todo, UNCHANGED dict
  PROVE  /\ TodoOK'
         /\ \A k : Waiting(k)' <=> Waiting(k) \/ k \in DOMAIN Data(b)
         /\ \A k : Waiting(k) /\ LastOne(k) => LastOne(k)'
         /\ \A k \in DOMAIN Data(b) : ~Waiting(k) /\ Data(b)[k] = dict[k] => LastOne(k)'
<1> DEFINE s == GetData(b)
           c == Data(b)
<1>1. HashTypes /\ todo \in Seq(Insertion)
  BY DEF HashInv, HashTypes
<1>2. InPlace(c, b)
  BY DataOfFull
<1>3. c # Blank
  <2>1. 0 \notin Key
    OBVIOUS
  <2> QED  BY <1>2, <2>1, NothingAndBlank DEF InPlace
<1>4. /\ s \in Seq(Insertion)
      /\ \A i \in DOMAIN s : s[i].key \in DOMAIN c /\ s[i].val = c[s[i].key]
      /\ \A k \in DOMAIN c : \E i \in DOMAIN s : \A j \in DOMAIN s : s[j].key = k <=> j = i
  BY <1>1, <1>3, GetDataType
<1> HIDE DEF s, c
<1>5. \A i \in DOMAIN s : s[i].key \in Key /\ s[i].val \in Value
  BY <1>2, <1>4 DEF InPlace
<1>6. todo' = s \o todo
  BY DEF s
<1>7. /\ TodoOK'
      /\ \A k : Waiting(k)' <=> Waiting(k) \/ \E i \in DOMAIN s : s[i].key = k
      /\ \A k : Waiting(k) /\ LastOne(k) => LastOne(k)'
      /\ \A k : ~Waiting(k) =>
           \A i \in DOMAIN s :
             /\ s[i].key = k /\ s[i].val = dict[k]
             /\ \A j \in DOMAIN s : s[j].key = k <=> j = i
             => LastOne(k)'
  BY <1>1, <1>4, <1>5, <1>6, MoreAreWaiting
<1>8. \A k : k \in DOMAIN c <=> \E i \in DOMAIN s : s[i].key = k
  BY <1>4
<1>9. \A k \in DOMAIN c : ~Waiting(k) /\ c[k] = dict[k] => LastOne(k)'
  <2>1. SUFFICES ASSUME NEW k \in DOMAIN c, ~Waiting(k), c[k] = dict[k] PROVE LastOne(k)'
    OBVIOUS
  <2>2. PICK i \in DOMAIN s : \A j \in DOMAIN s : s[j].key = k <=> j = i
    BY <1>4
  <2>3. s[i].key = k /\ s[i].val = dict[k]
    BY <1>4, <2>1, <2>2
  <2> QED  BY <1>7, <2>1, <2>2, <2>3
<1> QED  BY <1>7, <1>8, <1>9 DEF c

Moves(b, new) ==
  \A k \in Nat : BucketOf(k)' = BucketOf(k) \/ (BucketOf(k)' = new /\ BucketOf(k) = b)

LEMMA SplitLeads ==
  ASSUME HashInv, HashInv', NEW n \in Indexes(global_depth), NEW b, b = buckets[n],
         NEW d, NEW new, SplitInto(b, n, d, new)
  PROVE  /\ global_depth' \in Nat /\ global_depth <= global_depth'
         /\ Moves(b, new)
         /\ \A i \in Indexes(global_depth) :
              /\ i \in Indexes(global_depth')
              /\ buckets[i] # b => buckets'[i] = buckets[i]
<1> DEFINE g == global_depth
           h == global_depth'
<1>1. HashTypes /\ g \in Nat /\ h \in Nat
  BY Typed DEF HashInv, HashTypes
<1>2. g <= h
  BY <1>1 DEF SplitInto
<1>3. \A i \in Indexes(h) :
          buckets'[i] = buckets[Bits(i, g)] \/ (buckets'[i] = new /\ buckets[Bits(i, g)] = b)
  BY DEF SplitInto
<1>4. Indexes(g) \subseteq Nat /\ \A i \in Indexes(g) : i \in Indexes(h) /\ Bits(i, g) = i
  BY <1>1, <1>2, IndexesType, BitsFacts
<1>5. ASSUME NEW k \in Nat
      PROVE  BucketOf(k)' = BucketOf(k) \/ (BucketOf(k)' = new /\ BucketOf(k) = b)
  <2>1. BucketOf(k) = buckets[Bits(k, g)] /\ BucketOf(k)' = buckets'[Bits(k, h)]
    BY DEF BucketOf, hash, Bits
  <2>2. Bits(k, h) \in Indexes(h) /\ Bits(Bits(k, h), g) = Bits(k, g)
    BY <1>1, <1>2, BitsFacts
  <2> QED  BY <1>3, <2>1, <2>2
<1> QED  BY <1>1, <1>2, <1>3, <1>4, <1>5 DEF Moves

LEMMA SplitKeepsStored ==
  ASSUME HashInv, HashInv', Stored, NEW n \in Indexes(global_depth), NEW b, b = buckets[n],
         IsFull(b), NEW d, d = bucket[b].depth + 1, NEW new \in Nat, SplitInto(b, n, d, new),
         \A k : Waiting(k)' <=> Waiting(k) \/ k \in DOMAIN Data(b)
  PROVE  Stored'
<1>1. /\ new \notin DOMAIN bucket /\ DOMAIN bucket' = DOMAIN bucket \cup {new}
      /\ bucket'[new] = NewBucket(d) /\ bucket'[b] = Cleared(b, d)
      /\ \A c \in DOMAIN bucket \ {b} : bucket'[c] = bucket[c]
      /\ UNCHANGED <<page, strayed>> /\ buckets'[n] = b
  BY DEF SplitInto
<1>2. /\ global_depth' \in Nat /\ global_depth <= global_depth'
      /\ \A k \in Nat : BucketOf(k)' = BucketOf(k) \/ (BucketOf(k)' = new /\ BucketOf(k) = b)
      /\ \A i \in Indexes(global_depth) :
           i \in Indexes(global_depth') /\ (buckets[i] # b => buckets'[i] = buckets[i])
  <2>1. global_depth' \in Nat /\ global_depth <= global_depth'
    BY SplitLeads
  <2>2. Moves(b, new)
    BY SplitLeads
  <2>3. \A i \in Indexes(global_depth) :
           i \in Indexes(global_depth') /\ (buckets[i] # b => buckets'[i] = buckets[i])
    BY SplitLeads
  <2> QED  BY <2>1, <2>2, <2>3 DEF Moves
<1>3. /\ b \in DOMAIN bucket /\ global_depth \in Nat /\ Indexes(global_depth) \subseteq Nat
      /\ n \in Indexes(global_depth)
      /\ bucket[b].depth \in Nat /\ d - 1 = bucket[b].depth /\ d - 1 \in Nat
      /\ bucket[b].depth <= global_depth
  BY Typed
<1>4. FullOK(b) /\ DOMAIN Data(b) = DOMAIN Current(b) /\ Held(b)
  BY <1>3, DataOfFull DEF Stored, Held
<1>5. /\ bucket'[b].PageNum = bucket[b].PageNum /\ bucket'[b].size = 0
      /\ bucket'[b].values = Nothing /\ bucket'[b].depth = d
  <2>1. bucket[b] \in [depth : 1 .. global_depth, size : 0 .. MaxSize, PageNum : Nat \cup {NoPage}, values : Contents]
    BY <1>3, Typed, GoodFacts
  <2> QED  BY <1>1, <2>1 DEF Cleared
<1>6. /\ bucket'[new].PageNum = NoPage /\ bucket'[new].size = 0 /\ bucket'[new].values = Nothing
      /\ bucket'[new].depth = d
  BY <1>1 DEF NewBucket
<1>7. \A c \in DOMAIN bucket : bucket'[c].PageNum = bucket[c].PageNum /\ Current(c)' = Current(c)
  BY <1>1, <1>5 DEF Current, PageRead
<1>8. ASSUME NEW c \in {b, new} PROVE Held(c)'
  <2>1. bucket'[c].size = 0 /\ bucket'[c].values = Nothing
    BY <1>5, <1>6
  <2>2. ~IsFull(c)' /\ InPlace(bucket[c].values, c)'
    BY <2>1 DEF IsFull, InPlace, Nothing
  <2>3. Cardinality(DOMAIN bucket'[c].values) = 0
    BY <2>1, NothingAndBlank
  <2>4. bucket'[c].PageNum \in DOMAIN page' \cup {NoPage}
    BY <1>1, <1>4, <1>5, <1>6 DEF Held
  <2> QED  BY <2>1, <2>2, <2>3, <2>4 DEF Held
<1>9. ASSUME NEW c \in DOMAIN bucket \ {b} PROVE Held(c)'
  <2>1. Held(c) /\ bucket'[c] = bucket[c] /\ Current(c)' = Current(c)
    BY <1>1, <1>7 DEF Stored
  <2>2. \A values : InPlace(values, c) => \A k \in DOMAIN values :
                       k \in Key /\ values[k] \in Value /\ BucketOf(k)' = c
    BY <1>2 DEF InPlace
  <2>3. /\ InPlace(bucket[c].values, c) => InPlace(bucket[c].values, c)'
        /\ InPlace(Current(c), c) => InPlace(Current(c), c)'
    BY <2>1, <2>2 DEF InPlace
  <2>4. (IsFull(c)' <=> IsFull(c)) /\ (InMemory(c)' <=> InMemory(c))
    BY <2>1 DEF IsFull, InMemory
  <2>5. FullOK(c) => FullOK(c)'
    BY <2>1, <2>3, <2>4 DEF FullOK
  <2> QED  BY <1>1, <2>1, <2>3, <2>4, <2>5 DEF Held
<1>10. OldOK(b)'
  <2>1. Cardinality(DOMAIN Current(b)) >= bucket_size
    BY <1>4 DEF FullOK
  <2>2. ASSUME NEW k \in DOMAIN Current(b)
        PROVE  k \in Key /\ FromParent(b, k)' /\ Waiting(k)'
    <3>1. k \in Key /\ k \in Nat /\ BucketOf(k) = buckets[n]
      BY <1>4 DEF FullOK, InPlace
    <3>2. Bits(k, bucket[b].depth) = Bits(n, bucket[b].depth)
      BY <3>1, LeadsHere
    <3>3. FromParent(b, k)'
      BY <1>1, <1>2, <1>3, <1>5, <3>2 DEF FromParent
    <3> QED  BY <1>4, <3>1, <3>3
  <2>3. OldPage(b)'
    BY <1>3, <1>7, <2>1, <2>2 DEF OldPage
  <2>4. PICK p \in Indexes(global_depth') : buckets'[p] = new /\ Bits(p, d - 1) = Bits(n, d - 1)
    BY DEF SplitInto
  <2>5. Beside(b, new)'
    BY <1>1, <1>2, <1>3, <1>5, <2>4 DEF Beside
  <2>6. Covers(b, new)'
    BY <1>3, <1>5, <1>6, <1>7, <2>2 DEF Covers
  <2> QED  BY <1>1, <2>3, <2>5, <2>6 DEF OldOK
<1>11. ASSUME NEW c \in DOMAIN bucket \ {b}, Old(c)' PROVE OldOK(c)'
  <2>1. Old(c) /\ bucket'[c] = bucket[c] /\ Current(c)' = Current(c)
    BY <1>1, <1>7, <1>11 DEF Old
  <2>2. PICK s \in DOMAIN bucket : OldPage(c) /\ Beside(c, s) /\ Covers(c, s)
    BY <2>1 DEF Stored, OldOK
  <2>3. ASSUME NEW k \in DOMAIN Current(c)
        PROVE  k \in Key /\ FromParent(c, k)' /\ (BucketOf(k)' = c => Waiting(k)')
    <3>1. k \in Key /\ k \in Nat /\ FromParent(c, k) /\ (BucketOf(k) = c => Waiting(k))
      BY <2>2 DEF OldPage
    <3>2. FromParent(c, k)'
      BY <1>2, <2>1, <3>1 DEF FromParent
    <3>3. BucketOf(k)' = c => BucketOf(k) = c
      BY <1>1, <1>2, <3>1
    <3> QED  BY <3>1, <3>2, <3>3
  <2>4. OldPage(c)'
    BY <2>1, <2>2, <2>3 DEF OldPage
  <2> DEFINE e == bucket[c].depth
  <2>5. PICK i \in Indexes(global_depth), j \in Indexes(global_depth) :
          /\ buckets[i] = c /\ buckets[j] = s /\ Bits(i, e - 1) = Bits(j, e - 1) /\ s # c
    BY <2>2 DEF Beside
  <2>6. i \in Nat /\ j \in Nat /\ n \in Nat /\ e - 1 \in Nat /\ e \in Nat
    BY <1>3, Typed
  <2>7. buckets'[i] = c /\ i \in Indexes(global_depth')
    BY <1>2, <2>5
  <2>8. \E m \in Indexes(global_depth') : buckets'[m] = s /\ Bits(i, e - 1) = Bits(m, e - 1)
    <3>1. CASE s # b
      BY <1>2, <2>5, <3>1
    <3>2. CASE s = b
      <4> DEFINE f == bucket[b].depth
      <4>1. Bits(j, f) = Bits(n, f) /\ Bits(i, f) # Bits(j, f)
        BY <2>5, <3>2, SameBucket
      <4>2. f \in Nat
        BY <1>3
      <4> HIDE DEF e, f
      <4>3. e - 1 < f
        <5>1. SUFFICES ASSUME f <= e - 1 PROVE FALSE
          BY <2>6, <4>2
        <5> QED  BY <2>5, <2>6, <4>1, <4>2, <5>1, BitsFacts
      <4>4. Bits(j, e - 1) = Bits(n, e - 1)
        BY <2>6, <4>1, <4>2, <4>3, BitsFacts
      <4> QED  BY <1>1, <1>2, <1>3, <2>5, <3>2, <4>4
    <3> QED  BY <3>1, <3>2
  <2>9. Beside(c, s)'
    BY <1>1, <2>1, <2>5, <2>7, <2>8 DEF Beside
  <2>10. Covers(c, s)'
    <3>1. CASE bucket[s].PageNum # NoPage
      BY <1>7, <3>1 DEF Covers
    <3>2. CASE bucket[s].PageNum = NoPage
      <4>1. s # b /\ bucket'[s] = bucket[s]
        BY <1>1, <1>4, <3>2 DEF FullOK
      <4> QED  BY <2>1, <2>2, <3>2, <4>1 DEF Covers
    <3> QED  BY <3>1, <3>2
  <2> QED  BY <1>1, <2>4, <2>9, <2>10 DEF OldOK
<1>12. OldOK(new)'
  BY <1>6 DEF OldOK, Old
<1>13. OwnPages'
  BY <1>1, <1>6, <1>7 DEF Stored, OwnPages
<1> QED  BY <1>1, <1>8, <1>9, <1>10, <1>11, <1>12, <1>13 DEF Stored, OldOK

LEMMA SplitsStayNeeded ==
  ASSUME HashInv, Stored, SplitsNeeded, NEW n \in Indexes(global_depth), NEW b, b = buckets[n],
         IsFull(b), NEW d, d = bucket[b].depth + 1, NEW new, SplitInto(b, n, d, new)
  PROVE  SplitsNeeded'
<1> DEFINE f == bucket[b].depth
           S == DOMAIN Data(b)
<1>1. b \in DOMAIN bucket /\ f \in Nat /\ f \in 1 .. global_depth /\ global_depth \in Nat
  BY Typed
<1>2. global_depth' = IF d > global_depth THEN d ELSE global_depth
  BY DEF SplitInto
<1>3. CASE ~ (d > global_depth)
  BY <1>2, <1>3 DEF SplitsNeeded
<1>4. CASE d > global_depth
  <2>1. global_depth' - 1 = f
    <3> HIDE DEF f
    <3>1. d = f + 1
      BY DEF f
    <3> QED  BY <1>1, <1>2, <1>4, <3>1
  <2>2. InPlace(Data(b), b) /\ Cardinality(S) >= bucket_size
    BY <1>1, DataOfFull
  <2>3. IsFiniteSet(S) /\ Cardinality(S) \in Nat
    <3>1. HashTypes
      BY DEF HashInv
    <3>2. Data(b) \in Contents
      BY <1>1, <3>1, GetDataType
    <3> QED  BY <3>2, ContentsFacts, FS_CardinalityType
  <2> HIDE DEF S, f
  <2>4. PICK k \in S : TRUE
    BY <2>2, <2>3, FS_EmptySet
  <2>5. PICK l \in S \ {k} : TRUE
    <3>1. IsFiniteSet(S \ {k}) /\ Cardinality(S \ {k}) = Cardinality(S) - 1
      BY <2>3, FS_RemoveElement
    <3>2. Cardinality(S \ {k}) # 0
      BY <2>2, <2>3, <3>1
    <3> QED  BY <3>1, <3>2, FS_EmptySet
  <2>6. /\ k \in Key /\ l \in Key /\ k \in Nat /\ l \in Nat
        /\ BucketOf(k) = buckets[n] /\ BucketOf(l) = buckets[n]
    BY <2>2, <2>4, <2>5 DEF InPlace, S
  <2>7. Bits(k, f) = Bits(n, f) /\ Bits(l, f) = Bits(n, f)
    BY <2>6, LeadsHere DEF f
  <2> QED  BY <2>1, <2>5, <2>6, <2>7 DEF SplitsNeeded
<1> QED  BY <1>3, <1>4

LEMMA SplitKeepsAnswers ==
  ASSUME HashInv, HashInv', Stored, TodoOK, Answers,
         NEW n \in Indexes(global_depth), NEW b, b = buckets[n], IsFull(b),
         NEW d, d = bucket[b].depth + 1, NEW new \in Nat, SplitInto(b, n, d, new),
         UNCHANGED <<status, dict>>
  PROVE  Answers'
<1>1. b \in DOMAIN bucket /\ HashTypes
  BY Typed
<1>2. /\ new \notin DOMAIN bucket /\ bucket'[new] = NewBucket(d) /\ bucket'[b] = Cleared(b, d)
      /\ \A c \in DOMAIN bucket \ {b} : bucket'[c] = bucket[c]
      /\ UNCHANGED page /\ todo' = GetData(b) \o todo
  BY DEF SplitInto
<1>3. /\ \A k : Waiting(k)' <=> Waiting(k) \/ k \in DOMAIN Data(b)
      /\ \A k : Waiting(k) /\ LastOne(k) => LastOne(k)'
      /\ \A k \in DOMAIN Data(b) : ~Waiting(k) /\ Data(b)[k] = dict[k] => LastOne(k)'
  <2>1. b \in DOMAIN bucket /\ todo' = GetData(b) \o todo
    BY <1>1, <1>2
  <2>2. \A k : Waiting(k)' <=> Waiting(k) \/ k \in DOMAIN Data(b)
    BY <2>1, SplitTodo
  <2>3. \A k : Waiting(k) /\ LastOne(k) => LastOne(k)'
    BY <2>1, SplitTodo
  <2>4. \A k \in DOMAIN Data(b) : ~Waiting(k) /\ Data(b)[k] = dict[k] => LastOne(k)'
    BY <2>1, SplitTodo
  <2> QED  BY <2>2, <2>3, <2>4
<1>4. \A k \in Nat : BucketOf(k)' = BucketOf(k) \/ (BucketOf(k)' = new /\ BucketOf(k) = b)
  <2>1. Moves(b, new)
    BY SplitLeads
  <2> QED  BY <2>1 DEF Moves
<1>5. /\ InPlace(Data(b), b) /\ DOMAIN Data(b) = DOMAIN Current(b) /\ bucket[b].PageNum # NoPage
  BY <1>1, DataOfFull
<1>6. DOMAIN Data(b)' = DOMAIN Data(b)
  <2>1. bucket[b] \in [depth : 1 .. global_depth, size : 0 .. MaxSize, PageNum : Nat \cup {NoPage}, values : Contents]
    BY <1>1, Typed, GoodFacts
  <2>2. bucket'[b].PageNum = bucket[b].PageNum /\ bucket'[b].values = Nothing
    BY <1>2, <2>1 DEF Cleared
  <2>3. Data(b)' = Current(b)'
    BY <1>5, <2>2 DEF Data, Current, InMemory, Nothing
  <2>4. Current(b)' = Current(b)
    BY <1>2, <2>2 DEF Current, PageRead
  <2> QED  BY <1>5, <2>3, <2>4
<1>7. Data(new)' = Nothing
  BY <1>2 DEF Data, NewBucket
<1>8. ASSUME NEW k \in Key, status = "running"
      PROVE  IF Waiting(k)' THEN LastOne(k)' ELSE Lookup(k)' = dict'[k]
  <2>1. IF Waiting(k) THEN LastOne(k) ELSE Lookup(k) = dict[k]
    BY <1>8 DEF Answers
  <2>2. k \in Nat /\ Lookup(k) = LookIn(BucketOf(k), k) /\ BucketOf(k) \in DOMAIN bucket
    BY <1>1, LookupLooksIn, BucketOfKey
  <2>3. CASE Waiting(k)
    BY <1>3, <2>1, <2>3
  <2>4. CASE ~Waiting(k) /\ k \in DOMAIN Data(b)
    <3>1. Data(b)[k] = dict[k]
      BY <1>5, <2>1, <2>2, <2>4 DEF InPlace, LookIn
    <3> QED  BY <1>3, <2>4, <3>1
  <2>5. CASE ~Waiting(k) /\ k \notin DOMAIN Data(b) /\ BucketOf(k) # b
    <3> DEFINE c == BucketOf(k)
    <3>1. c \in DOMAIN bucket \ {b} /\ BucketOf(k)' = c
      BY <1>4, <2>2, <2>5
    <3>2. \A x \in DOMAIN bucket \ {b} : bucket'[x] = bucket[x] /\ Current(x)' = Current(x)
      BY <1>2 DEF Current, PageRead
    <3>3. Lookup(k)' = Lookup(k)
      BY <3>1, <3>2, LookupElsewhereStays
    <3> QED  BY <1>3, <2>1, <2>5, <3>3
  <2>6. CASE ~Waiting(k) /\ k \notin DOMAIN Data(b) /\ BucketOf(k) = b
    <3>1. Lookup(k) = 0
      BY <2>2, <2>6 DEF LookIn
    <3>2. \A x : BucketOf(k)' = x => Lookup(k)' = LookIn(x, k)'
      BY DEF Lookup, Found, LookIn, Data
    <3>3. LookIn(b, k)' = 0 /\ LookIn(new, k)' = 0
      BY <1>6, <1>7, <2>6 DEF LookIn, Nothing
    <3>4. BucketOf(k)' \in {b, new}
      BY <1>4, <2>2, <2>6
    <3> QED  BY <1>3, <2>1, <2>6, <3>1, <3>2, <3>3, <3>4
  <2> QED  BY <2>3, <2>4, <2>5, <2>6
<1> QED  BY <1>8 DEF Answers

LEMMA SplitKeepsContents ==
  ASSUME HashInv, Stored, SplitsNeeded, TodoOK, Answers,
         NEW n \in Indexes(global_depth), IsFull(buckets[n]), split(n), UNCHANGED <<status, dict>>
  PROVE  Stored' /\ SplitsNeeded' /\ TodoOK' /\ Answers' /\ UNCHANGED strayed
<1> DEFINE b == buckets[n]
           d == bucket[b].depth + 1
<1>1. b \in DOMAIN bucket
  BY Typed
<1>2. b = buckets[n] /\ d = bucket[b].depth + 1 /\ IsFull(b)
  OBVIOUS
<1> HIDE DEF b, d
<1>3. HashInv' /\ \E new \in Nat : SplitInto(b, n, d, new)
  BY <1>2, SplitParts
<1>4. PICK new \in Nat : SplitInto(b, n, d, new)
  BY <1>3
<1>5. todo' = GetData(b) \o todo /\ UNCHANGED strayed
  BY <1>4 DEF SplitInto
<1>6. TodoOK' /\ \A k : Waiting(k)' <=> Waiting(k) \/ k \in DOMAIN Data(b)
  BY <1>1, <1>2, <1>5, SplitTodo
<1>7. Stored'
  BY <1>2, <1>3, <1>4, <1>6, SplitKeepsStored
<1>8. SplitsNeeded'
  BY <1>2, <1>4, SplitsStayNeeded
<1>9. Answers'
  BY <1>2, <1>3, <1>4, SplitKeepsAnswers
<1> QED  BY <1>5, <1>6, <1>7, <1>8, <1>9

-----------------------------------------------------------------------------
(* Removals and updates.  Nothing waits to be inserted.                    *)

Quietly == \A k : ~Waiting(k)

\* Bucket b has gone into its pair.
Merged(b, pair) ==
  /\ DOMAIN bucket' = DOMAIN bucket \ {b}
  /\ bucket'[pair] = [bucket[pair] EXCEPT !.depth = @ - 1]
  /\ \A c \in DOMAIN bucket \ {b, pair} : bucket'[c] = bucket[c]
  /\ \A i \in Indexes(global_depth) :
       buckets'[i] = IF buckets[i] = b THEN pair ELSE buckets[i]

LEMMA MergeParts ==
  ASSUME HashInv, NEW n \in Indexes(global_depth), NEW b, b = buckets[n],
         NEW d, d = bucket[b].depth, d > 1, NEW pair, pair = buckets[pairIndex(n, d)],
         bucket[pair].depth = d, merge(n, d), UNCHANGED <<global_depth, page, todo>>,
         status' \in {"running", "exited", "aborted"}
  PROVE  /\ HashInv' /\ b \in DOMAIN bucket /\ pair \in DOMAIN bucket \ {b}
         /\ pairIndex(n, d) \in Indexes(global_depth)
         /\ Merged(b, pair)
<1>1. /\ HashInv' /\ pair \in DOMAIN bucket \ {b} /\ DOMAIN bucket' = DOMAIN bucket \ {b}
  BY MergeKeepsHash
<1>2. /\ b \in DOMAIN bucket /\ DOMAIN buckets = Indexes(global_depth)
      /\ d \in 1 .. global_depth /\ d \in Nat /\ global_depth \in Nat
  BY Typed
<1>3. /\ bucket' = [x \in DOMAIN bucket \ {b} |->
                      IF x = pair THEN [bucket[x] EXCEPT !.depth = @ - 1] ELSE bucket[x]]
      /\ buckets' = Repoint(buckets, n, d, pair)
  BY DEF merge
<1>4. ASSUME NEW i \in Indexes(global_depth)
      PROVE  buckets'[i] = IF buckets[i] = b THEN pair ELSE buckets[i]
  <2>1. buckets'[i] = IF Bits(i, d) = Bits(n, d) THEN pair ELSE buckets[i]
    BY <1>2, <1>3 DEF Repoint, Bits
  <2>2. buckets[n] = buckets[i] <=> Bits(n, d) = Bits(i, d)
    BY SameBucket
  <2> QED  BY <2>1, <2>2
<1>5. pairIndex(n, d) \in Indexes(global_depth)
  BY <1>2, PairIsIndex
<1> QED  BY <1>1, <1>2, <1>3, <1>4, <1>5 DEF Merged

\* The bucket an empty one goes into was not split since it was last used: its old
\* page would be beside one, and so the empty one's.
LEMMA PairIsNotOld ==
  ASSUME HashInv, Stored, Quietly, NEW n \in Indexes(global_depth), NEW b, b = buckets[n],
         NEW d, d = bucket[b].depth, NEW pair, pair = buckets[pairIndex(n, d)],
         bucket[pair].depth = d, pair \in DOMAIN bucket \ {b}, pairIndex(n, d) \in Indexes(global_depth),
         bucket[b].PageNum = NoPage
  PROVE  ~Old(pair)
<1> DEFINE m == pairIndex(n, d)
<1>1. SUFFICES ASSUME Old(pair) PROVE FALSE
  OBVIOUS
<1>2. PICK c \in DOMAIN bucket : Beside(pair, c) /\ bucket[c].PageNum # NoPage
  BY <1>1, QuietSibling DEF Quietly
<1>3. PICK i \in Indexes(global_depth), j \in Indexes(global_depth) :
        /\ buckets[i] = pair /\ buckets[j] = c /\ c # pair
        /\ Bits(i, d - 1) = Bits(j, d - 1)
  BY <1>2 DEF Beside
<1>4. /\ d \in Nat \ {0} /\ d - 1 \in Nat /\ d - 1 <= d
      /\ n \in Nat /\ i \in Nat /\ j \in Nat /\ m \in Indexes(global_depth) /\ m \in Nat
  <2>1. d \in 1 .. global_depth /\ d \in Nat /\ d - 1 \in Nat /\ Indexes(global_depth) \subseteq Nat
    BY Typed
  <2> QED  BY <2>1
<1>5. /\ Bits(m, d - 1) = Bits(n, d - 1)
      /\ \A x \in Nat : Bits(x, d - 1) = Bits(n, d - 1) => Bits(x, d) \in {Bits(n, d), Bits(m, d)}
  BY <1>4, PairDiffers
<1> HIDE DEF m
<1>6. buckets[m] = pair
  BY DEF m
<1>7. Bits(m, d) = Bits(i, d)
  BY <1>3, <1>4, <1>6, SameBucket
<1>8. Bits(m, d - 1) = Bits(i, d - 1)
  BY <1>4, <1>7, BitsFacts
<1>9. Bits(j, d) \in {Bits(n, d), Bits(m, d)}
  BY <1>3, <1>4, <1>5, <1>8
<1>10. Bits(j, d) = Bits(n, d) => c = b
  BY <1>3, SameBucket
<1>11. Bits(j, d) = Bits(m, d) => c = pair
  BY <1>3, <1>4, <1>6, SameBucket
<1> QED  BY <1>2, <1>3, <1>9, <1>10, <1>11

LEMMA MergeKeepsStored ==
  ASSUME HashInv, Stored, Quietly, UNCHANGED <<global_depth, page, todo>>,
         NEW b \in DOMAIN bucket, NEW pair \in DOMAIN bucket \ {b}, ~Old(pair),
         bucket[b].PageNum = NoPage,
         Merged(b, pair)
  PROVE  /\ Stored'
         /\ \A k \in Nat : BucketOf(k)' = IF BucketOf(k) = b THEN pair ELSE BucketOf(k)
         /\ \A c \in DOMAIN bucket \ {b} : Data(c)' = Data(c)
<1>1. /\ HashTypes /\ global_depth \in Nat
      /\ DOMAIN bucket' = DOMAIN bucket \ {b}
      /\ bucket'[pair] = [bucket[pair] EXCEPT !.depth = @ - 1]
      /\ \A c \in DOMAIN bucket \ {b, pair} : bucket'[c] = bucket[c]
      /\ \A i \in Indexes(global_depth) :
           buckets'[i] = IF buckets[i] = b THEN pair ELSE buckets[i]
  BY Typed DEF Merged
<1>2. ASSUME NEW k \in Nat PROVE BucketOf(k)' = IF BucketOf(k) = b THEN pair ELSE BucketOf(k)
  <2>1. hash(k)' = hash(k) /\ hash(k) \in Indexes(global_depth)
    BY <1>1, BucketOfKey DEF hash
  <2> QED  BY <1>1, <2>1 DEF BucketOf
<1>3. ASSUME NEW c \in DOMAIN bucket \ {b}
      PROVE  /\ bucket'[c].PageNum = bucket[c].PageNum /\ bucket'[c].size = bucket[c].size
             /\ bucket'[c].values = bucket[c].values
  <2>1. bucket[c] \in [depth : 1 .. global_depth, size : 0 .. MaxSize, PageNum : Nat \cup {NoPage}, values : Contents]
    BY <1>1, Typed, GoodFacts
  <2> QED  BY <1>1, <2>1
<1>4. \A c \in DOMAIN bucket \ {b} : Current(c)' = Current(c) /\ Data(c)' = Data(c)
  BY <1>3 DEF Current, PageRead, Data, InMemory
<1>5. ASSUME NEW c \in DOMAIN bucket \ {b} PROVE Held(c)'
  <2>1. Held(c) /\ Current(c)' = Current(c)
    BY <1>4 DEF Stored
  <2>2. \A values : InPlace(values, c) => \A k \in DOMAIN values :
                       k \in Key /\ values[k] \in Value /\ BucketOf(k)' = c
    BY <1>2 DEF InPlace
  <2>3. /\ InPlace(bucket[c].values, c) => InPlace(bucket[c].values, c)'
        /\ InPlace(Current(c), c) => InPlace(Current(c), c)'
    BY <1>3, <2>1, <2>2 DEF InPlace
  <2>4. (IsFull(c)' <=> IsFull(c)) /\ (InMemory(c)' <=> InMemory(c))
    BY <1>3 DEF IsFull, InMemory
  <2>5. FullOK(c) => FullOK(c)'
    BY <1>3, <2>1, <2>3, <2>4 DEF FullOK
  <2> QED  BY <1>3, <2>1, <2>3, <2>4, <2>5 DEF Held
<1>6. ~ (Old(pair)')
  BY <1>3 DEF Old
<1>7. ASSUME NEW c \in DOMAIN bucket \ {b, pair}, Old(c)' PROVE OldOK(c)'
  <2>1. Old(c) /\ bucket'[c] = bucket[c] /\ Current(c)' = Current(c)
    BY <1>1, <1>4, <1>7 DEF Old
  <2>2. OldPage(c)
    BY <2>1 DEF Stored, OldOK
  <2>3. ASSUME NEW k \in DOMAIN Current(c)
        PROVE  k \in Key /\ FromParent(c, k)' /\ (BucketOf(k)' = c => Waiting(k)')
    <3>1. k \in Key /\ k \in Nat /\ FromParent(c, k) /\ (BucketOf(k) = c => Waiting(k))
      BY <2>2 DEF OldPage
    <3>2. FromParent(c, k)'
      BY <1>1, <2>1, <3>1 DEF FromParent
    <3>3. BucketOf(k)' = c => BucketOf(k) = c
      BY <1>2, <3>1
    <3> QED  BY <3>1, <3>2, <3>3 DEF Waiting
  <2>4. OldPage(c)'
    BY <2>1, <2>2, <2>3 DEF OldPage
  <2>5. PICK s \in DOMAIN bucket : Beside(c, s) /\ bucket[s].PageNum # NoPage
    BY <2>1, QuietSibling DEF Quietly
  <2>6. s # b
    BY <2>5
  <2>7. Beside(c, s)'
    BY <1>1, <2>1, <2>5, <2>6 DEF Beside
  <2>8. Covers(c, s)'
    BY <1>3, <2>5, <2>6 DEF Covers
  <2> QED  BY <1>1, <2>4, <2>6, <2>7, <2>8 DEF OldOK
<1>8. OwnPages'
  BY <1>1, <1>3 DEF Stored, OwnPages
<1> QED  BY <1>1, <1>2, <1>4, <1>5, <1>6, <1>7, <1>8 DEF Stored, OldOK

\* What is loaded without a mishap is what Search looks through.
LEMMA LoadedIsData ==
  ASSUME HashInv, Stored, NEW b \in DOMAIN bucket, LoadWorks(b)
  PROVE  /\ Loaded(b).PageNum = bucket[b].PageNum /\ Loaded(b).depth = bucket[b].depth
         /\ Loaded(b) \in Good(global_depth)
         /\ Loaded(b).values = Data(b)
         /\ InMemory(b) => Loaded(b) = bucket[b]
         /\ ~InMemory(b) => Loaded(b).size = bucket[b].size + bucket_size /\ bucket[b].PageNum # NoPage
         /\ InMemory(b) => bucket[b].size # 0
         /\ ~InMemory(b) /\ bucket[b].size # 0 => IsFull(b)
<1>1. HashTypes /\ bucket[b].values \in Contents
  BY Typed
<1>2. /\ Loaded(b) \in Good(global_depth) /\ Loaded(b).depth = bucket[b].depth
      /\ Loaded(b).PageNum = bucket[b].PageNum
  BY <1>1, LoadedType
<1>3. InMemory(b) => Loaded(b) = bucket[b]
  BY DEF Loaded
<1>4. ~InMemory(b) => Loaded(b).size = bucket[b].size + bucket_size /\ Loaded(b).values = Current(b)
  <2>1. bucket[b] \in [depth : 1 .. global_depth, size : 0 .. MaxSize, PageNum : Nat \cup {NoPage}, values : Contents]
    BY <1>1, Typed, GoodFacts
  <2> QED  BY <2>1 DEF Loaded, Current
<1>5. ~InMemory(b) => bucket[b].PageNum # NoPage
  BY DEF LoadWorks
<1>6. Loaded(b).values = Data(b)
  BY <1>3, <1>4, <1>5 DEF Data, Current
<1>7. ~IsFull(b) => (bucket[b].size = 0 <=> DOMAIN bucket[b].values = {})
  BY <1>1, NoEntries DEF Stored, Held
<1>8. IsFull(b) => bucket[b].size # 0
  BY Typed DEF IsFull
<1> QED  BY <1>2, <1>3, <1>4, <1>5, <1>6, <1>7, <1>8 DEF InMemory

\* One bucket changes, in no more than what it has of k.
LEMMA AnswersAfter ==
  ASSUME HashInv, Quietly, Answers, status = "running", UNCHANGED <<global_depth, buckets, todo>>,
         NEW b \in DOMAIN bucket, NEW k \in Key, BucketOf(k) = b,
         \A c \in DOMAIN bucket \ {b} :
           bucket'[c] = bucket[c] /\ (bucket[c].PageNum # NoPage => Current(c)' = Current(c)),
         \A x \in Key \ {k} : dict'[x] = dict[x],
         \/ Data(b)' = Data(b) /\ dict'[k] = dict[k]
         \/ Data(b)' = Without(Data(b), k) /\ dict'[k] = 0
         \/ Data(b)' = Set(Data(b), k, dict'[k])
  PROVE  Answers'
<1>1. HashTypes /\ \A x : BucketOf(x)' = BucketOf(x)
  BY DEF HashInv, BucketOf, hash
<1>2. \A x \in Key : Lookup(x) = dict[x] /\ ~ (Waiting(x)')
  BY DEF Answers, Quietly, Waiting
<1>3. ASSUME NEW x \in Key, BucketOf(x) # b PROVE Lookup(x)' = dict'[x]
  <2>1. BucketOf(x) \in DOMAIN bucket \ {b} /\ x # k
    BY <1>1, <1>3, BucketOfKey
  <2>2. Lookup(x)' = Lookup(x)
    BY <1>1, <2>1, LookupElsewhereStays
  <2> QED  BY <1>2, <2>1, <2>2
<1>4. ASSUME NEW x \in Key, BucketOf(x) = b PROVE Lookup(x)' = dict'[x]
  <2>1. Lookup(x)' = LookIn(b, x)'
    BY <1>1, <1>4 DEF Lookup, Found, LookIn, Data
  <2>2. LookIn(b, x) = dict[x]
    BY <1>2, <1>4, LookupLooksIn
  <2> DEFINE d == Data(b)
             e == Data(b)'
  <2>3. LookIn(b, x)' = (IF x \in DOMAIN e THEN e[x] ELSE 0)
        /\ (IF x \in DOMAIN d THEN d[x] ELSE 0) = dict[x]
    BY <2>2 DEF LookIn
  <2>4. \/ e = d /\ dict'[k] = dict[k]
        \/ e = Without(d, k) /\ dict'[k] = 0
        \/ e = Set(d, k, dict'[k])
    OBVIOUS
  <2> HIDE DEF d, e
  <2>5. x # k => dict'[x] = dict[x]
    OBVIOUS
  <2>6. (IF x \in DOMAIN e THEN e[x] ELSE 0) = dict'[x]
    BY <2>3, <2>4, <2>5 DEF Without, Set
  <2> QED  BY <2>1, <2>3, <2>6
<1> QED  BY <1>2, <1>3, <1>4 DEF Answers

\* A page loaded into memory, for nothing.
LEMMA LoadKeepsContents ==
  ASSUME HashInv, HashInv', Stored, Quietly, Answers, status = "running",
         UNCHANGED <<global_depth, buckets, page, todo>>,
         NEW k \in Key, NEW b, b = BucketOf(k), LoadWorks(b), ~LoadsOldPage(b),
         k \notin DOMAIN Loaded(b).values, bucket' = [bucket EXCEPT ![b] = Loaded(b)],
         \A x \in Key \ {k} : dict'[x] = dict[x], dict[k] = 0 => dict'[k] = 0
  PROVE  Stored' /\ Answers'
<1>1. HashTypes /\ b \in DOMAIN bucket
  BY BucketOfKey DEF HashInv
<1> DEFINE ld == Loaded(b)
<1>2. /\ ld.PageNum = bucket[b].PageNum /\ ld.depth = bucket[b].depth /\ ld \in Good(global_depth)
      /\ ld.values = Data(b) /\ (InMemory(b) => ld = bucket[b])
      /\ (~InMemory(b) => ld.size = bucket[b].size + bucket_size /\ bucket[b].PageNum # NoPage)
      /\ (InMemory(b) => bucket[b].size # 0)
      /\ (~InMemory(b) /\ bucket[b].size # 0 => IsFull(b))
  BY <1>1, LoadedIsData
<1>3. bucket' = [bucket EXCEPT ![b] = ld] /\ k \notin DOMAIN ld.values /\ ld = Loaded(b)
  OBVIOUS
<1> HIDE DEF ld
<1>4. bucket[b].size \in Nat
  BY <1>1, Typed
<1>5. ~InMemory(b) => IsFull(b)
  BY <1>2 DEF LoadsOldPage
<1>6. InPlace(ld.values, b)
  <2>1. IsFull(b) => InPlace(Data(b), b)
    BY <1>1, DataOfFull
  <2>2. InMemory(b) => InPlace(bucket[b].values, b)
    BY <1>1 DEF Stored, Held
  <2> QED  BY <1>2, <1>5, <2>1, <2>2
<1>7. \/ ld.size < bucket_size /\ Cardinality(DOMAIN ld.values) = ld.size
      \/ IsFull(b) /\ ld.size >= bucket_size /\ DOMAIN ld.values \in {{}, DOMAIN Current(b)}
  <2>1. CASE IsFull(b)
    <3>1. DOMAIN Data(b) = DOMAIN Current(b)
      BY <1>1, <2>1, DataOfFull
    <3>2. ld.size >= bucket_size
      <4>1. CASE InMemory(b)
        BY <1>2, <2>1, <4>1 DEF IsFull
      <4>2. CASE ~InMemory(b)
        BY <1>2, <1>4, <4>2
      <4> QED  BY <4>1, <4>2
    <3> QED  BY <1>2, <2>1, <3>1, <3>2
  <2>2. CASE ~IsFull(b)
    <3>1. ld = bucket[b] /\ Cardinality(DOMAIN bucket[b].values) = bucket[b].size
      BY <1>1, <1>2, <1>5, <2>2 DEF Stored, Held
    <3>2. bucket[b].size < bucket_size
      BY <1>4, <2>2 DEF IsFull
    <3> QED  BY <3>1, <3>2
  <2> QED  BY <2>1, <2>2
<1>8. ~ (ld.size = 0 /\ ld.PageNum # NoPage)
  <2>1. InMemory(b) => ld.size # 0
    BY <1>2
  <2>2. ~InMemory(b) => ld.size # 0
    BY <1>2, <1>4
  <2> QED  BY <2>1, <2>2
<1>9. /\ \A x \in Key : ~Waiting(x)
      /\ \A x \in Key : Waiting(x) => Waiting(x)' \/ BucketOf(x) = b
  BY DEF Quietly
<1>10. /\ Stored'
       /\ Data(b)' = IF ld.PageNum # NoPage /\ DOMAIN ld.values = {} THEN Current(b) ELSE ld.values
       /\ \A c \in DOMAIN bucket \ {b} : bucket'[c] = bucket[c] /\ Current(c)' = Current(c)
  <2>1. MayBecome(b, ld)
    BY <1>2, <1>6, <1>7, <1>8, <1>9 DEF MayBecome
  <2> QED  BY <1>1, <1>3, <2>1, MemoryKeepsStored
<1>11. Data(b)' = Data(b)
  <2>1. InMemory(b) => DOMAIN ld.values # {}
    BY <1>2 DEF InMemory
  <2>2. ~InMemory(b) => Data(b) = Current(b)
    BY <1>2 DEF Data, Current
  <2> QED  BY <1>2, <1>10, <2>1, <2>2
<1>12. dict'[k] = dict[k]
  <2>1. Lookup(k) = dict[k]
    BY <1>9 DEF Answers
  <2>2. Lookup(k) = 0
    BY <1>2, <1>3, LookupLooksIn DEF LookIn
  <2> QED  BY <2>1, <2>2
<1>13. Answers'
  BY <1>1, <1>10, <1>11, <1>12, AnswersAfter
<1> QED  BY <1>10, <1>13

\* An entry removed from the memory of a bucket that has no page, and is not left empty
\* or stays where it is.
LEMMA RemovalKeepsContents ==
  ASSUME HashInv, HashInv', Stored, Quietly, Answers, status = "running",
         UNCHANGED <<global_depth, buckets, page, todo>>,
         NEW k \in Key, NEW b, b = BucketOf(k), LoadWorks(b), bucket[b].PageNum = NoPage,
         k \in DOMAIN Loaded(b).values, bucket' = [bucket EXCEPT ![b] = Left(b, k)],
         \A x \in Key \ {k} : dict'[x] = dict[x], dict'[k] = 0
  PROVE  Stored' /\ Answers'
<1>1. HashTypes /\ b \in DOMAIN bucket
  BY BucketOfKey DEF HashInv
<1> DEFINE left == Left(b, k)
           c == bucket[b].values
<1>2. InMemory(b) /\ Loaded(b) = bucket[b] /\ bucket[b].size # 0 /\ Data(b) = c
  BY <1>1, LoadedIsData DEF Data
<1>3. /\ left \in Good(global_depth) /\ left.depth = bucket[b].depth /\ left.PageNum = bucket[b].PageNum
      /\ left.size = bucket[b].size - 1 /\ left.values = Without(c, k)
  BY <1>1, <1>2, LeftType
<1>4. c \in Contents /\ bucket[b].size \in Nat /\ k \in DOMAIN c
  BY <1>1, <1>2, Typed
<1>5. ~IsFull(b) /\ InPlace(c, b) /\ Cardinality(DOMAIN c) = bucket[b].size
  BY <1>1 DEF Stored, Held, FullOK
<1>6. bucket' = [bucket EXCEPT ![b] = left]
  OBVIOUS
<1> HIDE DEF left
<1>7. DOMAIN Without(c, k) = DOMAIN c \ {k} /\ Cardinality(DOMAIN Without(c, k)) = Cardinality(DOMAIN c) - 1
  BY <1>4, WithoutKeepsContents
<1>8. left.size < bucket_size /\ Cardinality(DOMAIN left.values) = left.size
  BY <1>3, <1>4, <1>5, <1>7 DEF IsFull
<1>9. InPlace(left.values, b)
  BY <1>3, <1>5, <1>7 DEF InPlace, Without
<1>10. ~ (left.size = 0 /\ left.PageNum # NoPage)
  BY <1>3
<1>11. /\ \A x \in Key : ~Waiting(x)
       /\ \A x \in Key : Waiting(x) => Waiting(x)' \/ BucketOf(x) = b
  BY DEF Quietly
<1>12. /\ Stored'
       /\ Data(b)' = IF left.PageNum # NoPage /\ DOMAIN left.values = {} THEN Current(b) ELSE left.values
       /\ \A e \in DOMAIN bucket \ {b} : bucket'[e] = bucket[e] /\ Current(e)' = Current(e)
  <2>1. MayBecome(b, left)
    BY <1>3, <1>8, <1>9, <1>10, <1>11 DEF MayBecome
  <2> QED  BY <1>1, <1>6, <2>1, MemoryKeepsStored
<1>13. Data(b)' = Without(Data(b), k)
  BY <1>2, <1>3, <1>12
<1>14. Answers'
  BY <1>1, <1>12, <1>13, AnswersAfter
<1> QED  BY <1>12, <1>14

\* The last entry is removed, and the bucket goes into its pair.
LEMMA MergeKeepsContents ==
  ASSUME HashInv, Stored, Quietly, Answers, status = "running",
         UNCHANGED <<global_depth, page, todo, status>>,
         NEW k \in Key, NEW b, b = BucketOf(k), LoadWorks(b), bucket[b].PageNum = NoPage,
         k \in DOMAIN Loaded(b).values, Joins(hash(k), Left(b, k)), merge(hash(k), bucket[b].depth),
         \A x \in Key \ {k} : dict'[x] = dict[x], dict'[k] = 0
  PROVE  Stored' /\ Answers'
<1> DEFINE n == hash(k)
           d == bucket[b].depth
           pair == buckets[pairIndex(n, d)]
           c == bucket[b].values
<1>1. HashTypes /\ b \in DOMAIN bucket /\ n \in Indexes(global_depth) /\ b = buckets[n]
  BY BucketOfKey DEF HashInv
<1>2. InMemory(b) /\ Loaded(b) = bucket[b] /\ Data(b) = c
  BY <1>1, LoadedIsData DEF Data
<1>3. Left(b, k).depth = d /\ Left(b, k).size = bucket[b].size - 1
  BY <1>1, <1>2, LeftType
<1>4. d > 1 /\ bucket[pair].depth = d /\ bucket[b].size - 1 = 0
  BY <1>3 DEF Joins
<1>5. DOMAIN c = {k}
  <2>1. c \in Contents /\ k \in DOMAIN c /\ bucket[b].size \in Nat
    BY <1>1, <1>2, Typed
  <2>2. Cardinality(DOMAIN c) = bucket[b].size
    BY <1>1 DEF Stored, Held, FullOK
  <2>3. /\ Without(c, k) \in Contents /\ DOMAIN Without(c, k) = DOMAIN c \ {k}
        /\ Cardinality(DOMAIN Without(c, k)) = Cardinality(DOMAIN c) - 1
    BY <2>1, WithoutKeepsContents
  <2>4. Cardinality(DOMAIN Without(c, k)) = 0
    BY <1>4, <2>2, <2>3
  <2>5. DOMAIN Without(c, k) = {}
    BY <2>3, <2>4, NoEntries
  <2> QED  BY <2>1, <2>3, <2>5
<1>6. /\ HashInv' /\ pair \in DOMAIN bucket \ {b} /\ pairIndex(n, d) \in Indexes(global_depth)
      /\ Merged(b, pair)
  <2> DEFINE p == pair
             dd == d
             nn == n
  <2>1. /\ nn \in Indexes(global_depth) /\ b = buckets[nn] /\ dd = bucket[b].depth /\ dd > 1
        /\ p = buckets[pairIndex(nn, dd)] /\ bucket[p].depth = dd /\ merge(nn, dd)
        /\ status' \in {"running", "exited", "aborted"}
    BY <1>1, <1>4
  <2> HIDE DEF p, dd, nn
  <2>2. /\ HashInv' /\ p \in DOMAIN bucket \ {b} /\ pairIndex(nn, dd) \in Indexes(global_depth)
        /\ Merged(b, p)
    BY <2>1, MergeParts
  <2> QED  BY <2>2 DEF p, dd, nn
<1>7. ~Old(pair)
  <2> DEFINE p == pair
  <2>1. p = buckets[pairIndex(n, d)] /\ d = bucket[b].depth /\ bucket[p].depth = d
        /\ p \in DOMAIN bucket \ {b} /\ pairIndex(n, d) \in Indexes(global_depth)
        /\ n \in Indexes(global_depth) /\ b = buckets[n]
    BY <1>1, <1>4, <1>6
  <2> HIDE DEF p, d, n
  <2>2. ~Old(p)
    BY <2>1, PairIsNotOld
  <2> QED  BY <2>2 DEF p
<1> HIDE DEF n, d, pair
<1>8. /\ Stored'
      /\ \A x \in Nat : BucketOf(x)' = IF BucketOf(x) = b THEN pair ELSE BucketOf(x)
      /\ \A e \in DOMAIN bucket \ {b} : Data(e)' = Data(e)
  BY <1>1, <1>6, <1>7, MergeKeepsStored
<1>9. \A x \in Key : Lookup(x) = dict[x] /\ ~ (Waiting(x)')
  BY DEF Answers, Quietly, Waiting
<1>10. ASSUME NEW x \in Key PROVE Lookup(x)' = dict'[x]
  <2>1. BucketOf(x) \in DOMAIN bucket /\ x \in Nat
    BY <1>1, BucketOfKey
  <2>2. CASE BucketOf(x) # b
    <3>1. PICK e : e = BucketOf(x)
      OBVIOUS
    <3>2. e \in DOMAIN bucket \ {b} /\ BucketOf(x)' = e /\ x # k
      BY <1>8, <2>1, <2>2, <3>1
    <3>3. Data(e)' = Data(e)
      BY <1>8, <3>2
    <3>4. Lookup(x)' = IF x \in DOMAIN Data(e) THEN Data(e)[x] ELSE 0
      BY <3>2, <3>3 DEF Lookup, Found, Data
    <3>5. Lookup(x) = LookIn(e, x)
      BY <3>1, LookupLooksIn
    <3> QED  BY <1>9, <3>2, <3>4, <3>5 DEF LookIn
  <2>3. CASE BucketOf(x) = b
    <3>1. PICK p : p = pair
      OBVIOUS
    <3>2. p \in DOMAIN bucket \ {b} /\ BucketOf(x)' = p /\ ~Old(p)
      BY <1>6, <1>7, <1>8, <2>1, <2>3, <3>1
    <3>3. Data(p)' = Data(p)
      BY <1>8, <3>2
    <3>4. Lookup(x)' = IF x \in DOMAIN Data(p) THEN Data(p)[x] ELSE 0
      BY <3>2, <3>3 DEF Lookup, Found, Data
    <3>5. LookIn(p, x) = 0
      BY <2>3, <3>2, NotElsewhere
    <3>6. x # k => dict[x] = 0
      <4>1. Lookup(x) = LookIn(b, x)
        BY <2>3, LookupLooksIn
      <4> QED  BY <1>2, <1>5, <1>9, <4>1 DEF LookIn
    <3> QED  BY <3>4, <3>5, <3>6 DEF LookIn
  <2> QED  BY <2>2, <2>3
<1> QED  BY <1>8, <1>9, <1>10 DEF Answers

LEMMA RemoveKeepsContents ==
  ASSUME HashInv, Stored, SplitsNeeded, TodoOK, Answers, DOMAIN dict = Key,
         NEW k \in Key, remove(k), ~strayed'
  PROVE  ~strayed /\ Stored' /\ SplitsNeeded' /\ TodoOK' /\ Answers'
<1> DEFINE b == BucketOf(k)
<1>1. HashInv' /\ HashTypes /\ b \in DOMAIN bucket /\ b = BucketOf(k)
  BY RemoveKeepsHash, BucketOfKey DEF HashInv
<1>2. /\ status = "running" /\ todo = << >> /\ UNCHANGED <<todo, global_depth, page>>
      /\ dict'[k] = 0 /\ \A x \in Key \ {k} : dict'[x] = dict[x]
  BY DEF remove, LoadFails
<1>3. SplitsNeeded' /\ TodoOK' /\ Quietly
  BY <1>2 DEF SplitsNeeded, TodoOK, Quietly, Waiting
<1>4. CASE LoadFails(b)
  <2>1. UNCHANGED <<global_depth, buckets, bucket, page, strayed, todo>> /\ status' = "exited"
    BY <1>2, <1>4 DEF LoadFails
  <2>2. Stored'
    BY <2>1, StoredStays
  <2> QED  BY <1>3, <2>1, <2>2 DEF Answers
<1>5. CASE LoadWorks(b) /\ ~LoadFails(b)
  <2>1. /\ \/ Joins(hash(k), Left(b, k)) /\ merge(hash(k), bucket[b].depth)
           \/ ~Joins(hash(k), Left(b, k)) /\ bucket' = [bucket EXCEPT ![b] = Left(b, k)] /\ UNCHANGED buckets
        /\ ~strayed /\ ~LoadsOldPage(b) /\ ~RemovesBesidePage(b, k) /\ UNCHANGED status
    BY <1>5 DEF remove, LoadWorks
  <2> HIDE DEF b
  <2>2. CASE k \notin DOMAIN Loaded(b).values
    <3>1. Left(b, k) = Loaded(b)
      BY <1>1, <1>5, <2>2, LeftType
    <3>2. Loaded(b).size # 0
      <4>1. bucket[b].size \in Nat
        BY <1>1, Typed
      <4>2. CASE InMemory(b)
        BY <1>1, <1>5, <4>2, LoadedIsData
      <4>3. CASE ~InMemory(b)
        BY <1>1, <1>5, <4>1, <4>3, LoadedIsData
      <4> QED  BY <4>2, <4>3
    <3>3. bucket' = [bucket EXCEPT ![b] = Loaded(b)] /\ UNCHANGED buckets
      BY <2>1, <3>1, <3>2 DEF Joins
    <3>4. Stored' /\ Answers'
      BY <1>1, <1>2, <1>3, <1>5, <2>1, <2>2, <3>3, LoadKeepsContents
    <3> QED  BY <1>3, <2>1, <3>4
  <2>3. CASE k \in DOMAIN Loaded(b).values
    <3>1. bucket[b].PageNum = NoPage
      BY <2>1, <2>3 DEF RemovesBesidePage
    <3>2. CASE Joins(hash(k), Left(b, k)) /\ merge(hash(k), bucket[b].depth)
      <4>1. Stored' /\ Answers'
        BY <1>1, <1>2, <1>3, <1>5, <2>1, <2>3, <3>1, <3>2, MergeKeepsContents
      <4> QED  BY <1>3, <2>1, <4>1
    <3>3. CASE bucket' = [bucket EXCEPT ![b] = Left(b, k)] /\ UNCHANGED buckets
      <4>1. Stored' /\ Answers'
        BY <1>1, <1>2, <1>3, <1>5, <2>1, <2>3, <3>1, <3>3, RemovalKeepsContents
      <4> QED  BY <1>3, <2>1, <4>1
    <3> QED  BY <2>1, <3>2, <3>3
  <2> QED  BY <2>2, <2>3
<1> QED  BY <1>4, <1>5 DEF remove

\* An entry gets a new value: in memory, or on the page it had to be loaded from.
LEMMA ChangeKeepsContents ==
  ASSUME HashInv, HashInv', Stored, Quietly, Answers, status = "running",
         UNCHANGED <<global_depth, buckets, todo>>, ~strayed',
         NEW k \in Key, NEW v \in Value, NEW b, b = BucketOf(k), LoadWorks(b),
         k \in DOMAIN Loaded(b).values, Change(b, k, v),
         \A x \in Key \ {k} : dict'[x] = dict[x], dict'[k] = IF dict[k] = 0 THEN 0 ELSE v
  PROVE  ~strayed /\ Stored' /\ Answers'
<1>1. HashTypes /\ b \in DOMAIN bucket
  BY BucketOfKey DEF HashInv
<1> DEFINE ld == Loaded(b)
           c == Set(ld.values, k, v)
           changed == [ld EXCEPT !.values = c]
<1>2. /\ ld.PageNum = bucket[b].PageNum /\ ld.depth = bucket[b].depth /\ ld \in Good(global_depth)
      /\ ld.values = Data(b) /\ (InMemory(b) => ld = bucket[b])
      /\ (~InMemory(b) => ld.size = bucket[b].size + bucket_size /\ bucket[b].PageNum # NoPage)
      /\ (InMemory(b) => bucket[b].size # 0)
      /\ (~InMemory(b) /\ bucket[b].size # 0 => IsFull(b))
  BY <1>1, LoadedIsData
<1>3. /\ k \in DOMAIN ld.values
      /\ \/ InMemory(b) /\ bucket' = [bucket EXCEPT ![b] = changed] /\ UNCHANGED <<page, strayed>>
         \/ ~InMemory(b) /\ PageWrite(b, changed)
  BY DEF Change
<1> HIDE DEF ld
<1>4. /\ ld \in [depth : 1 .. global_depth, size : 0 .. MaxSize, PageNum : Nat \cup {NoPage}, values : Contents]
      /\ ld.values \in Contents /\ bucket[b].size \in Nat /\ ld.size \in Nat
      /\ Cardinality(DOMAIN ld.values) <= ld.size /\ global_depth \in Nat
  <2>1. global_depth \in Nat
    BY <1>1, Typed
  <2>2. /\ ld \in [depth : 1 .. global_depth, size : 0 .. MaxSize, PageNum : Nat \cup {NoPage}, values : Contents]
        /\ ld.values \in Contents /\ ld.size \in 0 .. MaxSize /\ Cardinality(DOMAIN ld.values) <= ld.size
    BY <1>2, <2>1, GoodFacts
  <2> QED  BY <1>1, <2>1, <2>2, Typed
<1>5. c \in Contents /\ DOMAIN c = DOMAIN ld.values /\ Cardinality(DOMAIN c) = Cardinality(DOMAIN ld.values)
  <2>1. k \in Nat /\ v \in Nat
    OBVIOUS
  <2>2. DOMAIN ld.values \cup {k} = DOMAIN ld.values
    BY <1>3
  <2> QED  BY <1>3, <1>4, <2>1, <2>2, SetKeepsContents
<1>6. \A x \in DOMAIN c : c[x] = IF x = k THEN v ELSE ld.values[x]
  BY <1>5 DEF Set
<1> HIDE DEF c, changed
<1>7. /\ changed \in [depth : 1 .. global_depth, size : 0 .. MaxSize, PageNum : Nat \cup {NoPage}, values : Contents]
      /\ changed.depth = ld.depth /\ changed.size = ld.size /\ changed.values = c
      /\ changed.PageNum = ld.PageNum
  BY <1>4, <1>5 DEF changed
<1>8. changed \in Good(global_depth) /\ changed.PageNum = bucket[b].PageNum /\ changed.depth = bucket[b].depth
  BY <1>2, <1>4, <1>5, <1>7 DEF Good
<1>9. ~InMemory(b) => IsFull(b)
  <2>1. SUFFICES ASSUME ~InMemory(b), bucket[b].size = 0 PROVE FALSE
    BY <1>2
  <2>2. Old(b) /\ Data(b) = Current(b)
    BY <1>2, <2>1 DEF Old, Data, Current
  <2>3. Waiting(k)
    BY <1>1, <1>2, <1>3, <2>2 DEF Stored, OldOK, OldPage
  <2> QED  BY <2>3 DEF Quietly
<1>10. InPlace(ld.values, b)
  <2>1. IsFull(b) => InPlace(Data(b), b)
    BY <1>1, DataOfFull
  <2>2. InMemory(b) => InPlace(bucket[b].values, b)
    BY <1>1 DEF Stored, Held
  <2> QED  BY <1>2, <1>9, <2>1, <2>2
<1>11. InPlace(changed.values, b)
  BY <1>5, <1>6, <1>7, <1>10 DEF InPlace
<1>12. /\ \A x \in Key : ~Waiting(x)
       /\ \A x \in Key : Waiting(x) => Waiting(x)' \/ BucketOf(x) = b
  BY DEF Quietly
<1>13. dict'[k] = v
  <2>1. dict[k] = Lookup(k) /\ Lookup(k) = LookIn(b, k)
    BY <1>12, LookupLooksIn DEF Answers
  <2>2. LookIn(b, k) = ld.values[k] /\ ld.values[k] \in Value
    BY <1>2, <1>3, <1>10 DEF LookIn, InPlace
  <2> QED  BY <2>1, <2>2
<1>14. SUFFICES /\ ~strayed /\ Stored' /\ Data(b)' = c
                /\ \A e \in DOMAIN bucket \ {b} :
                     bucket'[e] = bucket[e] /\ (bucket[e].PageNum # NoPage => Current(e)' = Current(e))
  <2>1. Data(b)' = Set(Data(b), k, dict'[k])
    BY <1>2, <1>13, <1>14 DEF c
  <2>2. Answers'
    BY <1>1, <1>14, <2>1, AnswersAfter
  <2> QED  BY <1>14, <2>2
<1>15. CASE InMemory(b) /\ bucket' = [bucket EXCEPT ![b] = changed] /\ UNCHANGED <<page, strayed>>
  <2>1. changed.size = bucket[b].size /\ changed.size # 0 /\ DOMAIN changed.values # {}
    BY <1>2, <1>3, <1>5, <1>7, <1>15
  <2>2. \/ changed.size < bucket_size /\ Cardinality(DOMAIN changed.values) = changed.size
        \/ IsFull(b) /\ changed.size >= bucket_size /\ DOMAIN changed.values \in {{}, DOMAIN Current(b)}
    <3>1. CASE IsFull(b)
      <4>1. DOMAIN Data(b) = DOMAIN Current(b)
        BY <1>1, <3>1, DataOfFull
      <4> QED  BY <1>2, <1>5, <1>7, <2>1, <3>1, <4>1 DEF IsFull
    <3>2. CASE ~IsFull(b)
      <4>1. Cardinality(DOMAIN bucket[b].values) = bucket[b].size
        BY <1>1, <3>2 DEF Stored, Held
      <4>2. changed.size < bucket_size
        BY <1>4, <2>1, <3>2 DEF IsFull
      <4> QED  BY <1>2, <1>5, <1>7, <1>15, <2>1, <4>1, <4>2
    <3> QED  BY <3>1, <3>2
  <2>3. ~ (changed.size = 0 /\ changed.PageNum # NoPage)
    BY <2>1
  <2>4. /\ Stored'
        /\ Data(b)' = IF changed.PageNum # NoPage /\ DOMAIN changed.values = {} THEN Current(b) ELSE changed.values
        /\ \A e \in DOMAIN bucket \ {b} : bucket'[e] = bucket[e] /\ Current(e)' = Current(e)
    <3>1. MayBecome(b, changed)
      BY <1>8, <1>11, <1>12, <2>2, <2>3 DEF MayBecome
    <3> QED  BY <1>1, <1>15, <3>1, MemoryKeepsStored
  <2> QED  BY <1>7, <1>15, <2>1, <2>4
<1>16. CASE ~InMemory(b) /\ PageWrite(b, changed)
  <2>1. Cardinality(DOMAIN changed.values) >= bucket_size
    BY <1>1, <1>2, <1>5, <1>7, <1>9, <1>16, DataOfFull
  <2>2. changed.size >= bucket_size
    BY <1>2, <1>4, <1>7, <1>16
  <2>3. /\ ~strayed /\ Stored' /\ Data(b)' = changed.values
        /\ \A e \in DOMAIN bucket \ {b} :
             bucket'[e] = bucket[e] /\ (bucket[e].PageNum # NoPage => Current(e)' = Current(e))
    BY <1>1, <1>8, <1>11, <1>12, <1>16, <2>1, <2>2, PageWriteKeepsStored
  <2> QED  BY <1>7, <2>3
<1> QED  BY <1>3, <1>15, <1>16

LEMMA UpdateKeepsContents ==
  ASSUME HashInv, Stored, SplitsNeeded, TodoOK, Answers, DOMAIN dict = Key,
         NEW k \in Key, NEW v \in Value, update(k, v), ~strayed'
  PROVE  ~strayed /\ Stored' /\ SplitsNeeded' /\ TodoOK' /\ Answers'
<1> DEFINE b == BucketOf(k)
<1>1. HashInv' /\ HashTypes /\ b \in DOMAIN bucket /\ b = BucketOf(k)
  BY UpdateKeepsHash, BucketOfKey DEF HashInv
<1>2. /\ status = "running" /\ todo = << >> /\ UNCHANGED <<todo, global_depth>>
      /\ dict'[k] = (IF dict[k] = 0 THEN 0 ELSE v) /\ \A x \in Key \ {k} : dict'[x] = dict[x]
  BY DEF update, LoadFails
<1>3. SplitsNeeded' /\ TodoOK' /\ Quietly
  BY <1>2 DEF SplitsNeeded, TodoOK, Quietly, Waiting
<1>4. CASE LoadFails(b)
  <2>1. UNCHANGED <<global_depth, buckets, bucket, page, strayed, todo>> /\ status' = "exited"
    BY <1>2, <1>4 DEF LoadFails
  <2>2. Stored'
    BY <2>1, StoredStays
  <2> QED  BY <1>3, <2>1, <2>2 DEF Answers
<1>5. CASE LoadWorks(b) /\ Change(b, k, v) /\ UNCHANGED <<global_depth, buckets>>
  <2> HIDE DEF b
  <2>1. CASE k \in DOMAIN Loaded(b).values
    <3>1. ~strayed /\ Stored' /\ Answers'
      BY <1>1, <1>2, <1>3, <1>5, <2>1, ChangeKeepsContents
    <3> QED  BY <1>3, <3>1
  <2>2. CASE k \notin DOMAIN Loaded(b).values
    <3>1. /\ bucket' = [bucket EXCEPT ![b] = Loaded(b)] /\ UNCHANGED page
          /\ ~strayed /\ ~LoadsOldPage(b)
      BY <1>5, <2>2 DEF Change
    <3>2. dict[k] = 0 => dict'[k] = 0
      BY <1>2
    <3>3. Stored' /\ Answers'
      BY <1>1, <1>2, <1>3, <1>5, <2>2, <3>1, <3>2, LoadKeepsContents
    <3> QED  BY <1>3, <3>1, <3>3
  <2> QED  BY <2>1, <2>2
<1> QED  BY <1>4, <1>5 DEF update

-----------------------------------------------------------------------------
(* All steps.                                                              *)

LEMMA InsertKeepsContents ==
  ASSUME HashInv, Stored, SplitsNeeded, TodoOK, Answers, DOMAIN dict = Key,
         NEW k \in Key, NEW v \in Value, insert(k, v)
  PROVE  UNCHANGED strayed /\ Stored' /\ SplitsNeeded' /\ TodoOK' /\ Answers'
<1>1. /\ status = "running" /\ todo = << >> /\ todo' = <<[key |-> k, val |-> v]>>
      /\ dict'[k] = v /\ (\A x \in Key \ {k} : dict'[x] = dict[x])
      /\ UNCHANGED <<global_depth, buckets, bucket, page, status, strayed>>
  BY DEF insert
<1>2. DOMAIN todo' = {1} /\ todo'[1].key = k /\ todo'[1].val = v
  BY <1>1
<1>3. \A x : ~Waiting(x) /\ (Waiting(x)' <=> x = k)
  BY <1>1, <1>2 DEF Waiting
<1>4. \A c \in DOMAIN bucket : Held(c)'
  BY <1>1 DEF Stored, Held, FullOK, InPlace, Current, PageRead, IsFull, InMemory, BucketOf, hash
<1>5. OwnPages'
  BY <1>1 DEF Stored, OwnPages
<1>6. ASSUME NEW c \in DOMAIN bucket, Old(c)'
      PROVE  OldPage(c)' /\ \E e \in DOMAIN bucket' : Beside(c, e)' /\ Covers(c, e)'
  <2>1. Old(c) /\ Current(c)' = Current(c)
    BY <1>1, <1>6 DEF Old, Current, PageRead
  <2>2. OldPage(c) /\ \E e \in DOMAIN bucket : Beside(c, e) /\ Covers(c, e)
    BY <2>1 DEF Stored, OldOK
  <2>3. OldPage(c)'
    BY <1>1, <1>3, <2>1, <2>2 DEF OldPage, FromParent, BucketOf, hash
  <2>4. PICK e \in DOMAIN bucket : Beside(c, e) /\ Covers(c, e)
    BY <2>2
  <2>5. Beside(c, e)'
    BY <1>1, <2>4 DEF Beside
  <2>6. Covers(c, e)'
    BY <1>1, <1>3, <2>1, <2>4 DEF Covers
  <2> QED  BY <1>1, <2>3, <2>5, <2>6
<1>7. Stored'
  BY <1>1, <1>4, <1>5, <1>6 DEF Stored, OldOK
<1>8. SplitsNeeded' /\ TodoOK'
  BY <1>1, <1>2 DEF SplitsNeeded, TodoOK
<1>9. LastOne(k)'
  BY <1>1, <1>2 DEF LastOne
<1>10. \A x \in Key : Lookup(x)' = Lookup(x)
  BY <1>1 DEF Lookup, Found, BucketOf, hash, InMemory, PageRead
<1>11. \A x \in Key : Lookup(x) = dict[x]
  BY <1>1, <1>3 DEF Answers
<1>12. \A x \in Key \ {k} : Lookup(x)' = dict'[x]
  BY <1>1, <1>10, <1>11
<1> QED  BY <1>1, <1>3, <1>7, <1>8, <1>9, <1>12 DEF Answers

LEMMA InsertStepKeepsContents ==
  ASSUME HashInv, Stored, SplitsNeeded, TodoOK, Answers, InsertStep, ~strayed'
  PROVE  ~strayed /\ Stored' /\ SplitsNeeded' /\ TodoOK' /\ Answers'
<1> DEFINE b == BucketOf(Head(todo).key)
           n == hash(Head(todo).key)
<1>1. HashInv' /\ HashTypes /\ todo \in Seq(Insertion) /\ todo # << >> /\ UNCHANGED <<status, dict>>
  BY InsertStepKeepsHash DEF HashInv, HashTypes, InsertStep
<1>2. n \in Indexes(global_depth) /\ b = buckets[n]
  <2>1. Head(todo) \in Insertion
    BY <1>1
  <2>2. Head(todo).key \in Nat
    BY <2>1 DEF Insertion
  <2> QED  BY <1>1, <2>2, BucketOfKey
<1>3. CASE IsFull(b) /\ split(n)
  <2>1. IsFull(buckets[n])
    BY <1>2, <1>3
  <2> HIDE DEF n, b
  <2>2. Stored' /\ SplitsNeeded' /\ TodoOK' /\ Answers' /\ UNCHANGED strayed
    BY <1>1, <1>2, <1>3, <2>1, SplitKeepsContents
  <2> QED  BY <2>2
<1>4. CASE /\ ~IsFull(b) /\ BucketInsert(b, Head(todo)) /\ todo' = Tail(todo)
           /\ UNCHANGED <<global_depth, buckets>>
  <2>1. b = BucketOf(Head(todo).key)
    OBVIOUS
  <2> HIDE DEF b
  <2>2. ~strayed /\ Stored' /\ TodoOK' /\ Answers'
    BY <1>1, <1>4, <2>1, BucketInsertKeepsContents
  <2>3. SplitsNeeded'
    BY <1>4 DEF SplitsNeeded
  <2> QED  BY <2>2, <2>3
<1> QED  BY <1>3, <1>4 DEF InsertStep

LEMMA InitEstablishesContents == Init => ContentsInv
<1> SUFFICES ASSUME Init PROVE ContentsInv
  OBVIOUS
<1>1. HashInv
  BY InitEstablishesHash
<1>2. /\ bucket = [x \in DOMAIN bucket |-> NewBucket(InitialDepth)]
      /\ todo = << >> /\ dict = [k \in Key |-> 0] /\ global_depth = InitialDepth
  BY DEF Init
<1>3. ASSUME NEW b \in DOMAIN bucket
      PROVE  /\ bucket[b].size = 0 /\ bucket[b].PageNum = NoPage /\ bucket[b].values = Nothing
             /\ DOMAIN bucket[b].values = {} /\ ~IsFull(b)
  <2>1. bucket[b] = NewBucket(InitialDepth)
    BY <1>2
  <2>2. bucket[b].size = 0 /\ bucket[b].PageNum = NoPage /\ bucket[b].values = Nothing
    BY <2>1 DEF NewBucket
  <2> QED  BY <2>2 DEF IsFull, Nothing
<1>4. \A b \in DOMAIN bucket : Held(b) /\ OldOK(b)
  BY <1>3, FS_EmptySet DEF Held, InPlace, OldOK, Old
<1>5. Stored
  BY <1>3, <1>4 DEF Stored, OwnPages
<1>6. SplitsNeeded
  BY <1>2 DEF SplitsNeeded
<1>7. TodoOK /\ \A k : ~Waiting(k)
  BY <1>2 DEF TodoOK, Waiting
<1>8. \A k \in Key : Lookup(k) = dict[k]
  <2>1. ASSUME NEW k \in Key PROVE Lookup(k) = 0
    <3>1. BucketOf(k) \in DOMAIN bucket
      BY <1>1, BucketOfKey DEF HashInv
    <3> QED  BY <1>3, <3>1 DEF Lookup, Found
  <2> QED  BY <1>2, <2>1
<1> QED  BY <1>2, <1>5, <1>6, <1>7, <1>8 DEF ContentsInv, Answers

\* A mishap is not forgotten.
LEMMA StrayedStays ==
  ASSUME ~strayed', (\E k, v : update(k, v)) \/ (\E k : remove(k)) \/ InsertStep
  PROVE  ~strayed
<1>1. \A b, bk : PageWrite(b, bk) => ~strayed
  BY DEF PageWrite, PageAppend, PageUpdate
<1>2. \A n : split(n) => ~strayed
  BY DEF split
<1>3. \A b, e : BucketInsert(b, e) => ~strayed
  BY <1>1 DEF BucketInsert
<1>4. \A b : LoadFails(b) => ~strayed
  BY DEF LoadFails
<1>5. \A b, x, y : Change(b, x, y) => ~strayed
  BY <1>1 DEF Change
<1> QED  BY <1>2, <1>3, <1>4, <1>5 DEF update, remove, InsertStep

LEMMA NextKeepsContents == HashInv /\ ContentsInv /\ [Next]_vars => ContentsInv'
<1> SUFFICES ASSUME HashInv, ContentsInv, [Next]_vars PROVE ContentsInv'
  OBVIOUS
<1>1. DOMAIN dict = Key /\ (~strayed => Stored /\ SplitsNeeded /\ TodoOK /\ Answers)
  BY DEF ContentsInv
<1>2. DOMAIN dict' = Key
  <2>1. \/ UNCHANGED dict
        \/ \E k \in Key : \E v : dict' = [dict EXCEPT ![k] = v]
    BY DEF Next, vars, insert, remove, update, search, InsertStep
  <2> QED  BY <1>1, <2>1
<1>3. SUFFICES ASSUME ~strayed'
               PROVE  Stored' /\ SplitsNeeded' /\ TodoOK' /\ Answers'
  BY <1>2 DEF ContentsInv
<1>4. ASSUME NEW k \in Key, NEW v \in Value, insert(k, v)
      PROVE  Stored' /\ SplitsNeeded' /\ TodoOK' /\ Answers'
  <2>1. ~strayed
    BY <1>3, <1>4 DEF insert
  <2> QED  BY <1>1, <1>4, <2>1, InsertKeepsContents
<1>5. ASSUME NEW k \in Key, NEW v \in Value, update(k, v)
      PROVE  Stored' /\ SplitsNeeded' /\ TodoOK' /\ Answers'
  <2>1. ~strayed
    BY <1>3, <1>5, StrayedStays
  <2> QED  BY <1>1, <1>3, <1>5, <2>1, UpdateKeepsContents
<1>6. ASSUME NEW k \in Key, remove(k)
      PROVE  Stored' /\ SplitsNeeded' /\ TodoOK' /\ Answers'
  <2>1. ~strayed
    BY <1>3, <1>6, StrayedStays
  <2> QED  BY <1>1, <1>3, <1>6, <2>1, RemoveKeepsContents
<1>7. CASE InsertStep
  <2>1. ~strayed
    BY <1>3, <1>7, StrayedStays
  <2> QED  BY <1>1, <1>3, <1>7, <2>1, InsertStepKeepsContents
<1>8. ASSUME UNCHANGED <<global_depth, buckets, bucket, page, todo, dict, strayed>>,
             status' = "running" => status = "running"
      PROVE  Stored' /\ SplitsNeeded' /\ TodoOK' /\ Answers'
  <2>1. Stored /\ SplitsNeeded /\ TodoOK /\ Answers
    BY <1>1, <1>3, <1>8
  <2>2. Stored'
    BY <1>8, <2>1, StoredStays
  <2>3. SplitsNeeded' /\ TodoOK'
    BY <1>8, <2>1 DEF SplitsNeeded, TodoOK
  <2>4. ASSUME NEW k
        PROVE  (Waiting(k)' <=> Waiting(k)) /\ (LastOne(k) => LastOne(k)') /\ Lookup(k)' = Lookup(k)
    <3>1. (Waiting(k)' <=> Waiting(k)) /\ (LastOne(k) => LastOne(k)')
      BY <1>8 DEF Waiting, LastOne
    <3>2. BucketOf(k)' = BucketOf(k)
      BY <1>8 DEF BucketOf, hash
    <3> QED  BY <1>8, <3>1, <3>2 DEF Lookup, Found, InMemory, PageRead
  <2>5. Answers'
    BY <1>8, <2>1, <2>4 DEF Answers
  <2> QED  BY <2>2, <2>3, <2>5
<1>9. ASSUME NEW k \in Key, search(k)
      PROVE  Stored' /\ SplitsNeeded' /\ TodoOK' /\ Answers'
  BY <1>8, <1>9 DEF search
<1>10. CASE UNCHANGED vars
  BY <1>8, <1>10 DEF vars
<1> QED  BY <1>4, <1>5, <1>6, <1>7, <1>9, <1>10 DEF Next

LEMMA ContentsInvHolds == Spec => [](HashInv /\ ContentsInv)
  BY InitEstablishesHash, NextKeepsHash, InitEstablishesContents, NextKeepsContents, PTL DEF Spec

-----------------------------------------------------------------------------
\* Before a mishap, no split, merge or load of a page leaves an entry in the memory of
\* a bucket its key does not lead to (ExHash.cpp:67-167, ExBucket.cpp).
THEOREM EntriesStayInPlace == Spec => []EntriesInPlace
<1>1. ASSUME ContentsInv PROVE EntriesInPlace
  BY <1>1 DEF ContentsInv, EntriesInPlace, Stored, Held, InPlace
<1> QED  BY <1>1, ContentsInvHolds, PTL

\* Before a mishap, buckets do not share pages, and have none that was not written.
THEOREM PagesStayOwn == Spec => []PagesNotShared
<1>1. ASSUME ContentsInv PROVE PagesNotShared
  BY <1>1 DEF ContentsInv, PagesNotShared, Stored, Held, OwnPages
<1> QED  BY <1>1, ContentsInvHolds, PTL

\* The recursion of insert and split ends as soon as the keys are told apart: the
\* directory gets a level only where two keys agree in all the bits of the one before
\* (ExHash.cpp:67-109, 152-167).
THEOREM SplitsComeToAnEnd == Spec => []SplitsEnd
<1>1. ASSUME ContentsInv PROVE SplitsEnd
  BY <1>1 DEF ContentsInv, SplitsEnd, SplitsNeeded, Bits
<1> QED  BY <1>1, ContentsInvHolds, PTL

\* Before a mishap and between the calls, a search finds the value a key was last
\* given, and none for a key that is not there.
THEOREM LookupsAreRight == Spec => []LookupIsLastValue
<1>1. ASSUME ContentsInv PROVE LookupIsLastValue
  <2>1. SUFFICES ASSUME Quiet, ~strayed, NEW k \in Key PROVE Lookup(k) = dict[k]
    BY DEF LookupIsLastValue
  <2>2. status = "running" /\ ~Waiting(k) /\ Answers
    BY <1>1, <2>1 DEF ContentsInv, Quiet, Waiting
  <2> QED  BY <2>2 DEF Answers
<1> QED  BY <1>1, ContentsInvHolds, PTL
=============================================================================
