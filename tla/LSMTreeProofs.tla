--------------------------- MODULE LSMTreeProofs ---------------------------
(***************************************************************************)
(* The two LSM trees, for every number of levels, every buffer size and    *)
(* every set of keys and values.  Of the tree with the FTL: no level below *)
(* the first is used, no flush drops an entry and no lookup misses one.    *)
(* Of the tree without: there is never more than one run on the device,    *)
(* and no key is lost in a flush that the process survives.                *)
(***************************************************************************)
EXTENDS LSMTree, NoFTLKV, BasicLemmas

-----------------------------------------------------------------------------
(* What the definitions that both trees share give.                         *)

\* A strict order in which any two members of S compare.
Orders(before, S) ==
  /\ \A x \in S : <<x, x>> \notin before
  /\ \A x, y \in S : x = y \/ <<x, y>> \in before \/ <<y, x>> \in before
  /\ \A x, y, z \in S : <<x, y>> \in before /\ <<y, z>> \in before => <<x, z>> \in before

\* A finite set is arranged completely, without repetition and in its order.
LEMMA ArrangedProperties ==
  ASSUME NEW S, IsFiniteSet(S), NEW before, Orders(before, S)
  PROVE  /\ Cardinality(S) \in Nat
         /\ Arranged(S, before) \in [1 .. Cardinality(S) -> S]
         /\ \A x \in S : \E n \in 1 .. Cardinality(S) : Arranged(S, before)[n] = x
         /\ \A m, n \in 1 .. Cardinality(S) :
              m < n => <<Arranged(S, before)[m], Arranged(S, before)[n]>> \in before
<1> DEFINE N == Cardinality(S)
           Earlier(x) == {y \in S : <<y, x>> \in before}
           rank == [x \in S |-> Cardinality(Earlier(x)) + 1]
<1>1. N \in Nat
  BY FS_CardinalityType
<1>2. \A x \in S : IsFiniteSet(Earlier(x)) /\ Cardinality(Earlier(x)) \in Nat
  BY FS_Subset, FS_CardinalityType
<1>3. \A x, y \in S : <<x, y>> \in before => Cardinality(Earlier(x)) < Cardinality(Earlier(y))
  <2>1. SUFFICES ASSUME NEW x \in S, NEW y \in S, <<x, y>> \in before
                 PROVE  Cardinality(Earlier(x)) < Cardinality(Earlier(y))
    OBVIOUS
  <2>2. x \in Earlier(y) /\ x \notin Earlier(x) /\ Earlier(x) \in SUBSET Earlier(y)
    BY <2>1 DEF Orders
  <2> HIDE DEF Earlier
  <2>3. Cardinality(Earlier(x)) <= Cardinality(Earlier(y))
        /\ Cardinality(Earlier(x)) # Cardinality(Earlier(y))
    BY <1>2, <2>2, FS_Subset
  <2> QED  BY <1>2, <2>3
<1>4. \A x \in S : Cardinality(Earlier(x)) + 1 \in 1 .. N
  <2>1. SUFFICES ASSUME NEW x \in S PROVE Cardinality(Earlier(x)) + 1 \in 1 .. N
    OBVIOUS
  <2>2. Earlier(x) \in SUBSET S /\ x \notin Earlier(x)
    BY DEF Orders
  <2> HIDE DEF Earlier
  <2>3. Cardinality(Earlier(x)) <= N /\ Cardinality(Earlier(x)) # N
    BY <2>2, FS_Subset
  <2> QED  BY <1>1, <1>2, <2>3
<1> HIDE DEF Earlier
<1>5. rank \in Injection(S, 1 .. N)
  <2>1. rank \in [S -> 1 .. N]
    BY <1>4
  <2>2. \A x, y \in S : rank[x] = rank[y] => x = y
    <3>1. SUFFICES ASSUME NEW x \in S, NEW y \in S, x # y PROVE rank[x] # rank[y]
      OBVIOUS
    <3>2. <<x, y>> \in before \/ <<y, x>> \in before
      BY <3>1 DEF Orders
    <3> QED  BY <1>2, <1>3, <3>2
  <2> HIDE DEF rank
  <2> QED  BY <2>1, <2>2 DEF Injection, IsInjective
<1>6. \A n \in 1 .. N : \E x \in S : rank[x] = n
  <2>1. IsFiniteSet(1 .. N) /\ Cardinality(1 .. N) = N
    BY <1>1, FS_Interval
  <2> HIDE DEF rank
  <2>2. rank \in Surjection(S, 1 .. N)
    BY <1>5, <2>1, FS_Injection
  <2> QED  BY <2>2 DEF Surjection
<1> DEFINE Nth(n) == CHOOSE x \in S : Cardinality(Earlier(x)) = n - 1
           A == Arranged(S, before)
<1>7. \A n \in 1 .. N : Nth(n) \in S /\ Cardinality(Earlier(Nth(n))) = n - 1
  <2>1. SUFFICES ASSUME NEW n \in 1 .. N
                 PROVE  Nth(n) \in S /\ Cardinality(Earlier(Nth(n))) = n - 1
    OBVIOUS
  <2>2. \E x \in S : Cardinality(Earlier(x)) = n - 1
    <3>1. PICK x \in S : rank[x] = n
      BY <1>6
    <3>2. Cardinality(Earlier(x)) + 1 = n
      BY <3>1
    <3> QED  BY <1>2, <3>2
  <2> QED  BY <2>2
<1>8. A = [n \in 1 .. N |-> Nth(n)]
  BY DEF Arranged, Earlier
<1> HIDE DEF Nth, A, rank
<1>11. A \in [1 .. N -> S]
  BY <1>7, <1>8
<1>12. \A n \in 1 .. N : A[n] \in S /\ Cardinality(Earlier(A[n])) = n - 1
  BY <1>7, <1>8
<1>9. ASSUME NEW x \in S PROVE \E n \in 1 .. N : A[n] = x
  <2> DEFINE n == Cardinality(Earlier(x)) + 1
  <2>1. n \in 1 .. N
    BY <1>4
  <2>2. A[n] \in S /\ Cardinality(Earlier(A[n])) = n - 1
    BY <1>12, <2>1
  <2>3. Cardinality(Earlier(A[n])) = Cardinality(Earlier(x))
    BY <1>2, <2>2
  <2>4. A[n] = x
    <3>1. A[n] = x \/ <<A[n], x>> \in before \/ <<x, A[n]>> \in before
      BY <2>2 DEF Orders
    <3>2. \A i, j \in Nat : i = j => ~(i < j) /\ ~(j < i)
      OBVIOUS
    <3> QED  BY <1>2, <1>3, <2>2, <2>3, <3>1, <3>2
  <2> QED  BY <2>1, <2>4
<1>10. ASSUME NEW m \in 1 .. N, NEW n \in 1 .. N, m < n PROVE <<A[m], A[n]>> \in before
  <2>1. /\ A[m] \in S /\ Cardinality(Earlier(A[m])) = m - 1
        /\ A[n] \in S /\ Cardinality(Earlier(A[n])) = n - 1
    BY <1>12
  <2>2. A[m] = A[n] \/ <<A[m], A[n]>> \in before \/ <<A[n], A[m]>> \in before
    BY <2>1 DEF Orders
  <2>3. A[m] # A[n]
    <3>1. m - 1 # n - 1
      BY <1>10
    <3> QED  BY <2>1, <3>1
  <2>4. <<A[n], A[m]>> \notin before
    <3>1. ~(n - 1 < m - 1)
      BY <1>10
    <3> QED  BY <1>3, <2>1, <3>1
  <2> QED  BY <2>2, <2>3, <2>4
<1> QED  BY <1>1, <1>9, <1>10, <1>11 DEF A

\* GetEntries copies every entry of a buffer once, in the order of the keys.
LEMMA GetEntriesProperties ==
  ASSUME NEW buffer, IsFiniteSet(DOMAIN buffer), DOMAIN buffer \subseteq Key,
         \A k \in DOMAIN buffer : buffer[k] \in AnyValue
  PROVE  /\ Cardinality(DOMAIN buffer) \in Nat
         /\ GetEntries(buffer) \in Seq(EntryOf)
         /\ Len(GetEntries(buffer)) = Cardinality(DOMAIN buffer)
         /\ \A k \in DOMAIN buffer : \E n \in DOMAIN GetEntries(buffer) :
              GetEntries(buffer)[n] = [key |-> k, val |-> buffer[k]]
<1> DEFINE S == DOMAIN buffer
           before == {pair \in (DOMAIN buffer) \X (DOMAIN buffer) : pair[1] < pair[2]}
           keys == Arranged(S, before)
           N == Cardinality(S)
           E == GetEntries(buffer)
<1>1. \A x, y \in S : <<x, y>> \in before <=> x < y
  OBVIOUS
<1>2. S \subseteq Nat
  BY TreeAssumption
<1> HIDE DEF before
<1>3. Orders(before, S)
  <2> HIDE DEF S
  <2>1. \A x \in S : <<x, x>> \notin before
    BY <1>1, <1>2
  <2>2. \A x, y \in S : x = y \/ <<x, y>> \in before \/ <<y, x>> \in before
    <3>1. SUFFICES ASSUME NEW x \in S, NEW y \in S
                   PROVE  x = y \/ x < y \/ y < x
      BY <1>1
    <3>2. x \in Nat /\ y \in Nat
      BY <1>2
    <3> QED  BY <3>2
  <2>3. \A x, y, z \in S : <<x, y>> \in before /\ <<y, z>> \in before => <<x, z>> \in before
    <3>1. SUFFICES ASSUME NEW x \in S, NEW y \in S, NEW z \in S, x < y, y < z
                   PROVE  x < z
      BY <1>1
    <3>2. x \in Nat /\ y \in Nat /\ z \in Nat
      BY <1>2
    <3> QED  BY <3>1, <3>2
  <2> QED  BY <2>1, <2>2, <2>3 DEF Orders
<1>4. /\ N \in Nat /\ keys \in [1 .. N -> S]
      /\ \A x \in S : \E n \in 1 .. N : keys[n] = x
  BY <1>3, ArrangedProperties
<1>5. E = [n \in DOMAIN keys |-> [key |-> keys[n], val |-> buffer[keys[n]]]]
  BY DEF GetEntries, before
<1> HIDE DEF keys, N, E
<1>6. E \in [1 .. N -> EntryOf]
  <2>1. \A n \in 1 .. N : [key |-> keys[n], val |-> buffer[keys[n]]] \in EntryOf
    BY <1>4 DEF EntryOf
  <2> QED  BY <1>4, <1>5, <2>1
<1>7. E \in Seq(EntryOf) /\ Len(E) = N /\ DOMAIN E = 1 .. N
  BY <1>4, <1>6
<1>8. ASSUME NEW k \in S PROVE \E n \in DOMAIN E : E[n] = [key |-> k, val |-> buffer[k]]
  <2>1. PICK n \in 1 .. N : keys[n] = k
    BY <1>4
  <2>2. E[n] = [key |-> keys[n], val |-> buffer[keys[n]]]
    BY <1>4, <1>5
  <2> QED  BY <1>7, <2>1, <2>2
<1> QED  BY <1>4, <1>7, <1>8 DEF E, N

\* The live places of entries and the order in which a merge takes them.
LivePlaces(entries) == {i \in DOMAIN entries : entries[i].val # Deleted}
PopOrder(entries) ==
  {pair \in LivePlaces(entries) \X LivePlaces(entries) :
     PoppedBefore(entries, pair[1], pair[2])}

\* The queue orders the places: entries of one key and value come out as they were put in.
LEMMA PopOrderOrders ==
  ASSUME NEW entries \in Seq(EntryOf)
  PROVE  /\ IsFiniteSet(LivePlaces(entries))
         /\ Cardinality(LivePlaces(entries)) <= Len(entries)
         /\ Orders(PopOrder(entries), LivePlaces(entries))
<1> DEFINE L == LivePlaces(entries)
           B == PopOrder(entries)
<1>1. Len(entries) \in Nat /\ DOMAIN entries = 1 .. Len(entries)
  OBVIOUS
<1>2. L \in SUBSET (1 .. Len(entries))
  BY <1>1 DEF LivePlaces
<1>3. IsFiniteSet(L) /\ Cardinality(L) <= Len(entries)
  <2>1. IsFiniteSet(1 .. Len(entries)) /\ Cardinality(1 .. Len(entries)) = Len(entries)
    BY <1>1, FS_Interval
  <2> HIDE DEF L
  <2> QED  BY <1>2, <2>1, FS_Subset
<1>4. \A i \in L : i \in Nat /\ entries[i].key \in Nat /\ entries[i].val \in Nat
  <2>1. SUFFICES ASSUME NEW i \in 1 .. Len(entries)
                 PROVE  i \in Nat /\ entries[i].key \in Nat /\ entries[i].val \in Nat
    BY <1>2
  <2>2. entries[i] \in EntryOf
    BY ElementOfSeq
  <2>3. entries[i].key \in Key /\ entries[i].val \in AnyValue
    BY <2>2 DEF EntryOf
  <2>4. Key \subseteq Nat /\ AnyValue \subseteq Nat
    BY TreeAssumption DEF AnyValue, Deleted
  <2>5. i \in Nat
    BY <1>1
  <2> QED  BY <2>3, <2>4, <2>5
<1> DEFINE Sooner(i, j) ==
             \/ entries[i].key < entries[j].key
             \/ entries[i].key = entries[j].key /\ entries[i].val > entries[j].val
             \/ entries[i].key = entries[j].key /\ entries[i].val = entries[j].val /\ i < j
<1>5. \A i, j \in L : <<i, j>> \in B <=> Sooner(i, j)
  <2>1. SUFFICES ASSUME NEW i \in L, NEW j \in L
                 PROVE  PoppedBefore(entries, i, j) <=> Sooner(i, j)
    BY DEF PopOrder
  <2> HIDE DEF L
  <2>2. /\ i \in Nat /\ entries[i].key \in Nat /\ entries[i].val \in Nat
        /\ j \in Nat /\ entries[j].key \in Nat /\ entries[j].val \in Nat
    BY <1>4
  <2> QED  BY <2>2 DEF PoppedBefore, Precedes
<1> HIDE DEF L, B
<1>6. \A i \in L : <<i, i>> \notin B
  BY <1>4, <1>5
<1>7. \A i, j \in L : i = j \/ <<i, j>> \in B \/ <<j, i>> \in B
  <2>1. SUFFICES ASSUME NEW i \in L, NEW j \in L
                 PROVE  i = j \/ Sooner(i, j) \/ Sooner(j, i)
    BY <1>5
  <2>2. /\ i \in Nat /\ entries[i].key \in Nat /\ entries[i].val \in Nat
        /\ j \in Nat /\ entries[j].key \in Nat /\ entries[j].val \in Nat
    BY <1>4
  <2> QED  BY <2>2
<1>8. \A i, j, k \in L : <<i, j>> \in B /\ <<j, k>> \in B => <<i, k>> \in B
  <2>1. SUFFICES ASSUME NEW i \in L, NEW j \in L, NEW k \in L, Sooner(i, j), Sooner(j, k)
                 PROVE  Sooner(i, k)
    BY <1>5
  <2>2. /\ i \in Nat /\ entries[i].key \in Nat /\ entries[i].val \in Nat
        /\ j \in Nat /\ entries[j].key \in Nat /\ entries[j].val \in Nat
        /\ k \in Nat /\ entries[k].key \in Nat /\ entries[k].val \in Nat
    BY <1>4
  <2> QED  BY <2>1, <2>2
<1> QED  BY <1>3, <1>6, <1>7, <1>8 DEF Orders, L, B

\* A merge gives the live entries it is fed, all of them, in the order of their keys.
LEMMA DrainProperties ==
  ASSUME NEW entries \in Seq(EntryOf)
  PROVE  /\ Drain(entries) \in Seq(EntryOf)
         /\ Len(Drain(entries)) = Cardinality(LivePlaces(entries))
         /\ Len(Drain(entries)) <= Len(entries)
         /\ \A i \in LivePlaces(entries) : \E n \in DOMAIN Drain(entries) :
              Drain(entries)[n] = entries[i]
         /\ \A n \in DOMAIN Drain(entries) : \E i \in LivePlaces(entries) :
              Drain(entries)[n] = entries[i]
         /\ \A m, n \in DOMAIN Drain(entries) :
              m < n => Drain(entries)[m].key <= Drain(entries)[n].key
<1> DEFINE L == LivePlaces(entries)
           B == PopOrder(entries)
           P == Arranged(L, B)
           N == Cardinality(L)
           D == Drain(entries)
<1>1. IsFiniteSet(L) /\ N <= Len(entries) /\ Orders(B, L)
  BY PopOrderOrders
<1>2. /\ N \in Nat /\ P \in [1 .. N -> L]
      /\ \A x \in L : \E n \in 1 .. N : P[n] = x
      /\ \A m, n \in 1 .. N : m < n => <<P[m], P[n]>> \in B
  <2> HIDE DEF L, B
  <2> QED  BY <1>1, ArrangedProperties
<1>3. D = [n \in DOMAIN P |-> entries[P[n]]]
  BY DEF Drain, LivePlaces, PopOrder
<1>4. \A i \in L : i \in DOMAIN entries /\ entries[i] \in EntryOf
  BY DEF LivePlaces
<1> HIDE DEF L, B, P, N, D
<1>5. \A n \in 1 .. N : D[n] = entries[P[n]] /\ P[n] \in L
  BY <1>2, <1>3
<1>6. D \in [1 .. N -> EntryOf]
  BY <1>2, <1>3, <1>4
<1>7. D \in Seq(EntryOf) /\ Len(D) = N /\ DOMAIN D = 1 .. N
  BY <1>2, <1>6
<1>8. \A i \in L : \E n \in DOMAIN D : D[n] = entries[i]
  BY <1>2, <1>5, <1>7
<1>9. \A m, n \in DOMAIN D : m < n => D[m].key <= D[n].key
  <2>1. SUFFICES ASSUME NEW m \in 1 .. N, NEW n \in 1 .. N, m < n
                 PROVE  D[m].key <= D[n].key
    BY <1>7
  <2>2. <<P[m], P[n]>> \in B
    BY <1>2, <2>1
  <2>3. PoppedBefore(entries, P[m], P[n])
    BY <2>2 DEF B, PopOrder
  <2>4. D[m] \in EntryOf /\ D[n] \in EntryOf
    BY <1>6
  <2>5. D[m].key \in Nat /\ D[n].key \in Nat
    BY <2>4, TreeAssumption DEF EntryOf
  <2>6. D[m] = entries[P[m]] /\ D[n] = entries[P[n]]
    BY <1>5
  <2> QED  BY <2>3, <2>5, <2>6 DEF PoppedBefore, Precedes
<1> QED  BY <1>1, <1>5, <1>7, <1>8, <1>9 DEF L, N, D

\* What the first run has no room for goes to the second, and between them they take
\* whatever there is room for.
LEMMA RoomForAll ==
  ASSUME NEW max \in Nat, NEW n1 \in 0 .. max, NEW n2 \in 0 .. max,
         NEW entries \in Seq(EntryOf), Len(entries) <= (max - n1) + (max - n2)
  PROVE  LET one == ToFirst(n1, max, entries)
             two == ToSecond(n1, n2, max, entries)
         IN  /\ one \in Seq(EntryOf) /\ two \in Seq(EntryOf)
             /\ Len(one) = Least(max - n1, Len(entries))
             /\ Len(two) = Len(entries) - Len(one)
             /\ \A i \in 1 .. Len(one) : one[i] = entries[i]
             /\ \A i \in 1 .. Len(two) : two[i] = entries[Len(one) + i]
<1> DEFINE one == ToFirst(n1, max, entries)
           two == ToSecond(n1, n2, max, entries)
           N == Len(entries)
           M == Least(max - n1, N)
           rest == SubSeq(entries, M + 1, N)
<1>1. N \in Nat /\ max - n1 \in Nat
  OBVIOUS
<1>2. M \in 0 .. N /\ M + 1 \in 1 .. (N + 1) /\ N - M <= max - n2
  BY <1>1 DEF Least
<1>3. one = SubSeq(entries, 1, M) /\ two = SubSeq(rest, 1, Least(max - n2, Len(rest)))
  BY DEF ToFirst, ToSecond
<1> HIDE DEF M, N, rest, one, two
<1>4. /\ one \in Seq(EntryOf) /\ Len(one) = M
      /\ \A i \in 1 .. M : one[i] = entries[i]
  <2>1. N = Len(entries)
    BY DEF N
  <2> QED  BY <1>2, <1>3, <2>1
<1>5. /\ rest \in Seq(EntryOf) /\ Len(rest) = N - M
      /\ \A i \in 1 .. (N - M) : rest[i] = entries[M + i]
  <2>1. N = Len(entries) /\ rest = SubSeq(entries, M + 1, N)
    BY DEF N, rest
  <2>2. \A i \in (M + 1) .. N : entries[i] \in EntryOf
    BY <1>1, <1>2, <2>1, ElementOfSeq
  <2>3. rest \in Seq(EntryOf)
    BY <1>1, <1>2, <2>1, <2>2
  <2>4. Len(rest) = N - M
    BY <1>1, <1>2, <2>1
  <2>5. \A i \in 1 .. (N - M) : rest[i] = entries[M + i]
    BY <1>1, <1>2, <2>1
  <2> QED  BY <2>3, <2>4, <2>5
<1>6. Least(max - n2, Len(rest)) = N - M
  BY <1>1, <1>2, <1>5 DEF Least
<1>7. two = rest
  <2>1. two = SubSeq(rest, 1, Len(rest))
    BY <1>3, <1>5, <1>6
  <2> QED  BY <1>5, <2>1
<1> QED  BY <1>1, <1>2, <1>4, <1>5, <1>7 DEF M, N, one, two

-----------------------------------------------------------------------------
(* The buffer.                                                             *)

BufferOK(buffer) ==
  /\ DOMAIN buffer \subseteq Key /\ IsFiniteSet(DOMAIN buffer)
  /\ Cardinality(DOMAIN buffer) <= BufferSize
  /\ \A k \in DOMAIN buffer : buffer[k] \in AnyValue

LEMMA EmptyBufferOK == BufferOK(EmptyBuffer)
<1>1. DOMAIN EmptyBuffer = {}
  BY DEF EmptyBuffer
<1> QED  BY <1>1, FS_EmptySet, TreeAssumption DEF BufferOK

LEMMA PutInRoom ==
  ASSUME NEW buffer, BufferOK(buffer), HasRoom(buffer), NEW k \in Key, NEW v \in AnyValue
  PROVE  BufferOK(Put(buffer, k, v))
<1>1. DOMAIN Put(buffer, k, v) = DOMAIN buffer \cup {k}
  BY DEF Put
<1>2. IsFiniteSet(DOMAIN buffer \cup {k})
      /\ Cardinality(DOMAIN buffer \cup {k}) <= Cardinality(DOMAIN buffer) + 1
      /\ Cardinality(DOMAIN buffer) \in Nat
  <2>1. IsFiniteSet(DOMAIN buffer)
    BY DEF BufferOK
  <2>2. Cardinality(DOMAIN buffer) \in Nat
    BY <2>1, FS_CardinalityType
  <2> QED  BY <2>1, <2>2, FS_AddElement
<1>3. Cardinality(DOMAIN buffer \cup {k}) \in Nat
  BY <1>2, FS_CardinalityType
<1>4. Cardinality(DOMAIN buffer) < BufferSize
  BY DEF HasRoom
<1>5. \A j \in DOMAIN buffer \cup {k} : Put(buffer, k, v)[j] \in AnyValue
  BY DEF Put, BufferOK
<1>6. Cardinality(DOMAIN buffer \cup {k}) <= BufferSize
  BY <1>2, <1>3, <1>4, TreeAssumption
<1> QED  BY <1>1, <1>2, <1>5, <1>6 DEF BufferOK

LEMMA PutInEmpty ==
  ASSUME NEW k \in Key, NEW v \in AnyValue
  PROVE  BufferOK(Put(EmptyBuffer, k, v))
<1>1. HasRoom(EmptyBuffer)
  <2>1. DOMAIN EmptyBuffer = {}
    BY DEF EmptyBuffer
  <2> QED  BY <2>1, FS_EmptySet, TreeAssumption DEF HasRoom
<1> QED  BY <1>1, EmptyBufferOK, PutInRoom

\* A full buffer has as many entries as a run of the first level.
LEMMA FullBufferEntries ==
  ASSUME NEW buffer, BufferOK(buffer), ~HasRoom(buffer)
  PROVE  /\ GetEntries(buffer) \in Seq(EntryOf)
         /\ Len(GetEntries(buffer)) = BufferSize
         /\ \A k \in DOMAIN buffer : \E n \in DOMAIN GetEntries(buffer) :
              GetEntries(buffer)[n] = [key |-> k, val |-> buffer[k]]
<1>1. IsFiniteSet(DOMAIN buffer) /\ DOMAIN buffer \subseteq Key
      /\ \A k \in DOMAIN buffer : buffer[k] \in AnyValue
  BY DEF BufferOK
<1>2. Cardinality(DOMAIN buffer) = BufferSize
  <2>1. Cardinality(DOMAIN buffer) \in Nat
    BY <1>1, FS_CardinalityType
  <2>2. Cardinality(DOMAIN buffer) <= BufferSize /\ ~(Cardinality(DOMAIN buffer) < BufferSize)
    BY DEF BufferOK, HasRoom
  <2> QED  BY <2>1, <2>2, TreeAssumption
<1> QED  BY <1>1, <1>2, GetEntriesProperties

LEMMA RunSizeType ==
  ASSUME NEW i \in Level
  PROVE  RunSize(i) \in Nat \ {0}
<1> DEFINE m == 2^i
<1>1. i \in Nat
  BY TreeAssumption DEF Level
<1>2. m \in Nat \ {0}
  BY <1>1, PowerType
<1> HIDE DEF m
<1>3. BufferSize * m \in Nat \ {0}
  BY <1>2, TreeAssumption
<1> QED  BY <1>3 DEF RunSize, m

LEMMA FirstRunSize == RunSize(0) = BufferSize
<1>1. 2^0 = 1
  OBVIOUS
<1> QED  BY <1>1, TreeAssumption DEF RunSize

-----------------------------------------------------------------------------
(* The tree with the FTL.                                                  *)

FirstLevelOK(level) ==
  /\ level \in Seq(EntryOf) \X Seq(EntryOf)
  /\ Len(level[1]) <= BufferSize /\ Len(level[2]) <= BufferSize
  /\ level[2] # << >> => Len(level[1]) = BufferSize

LEMMA NoRunsOK == FirstLevelOK(NoRuns)
<1>1. << >> \in Seq(EntryOf) /\ Len(<< >>) = 0
  OBVIOUS
<1>2. NoRuns = << << >>, << >> >>
  BY DEF NoRuns, EmptyRun
<1>3. NoRuns \in Seq(EntryOf) \X Seq(EntryOf)
  BY <1>1, <1>2
<1>4. NoRuns[1] = << >> /\ NoRuns[2] = << >>
  BY <1>2
<1>5. 0 <= BufferSize
  BY TreeAssumption
<1> QED  BY <1>1, <1>3, <1>4, <1>5 DEF FirstLevelOK

\* Entries that fit are put in the runs, behind what those have; none is dropped.
LEMMA PutKeepsAll ==
  ASSUME NEW level, FirstLevelOK(level), NEW entries \in Seq(EntryOf),
         Len(entries) <= BufferSize, level = NoRuns \/ LevelEmpty(level, BufferSize)
  PROVE  /\ FirstLevelOK(LevelPut(level, BufferSize, entries))
         /\ \A i \in DOMAIN entries : \E r \in {1, 2} :
              \E j \in DOMAIN LevelPut(level, BufferSize, entries)[r] :
                LevelPut(level, BufferSize, entries)[r][j] = entries[i]
<1> DEFINE n1 == Len(level[1])
           n2 == Len(level[2])
           one == ToFirst(n1, BufferSize, entries)
           two == ToSecond(n1, n2, BufferSize, entries)
           put == LevelPut(level, BufferSize, entries)
<1>1. BufferSize \in Nat /\ BufferSize > 0
  BY TreeAssumption
<1>2. level[1] \in Seq(EntryOf) /\ level[2] \in Seq(EntryOf)
      /\ level = <<level[1], level[2]>>
  BY DEF FirstLevelOK
<1>3. n1 \in 0 .. BufferSize /\ n2 = 0 /\ level[2] = << >> /\ n1 # BufferSize
  <2>1. n1 \in Nat /\ n1 <= BufferSize /\ (n2 = 0 <=> level[2] = << >>)
    BY <1>2 DEF FirstLevelOK
  <2>2. n1 # BufferSize
    <3>1. CASE level = NoRuns
      <4>1. level[1] = << >>
        BY <3>1 DEF NoRuns, EmptyRun
      <4> QED  BY <1>1, <4>1
    <3>2. CASE LevelEmpty(level, BufferSize)
      BY <3>2 DEF LevelEmpty, IsEmpty
    <3> QED  BY <3>1, <3>2
  <2>3. level[2] = << >>
    BY <2>2 DEF FirstLevelOK
  <2> QED  BY <1>1, <2>1, <2>2, <2>3
<1>4. put = <<level[1] \o one, level[2] \o two>>
  BY DEF LevelPut
<1> HIDE DEF n1, n2, one, two, put
<1>5. Len(entries) \in Nat /\ n2 \in 0 .. BufferSize
      /\ Len(entries) <= (BufferSize - n1) + (BufferSize - n2)
  BY <1>1, <1>3
<1>6. /\ one \in Seq(EntryOf) /\ two \in Seq(EntryOf)
      /\ Len(one) = Least(BufferSize - n1, Len(entries))
      /\ Len(two) = Len(entries) - Len(one)
      /\ \A i \in 1 .. Len(one) : one[i] = entries[i]
      /\ \A i \in 1 .. Len(two) : two[i] = entries[Len(one) + i]
  BY <1>1, <1>3, <1>5, RoomForAll DEF one, two
<1>7. level[2] \o two = two
  BY <1>3, <1>6
<1>8. /\ level[1] \o one \in Seq(EntryOf) /\ Len(level[1] \o one) = n1 + Len(one)
      /\ \A i \in 1 .. Len(one) : (level[1] \o one)[n1 + i] = one[i]
  <2> DEFINE s == level[1]
  <2>1. s \in Seq(EntryOf) /\ one \in Seq(EntryOf) /\ n1 = Len(s) /\ Len(s) \in Nat
    BY <1>2, <1>6 DEF n1
  <2> HIDE DEF s
  <2>2. s \o one \in Seq(EntryOf) /\ Len(s \o one) = Len(s) + Len(one)
    BY <2>1
  <2>3. \A i \in 1 .. Len(one) : (s \o one)[Len(s) + i] = one[i]
    BY <2>1
  <2> QED  BY <2>1, <2>2, <2>3 DEF s
<1>9. put[1] = level[1] \o one /\ put[2] = two
  BY <1>4, <1>7
<1>10. FirstLevelOK(put)
  <2>1. put \in Seq(EntryOf) \X Seq(EntryOf)
    BY <1>4, <1>6, <1>7, <1>8
  <2>2. Len(put[1]) = n1 + Len(one) /\ Len(put[2]) = Len(two) /\ Len(one) \in Nat
    BY <1>6, <1>8, <1>9
  <2>3. Len(put[1]) <= BufferSize /\ Len(put[2]) <= BufferSize
    BY <1>1, <1>3, <1>5, <1>6, <2>2 DEF Least
  <2>4. ASSUME put[2] # << >> PROVE Len(put[1]) = BufferSize
    <3>1. Len(two) # 0
      BY <1>6, <1>9, <2>4
    <3> QED  BY <1>1, <1>3, <1>5, <1>6, <2>2, <3>1 DEF Least
  <2> QED  BY <2>1, <2>3, <2>4 DEF FirstLevelOK
<1>11. ASSUME NEW i \in DOMAIN entries
       PROVE  \E r \in {1, 2} : \E j \in DOMAIN put[r] : put[r][j] = entries[i]
  <2>0. i \in 1 .. Len(entries) /\ Len(one) \in Nat
    BY <1>6
  <2>1. CASE i <= Len(one)
    <3>1. n1 + i \in 1 .. (n1 + Len(one))
      BY <1>3, <2>0, <2>1
    <3>2. n1 + i \in DOMAIN put[1] /\ put[1][n1 + i] = entries[i]
      BY <1>6, <1>8, <1>9, <2>0, <2>1, <3>1
    <3> QED  BY <3>2
  <2>2. CASE i > Len(one)
    <3>1. i - Len(one) \in 1 .. Len(two) /\ Len(one) + (i - Len(one)) = i
      BY <1>5, <1>6, <2>0, <2>2
    <3>2. i - Len(one) \in DOMAIN put[2] /\ put[2][i - Len(one)] = entries[i]
      BY <1>6, <1>9, <3>1
    <3> QED  BY <3>2
  <2> QED  BY <2>0, <2>1, <2>2
<1> QED  BY <1>10, <1>11 DEF put

\* A flush puts the live entries of the buffer in the first level.
LEMMA FlushedBuffer ==
  ASSUME BufferOK(lsmbuffer), ~HasRoom(lsmbuffer), NEW level, FirstLevelOK(level)
  PROVE  /\ FirstLevelOK(BufferInto(level))
         /\ \A k \in DOMAIN lsmbuffer :
              lsmbuffer[k] # Deleted => Holds(BufferInto(level), k, lsmbuffer[k])
<1> DEFINE E == GetEntries(lsmbuffer)
           After == BufferInto(level)
<1>1. /\ E \in Seq(EntryOf) /\ Len(E) = BufferSize
      /\ \A k \in DOMAIN lsmbuffer : \E n \in DOMAIN E :
           E[n] = [key |-> k, val |-> lsmbuffer[k]]
  BY FullBufferEntries
<1>2. BufferSize \in Nat
  BY TreeAssumption
<1> HIDE DEF E
<1>3. CASE LevelEmpty(level, BufferSize)
  <2>1. After = LevelPut(level, BufferSize, E)
    BY <1>3, FirstRunSize DEF BufferInto, E
  <2> HIDE DEF After
  <2>2. FirstLevelOK(After)
    BY <1>1, <1>2, <1>3, <2>1, PutKeepsAll
  <2>3. \A i \in DOMAIN E : \E r \in {1, 2} : \E j \in DOMAIN After[r] : After[r][j] = E[i]
    BY <1>1, <1>2, <1>3, <2>1, PutKeepsAll
  <2>4. \A k \in DOMAIN lsmbuffer : Holds(After, k, lsmbuffer[k])
    BY <1>1, <2>3 DEF Holds
  <2> QED  BY <2>2, <2>4 DEF After
<1>4. CASE ~LevelEmpty(level, BufferSize)
  <2> DEFINE D == Drain(E)
  <2>1. E \o LevelRead(level) = E
    <3>1. LevelRead(level) = << >>
      BY DEF LevelRead, SingleRunRead
    <3> QED  BY <1>1, <3>1
  <2>2. After = LevelPut(NoRuns, BufferSize, D)
    BY <1>4, <2>1, FirstRunSize DEF BufferInto, E
  <2> HIDE DEF After
  <2>3. /\ D \in Seq(EntryOf) /\ Len(D) <= BufferSize
        /\ \A i \in LivePlaces(E) : \E n \in DOMAIN D : D[n] = E[i]
    BY <1>1, DrainProperties
  <2> HIDE DEF D
  <2>4. FirstLevelOK(After)
    BY <2>2, <2>3, NoRunsOK, PutKeepsAll
  <2>5. \A i \in DOMAIN D : \E r \in {1, 2} : \E j \in DOMAIN After[r] : After[r][j] = D[i]
    BY <2>2, <2>3, NoRunsOK, PutKeepsAll
  <2>6. ASSUME NEW k \in DOMAIN lsmbuffer, lsmbuffer[k] # Deleted
        PROVE  Holds(After, k, lsmbuffer[k])
    <3>1. PICK i \in DOMAIN E : E[i] = [key |-> k, val |-> lsmbuffer[k]]
      BY <1>1
    <3>2. i \in LivePlaces(E)
      BY <2>6, <3>1 DEF LivePlaces
    <3>3. PICK n \in DOMAIN D : D[n] = E[i]
      BY <2>3, <3>2
    <3> QED  BY <2>5, <3>1, <3>3 DEF Holds
  <2> QED  BY <2>4, <2>6 DEF After
<1> QED  BY <1>3, <1>4

\* Besides the property: buffer and first level hold entries and keep within their
\* sizes, and the second run is not used before the first is full.
LSMInv ==
  /\ BufferOK(lsmbuffer) /\ DOMAIN lsmgiven \subseteq Key
  /\ lsmstatus \in {"running", "undefined"}
  /\ DOMAIN Levels = Level /\ FirstLevelOK(Levels[0])
  /\ DeepLevelsEmpty

\* A level whose runs were never filled is not full, so the walk of FlushInto ends
\* at the first or the second level.
LEMMA DepthIsSmall ==
  ASSUME NEW levels, NumLevels > 1, levels[1] = NoRuns
  PROVE  Depth(levels) \in {0, 1}
<1> DEFINE P(d) == /\ \A i \in 0 .. (d - 1) : LevelFull(levels[i])
                   /\ d = NumLevels \/ ~LevelFull(levels[d])
<1>1. NumLevels \in Nat
  BY TreeAssumption
<1>2. ~LevelFull(levels[1])
  BY DEF LevelFull, IsFull, NoRuns, EmptyRun
<1>3. \E d \in 0 .. NumLevels : P(d)
  <2>1. CASE LevelFull(levels[0])
    <3>1. \A i \in 0 .. (1 - 1) : i = 0
      OBVIOUS
    <3> QED  BY <1>1, <1>2, <2>1, <3>1
  <2>2. CASE ~LevelFull(levels[0])
    <3>1. P(0)
      BY <2>2
    <3> QED  BY <1>1, <3>1
  <2> QED  BY <2>1, <2>2
<1>4. Depth(levels) = CHOOSE d \in 0 .. NumLevels : P(d)
  BY DEF Depth
<1>5. Depth(levels) \in 0 .. NumLevels /\ P(Depth(levels))
  BY <1>3, <1>4
<1>6. ~(Depth(levels) > 1)
  <2>1. SUFFICES ASSUME Depth(levels) > 1 PROVE FALSE
    OBVIOUS
  <2>2. 1 \in 0 .. (Depth(levels) - 1)
    BY <1>1, <1>5, <2>1
  <2> QED  BY <1>2, <1>5, <2>2
<1> QED  BY <1>1, <1>5, <1>6

\* Nothing comes out of a level that is read, so nothing is put in the next.
LEMMA MergeOfNothing ==
  ASSUME NEW a, NEW b
  PROVE  LevelPut(NoRuns, RunSize(1), Drain(LevelRead(a) \o LevelRead(b))) = NoRuns
<1>1. LevelRead(a) \o LevelRead(b) = << >>
  BY DEF LevelRead, SingleRunRead
<1>2. Drain(LevelRead(a) \o LevelRead(b)) = << >>
  <2>1. << >> \in Seq(EntryOf) /\ Len(<< >>) = 0
    OBVIOUS
  <2>2. Drain(<< >>) \in Seq(EntryOf) /\ Len(Drain(<< >>)) <= 0
    BY <2>1, DrainProperties
  <2>3. \A s \in Seq(EntryOf) : Len(s) <= 0 => s = << >>
    OBVIOUS
  <2> QED  BY <1>1, <2>2, <2>3
<1>3. RunSize(1) \in Nat
  <2>1. 2^1 \in Nat
    OBVIOUS
  <2> QED  BY <2>1, TreeAssumption DEF RunSize
<1> DEFINE max == RunSize(1)
<1>4. ToFirst(0, max, << >>) = << >>
  BY <1>3 DEF ToFirst, Least
<1>5. ToSecond(0, 0, max, << >>) = << >>
  BY <1>3 DEF ToSecond, Least
<1>6. NoRuns[1] = << >> /\ NoRuns[2] = << >> /\ Len(<< >>) = 0 /\ << >> \o << >> = << >>
  BY DEF NoRuns, EmptyRun
<1> HIDE DEF max
<1>7. LevelPut(NoRuns, max, << >>) = << << >>, << >> >>
  BY <1>4, <1>5, <1>6 DEF LevelPut
<1> QED  BY <1>2, <1>7 DEF NoRuns, EmptyRun, max

\* A flush of the first level leaves all below it empty.
LEMMA FlushMovesNothing ==
  ASSUME LSMInv, NEW i \in Level \ {0}
  PROVE  FlushInto(Levels)[i] = NoRuns
<1>1. NumLevels \in Nat /\ NumLevels > 1 /\ i \in Nat /\ i > 0
  BY TreeAssumption DEF Level
<1>2. 1 \in Level \ {0}
  BY <1>1 DEF Level
<1>3. Levels[1] = NoRuns /\ Levels[i] = NoRuns
  BY <1>2 DEF LSMInv, DeepLevelsEmpty
<1>4. Depth(Levels) \in {0, 1}
  BY <1>1, <1>3, DepthIsSmall
<1> DEFINE d == Depth(Levels)
           Stays(j) == IF j = d THEN Levels[j] ELSE NoRuns
           Merged(j) == LevelPut(NoRuns, RunSize(j),
                                 Drain(LevelRead(Levels[j - 1]) \o LevelRead(Stays(j))))
<1>5. FlushInto(Levels)[i] = IF d = 0 \/ i > d THEN Levels[i]
                             ELSE IF i = 0 THEN NoRuns ELSE Merged(i)
  BY DEF FlushInto
<1> HIDE DEF d
<1>6. CASE d = 0 \/ i > d
  BY <1>3, <1>5, <1>6
<1>7. CASE ~(d = 0 \/ i > d)
  <2>1. i = 1
    BY <1>1, <1>4, <1>7 DEF d
  <2>2. Merged(1) = NoRuns
    BY MergeOfNothing
  <2> QED  BY <1>5, <1>7, <2>1, <2>2
<1> QED  BY <1>6, <1>7

LEMMA PutKeepsLSM ==
  ASSUME LSMInv, NEW k \in Key, NEW v \in AnyValue, PutValue(k, v)
  PROVE  LSMInv'
<1>1. /\ BufferOK(lsmbuffer) /\ DOMAIN lsmgiven \subseteq Key
      /\ DOMAIN Levels = Level /\ FirstLevelOK(Levels[0]) /\ DeepLevelsEmpty
      /\ lsmstatus \in {"running", "undefined"}
  BY DEF LSMInv
<1>2. DOMAIN Put(lsmgiven, k, v) \subseteq Key
  BY <1>1 DEF Put
<1>3. 0 \in Level
  BY TreeAssumption DEF Level
<1>4. CASE PutInBuffer(k, v)
  <2>1. BufferOK(lsmbuffer')
    <3>1. BufferOK(Put(lsmbuffer, k, v))
      BY <1>1, <1>4, PutInRoom DEF PutInBuffer
    <3> QED  BY <1>4, <3>1 DEF PutInBuffer
  <2> QED  BY <1>1, <1>2, <1>4, <2>1 DEF PutInBuffer, LSMInv, DeepLevelsEmpty, FirstLevelOK,
                                         BufferOK
<1>5. CASE PutAfterFlush(k, v) /\ Depth(Levels) = NumLevels
  <2>1. lsmstatus' = "undefined" /\ UNCHANGED <<lsmbuffer, Levels, lsmgiven>>
    BY <1>5 DEF PutAfterFlush
  <2>2. ~(NumLevels > 1)
    <3>1. SUFFICES ASSUME NumLevels > 1 PROVE FALSE
      OBVIOUS
    <3>2. 1 \in Level \ {0}
      BY <3>1, TreeAssumption DEF Level
    <3>3. Levels[1] = NoRuns
      BY <1>1, <3>2 DEF DeepLevelsEmpty
    <3>4. Depth(Levels) \in {0, 1}
      BY <3>1, <3>3, DepthIsSmall
    <3> QED  BY <1>5, <3>1, <3>4, TreeAssumption
  <2> QED  BY <1>1, <2>1, <2>2 DEF LSMInv, DeepLevelsEmpty, FirstLevelOK, BufferOK
<1>6. CASE PutAfterFlush(k, v) /\ Depth(Levels) # NumLevels
  <2> DEFINE flushed == FlushInto(Levels)
             first == BufferInto(flushed[0])
  <2>1. /\ ~HasRoom(lsmbuffer)
        /\ Levels' = [flushed EXCEPT ![0] = first]
        /\ lsmbuffer' = Put(EmptyBuffer, k, v)
        /\ lsmgiven' = Put(lsmgiven, k, v) /\ lsmstatus' = lsmstatus
    BY <1>6 DEF PutAfterFlush, AllClear
  <2>2. DOMAIN flushed = Level
    BY DEF FlushInto
  <2>3. FirstLevelOK(flushed[0])
    <3>1. flushed[0] = Levels[0] \/ flushed[0] = NoRuns
      BY <1>3 DEF FlushInto
    <3> HIDE DEF flushed
    <3> QED  BY <1>1, <3>1, NoRunsOK
  <2>4. \A i \in Level \ {0} : flushed[i] = NoRuns
    BY FlushMovesNothing
  <2> HIDE DEF flushed
  <2>5. FirstLevelOK(first)
    BY <1>1, <2>1, <2>3, FlushedBuffer
  <2> HIDE DEF first
  <2>6. DOMAIN Levels' = Level /\ Levels'[0] = first /\ \A i \in Level \ {0} : Levels'[i] = NoRuns
    BY <1>3, <2>1, <2>2, <2>4
  <2>7. FirstLevelOK(Levels'[0])
    BY <2>5, <2>6
  <2>8. BufferOK(lsmbuffer')
    BY <2>1, PutInEmpty
  <2> QED  BY <1>1, <1>2, <2>1, <2>6, <2>7, <2>8 DEF LSMInv, DeepLevelsEmpty, FirstLevelOK, BufferOK
<1> QED  BY <1>4, <1>5, <1>6 DEF PutValue

LEMMA InitEstablishesLSM == LSMInit => LSMInv
<1> SUFFICES ASSUME LSMInit PROVE LSMInv
  OBVIOUS
<1>1. 0 \in Level
  BY TreeAssumption DEF Level
<1>2. Levels[0] = NoRuns /\ DOMAIN Levels = Level /\ \A i \in Level : Levels[i] = NoRuns
  BY <1>1 DEF LSMInit
<1>3. DOMAIN lsmgiven \subseteq Key
  BY DEF LSMInit, EmptyBuffer
<1> QED  BY <1>2, <1>3, NoRunsOK, EmptyBufferOK DEF LSMInit, LSMInv, DeepLevelsEmpty

\* A step is a put or changes nothing.
LEMMA StepIsPut ==
  ASSUME LSMNext
  PROVE  \E k \in Key : \E v \in AnyValue : PutValue(k, v)
BY DEF LSMNext, UpdateValue, DeleteValue, AnyValue

LEMMA NextKeepsLSM == LSMInv /\ [LSMNext]_lsmvars => LSMInv'
<1> SUFFICES ASSUME LSMInv, [LSMNext]_lsmvars PROVE LSMInv'
  OBVIOUS
<1>1. CASE LSMNext
  BY <1>1, StepIsPut, PutKeepsLSM
<1>2. CASE UNCHANGED lsmvars
  BY <1>2 DEF lsmvars, LSMInv, DeepLevelsEmpty, FirstLevelOK, BufferOK
<1> QED  BY <1>1, <1>2

\* LSMTypeOK holds: PutValue keeps buffer and runs within their sizes and never uses
\* the second run of a level before the first is full.
THEOREM LSMTypesAreKept == LSMSpec => []LSMTypeOK
<1>1. LSMInv => LSMTypeOK
  <2> SUFFICES ASSUME LSMInv PROVE LSMTypeOK
    OBVIOUS
  <2>1. BufferOK(lsmbuffer) /\ FirstLevelOK(Levels[0]) /\ \A i \in Level \ {0} : Levels[i] = NoRuns
    BY DEF LSMInv, DeepLevelsEmpty
  <2>2. ASSUME NEW i \in Level
        PROVE  /\ \A r \in {1, 2} : \A j \in DOMAIN Levels[i][r] : Levels[i][r][j] \in EntryOf
               /\ Len(Levels[i][1]) <= RunSize(i) /\ Len(Levels[i][2]) <= RunSize(i)
               /\ Levels[i][2] # << >> => Len(Levels[i][1]) = RunSize(i)
    <3>1. CASE i = 0
      BY <2>1, <3>1, FirstRunSize, ElementOfSeq DEF FirstLevelOK
    <3>2. CASE i # 0
      <4>1. Levels[i] = NoRuns /\ NoRuns[1] = << >> /\ NoRuns[2] = << >>
        BY <2>1, <3>2 DEF NoRuns, EmptyRun
      <4>2. 0 <= RunSize(i)
        BY RunSizeType
      <4> QED  BY <4>1, <4>2
    <3> QED  BY <3>1, <3>2
  <2> QED  BY <2>1, <2>2 DEF LSMTypeOK, LSMInv, BufferOK
<1> QED  BY <1>1, InitEstablishesLSM, NextKeepsLSM, PTL DEF LSMSpec

\* DeepLevelsEmpty holds: what FlushInto merges into the next level is what LevelRead
\* gives, which is nothing, so its walk ends at the second level at the latest.
THEOREM DeepLevelsStayEmpty == LSMSpec => []DeepLevelsEmpty
<1>1. LSMInv => DeepLevelsEmpty
  BY DEF LSMInv
<1> QED  BY <1>1, InitEstablishesLSM, NextKeepsLSM, PTL DEF LSMSpec

\* FlushKeepsBuffer holds: when PutValue flushes, Level::PutValue has room for all the
\* buffer gives in the first level's two runs, whether it is merged or put behind.
THEOREM FlushesLoseNothing == LSMSpec => FlushKeepsBuffer
<1> DEFINE Kept == \A k \in DOMAIN lsmbuffer \ DOMAIN lsmbuffer' :
                     lsmbuffer[k] # Deleted => Holds(Levels'[0], k, lsmbuffer[k])
<1>1. LSMInv /\ [LSMNext]_lsmvars => [Kept]_lsmvars
  <2> SUFFICES ASSUME LSMInv, LSMNext PROVE Kept
    OBVIOUS
  <2>1. PICK k \in Key : \E v \in AnyValue : PutValue(k, v)
    BY StepIsPut
  <2>2. PICK v \in AnyValue : PutValue(k, v)
    BY <2>1
  <2>3. CASE PutInBuffer(k, v)
    <3>1. DOMAIN lsmbuffer \subseteq DOMAIN lsmbuffer'
      BY <2>3 DEF PutInBuffer, Put
    <3> QED  BY <3>1
  <2>4. CASE PutAfterFlush(k, v) /\ Depth(Levels) = NumLevels
    BY <2>4 DEF PutAfterFlush
  <2>5. CASE PutAfterFlush(k, v) /\ Depth(Levels) # NumLevels
    <3> DEFINE flushed == FlushInto(Levels)
               first == BufferInto(flushed[0])
    <3>1. ~HasRoom(lsmbuffer) /\ Levels' = [flushed EXCEPT ![0] = first]
      BY <2>5 DEF PutAfterFlush
    <3>2. BufferOK(lsmbuffer) /\ FirstLevelOK(Levels[0])
      BY DEF LSMInv
    <3>3. 0 \in Level
      BY TreeAssumption DEF Level
    <3>4. DOMAIN flushed = Level /\ (flushed[0] = Levels[0] \/ flushed[0] = NoRuns)
      BY <3>3 DEF FlushInto
    <3> HIDE DEF flushed
    <3>5. FirstLevelOK(flushed[0])
      BY <3>2, <3>4, NoRunsOK
    <3>6. \A j \in DOMAIN lsmbuffer : lsmbuffer[j] # Deleted => Holds(first, j, lsmbuffer[j])
      BY <3>1, <3>2, <3>5, FlushedBuffer
    <3> HIDE DEF first
    <3>7. Levels'[0] = first
      BY <3>1, <3>3, <3>4
    <3> QED  BY <3>6, <3>7
  <2> QED  BY <2>2, <2>3, <2>4, <2>5 DEF PutValue
<1> HIDE DEF Kept
<1>2. LSMSpec => [][Kept]_lsmvars
  BY <1>1, InitEstablishesLSM, NextKeepsLSM, PTL DEF LSMSpec
<1> QED  BY <1>2, PTL DEF FlushKeepsBuffer, Kept

-----------------------------------------------------------------------------
(* Lookups in it.                                                          *)

\* The null pointer is no value, and no more than one answer is taken.
LEMMA NullIsNoValue == NullPointer \notin AnyValue
BY TreeAssumption DEF NullPointer, AnyValue, Deleted

\* A lookup of one run, or of some, says that there is nothing, or gives values.
NothingOrValues(answer) == answer = {NullPointer} \/ answer \subseteq AnyValue

\* A lookup that goes on after the null pointer gives a value if any run does.
LEMMA FirstAnswerKinds ==
  ASSUME NEW n \in Nat, NEW answers, DOMAIN answers = 1 .. n,
         \A i \in 1 .. n : NothingOrValues(answers[i])
  PROVE  /\ NothingOrValues(FirstAnswer(answers))
         /\ (\E i \in 1 .. n : answers[i] # {NullPointer}) => FirstAnswer(answers) \subseteq AnyValue
<1> DEFINE given == {i \in DOMAIN answers : answers[i] # {NullPointer}}
           first == CHOOSE i \in given : \A j \in given : i <= j
<1>1. FirstAnswer(answers) = IF given = {} THEN {NullPointer} ELSE answers[first]
  BY DEF FirstAnswer
<1>2. CASE given = {}
  BY <1>1, <1>2 DEF NothingOrValues
<1>3. CASE given # {}
  <2>1. given \in SUBSET Nat
    OBVIOUS
  <2>2. \E i \in given : \A j \in given : i <= j
    <3> HIDE DEF given
    <3> QED  BY <1>3, <2>1, LeastOfNats
  <2>3. first \in given
    <3> HIDE DEF given
    <3> QED  BY <2>2
  <2> HIDE DEF first
  <2>4. answers[first] \subseteq AnyValue
    BY <2>3 DEF NothingOrValues
  <2> QED  BY <1>1, <1>3, <2>4 DEF NothingOrValues
<1> QED  BY <1>2, <1>3

LEMMA FoundInValues ==
  ASSUME NEW entries \in Seq(EntryOf), NEW k
  PROVE  FoundIn(entries, k) \subseteq AnyValue
<1>1. CASE k \notin KeysOf(entries)
  BY <1>1 DEF FoundIn
<1>2. CASE k \in KeysOf(entries)
  <2> DEFINE B == {i \in DOMAIN entries : entries[i].key = k}
             First(i) == entries[i].key = k /\ \A j \in 1 .. (i - 1) : entries[j].key # k
             f == CHOOSE i \in DOMAIN entries : First(i)
  <2>1. B \in SUBSET Nat /\ B # {}
    BY <1>2 DEF KeysOf
  <2>2. PICK i \in B : \A j \in B : i <= j
    <3> HIDE DEF B
    <3> QED  BY <2>1, LeastOfNats
  <2>3. i \in 1 .. Len(entries) /\ entries[i].key = k
    OBVIOUS
  <2>4. \A j \in 1 .. (i - 1) : entries[j].key # k
    <3>1. SUFFICES ASSUME NEW j \in 1 .. (i - 1), entries[j].key = k PROVE FALSE
      OBVIOUS
    <3>2. j \in B /\ ~(i <= j)
      BY <2>3, <3>1
    <3> QED  BY <2>2, <3>2
  <2>5. f \in DOMAIN entries
    BY <2>3, <2>4
  <2>6. FoundIn(entries, k) = {entries[f].val}
    BY <1>2, Zenon DEF FoundIn
  <2> HIDE DEF f
  <2>7. entries[f] \in EntryOf
    BY <2>5, ElementOfSeq
  <2> QED  BY <2>6, <2>7 DEF EntryOf
<1> QED  BY <1>1, <1>2

LEMMA RunAnswersKinds ==
  ASSUME NEW run \in Seq(EntryOf), NEW k
  PROVE  /\ NothingOrValues(RunAnswers(run, k))
         /\ k \in KeysOf(run) => RunAnswers(run, k) \subseteq AnyValue
<1>1. NothingOrValues(RunAnswers(run, k))
  BY FoundInValues DEF RunAnswers, NothingOrValues
<1>2. ASSUME k \in KeysOf(run) PROVE RunAnswers(run, k) \subseteq AnyValue
  <2>1. run # << >>
    BY <1>2 DEF KeysOf
  <2>2. k \in Nat
    <3>1. PICK i \in DOMAIN run : run[i].key = k
      BY <1>2 DEF KeysOf
    <3>2. run[i] \in EntryOf
      BY <3>1, ElementOfSeq
    <3> QED  BY <3>1, <3>2, TreeAssumption DEF EntryOf
  <2>3. ~OutOfFences(run, k)
    BY <1>2, <2>2 DEF OutOfFences
  <2> QED  BY <2>1, <2>3, FoundInValues DEF RunAnswers
<1> QED  BY <1>1, <1>2

LEMMA LevelAnswersKinds ==
  ASSUME NEW level, level[1] \in Seq(EntryOf), level[2] \in Seq(EntryOf), NEW k
  PROVE  /\ NothingOrValues(LevelAnswers(level, k))
         /\ k \in KeysOf(level[1]) \cup KeysOf(level[2]) => LevelAnswers(level, k) \subseteq AnyValue
<1> DEFINE answers == [r \in {1, 2} |-> RunAnswers(level[r], k)]
<1>1. DOMAIN answers = 1 .. 2 /\ 2 \in Nat
  OBVIOUS
<1>2. answers[1] = RunAnswers(level[1], k) /\ answers[2] = RunAnswers(level[2], k)
  OBVIOUS
<1>3. LevelAnswers(level, k) = FirstAnswer(answers)
  BY DEF LevelAnswers
<1> HIDE DEF answers
<1>4. \A i \in 1 .. 2 : NothingOrValues(answers[i])
  BY <1>2, RunAnswersKinds
<1>5. ASSUME k \in KeysOf(level[1]) \cup KeysOf(level[2])
      PROVE  \E i \in 1 .. 2 : answers[i] # {NullPointer}
  <2>1. answers[1] \subseteq AnyValue \/ answers[2] \subseteq AnyValue
    BY <1>2, <1>5, RunAnswersKinds
  <2> QED  BY <2>1, NullIsNoValue
<1> QED  BY <1>1, <1>3, <1>4, <1>5, FirstAnswerKinds

\* NeverMissesHeld holds: a run whose fences exclude a key does not hold it, so GetValue
\* never answers with the null pointer for a key that is there.
THEOREM LookupsMissNothing == LSMSpec => []NeverMissesHeld
<1>1. LSMInv => NeverMissesHeld
  <2> SUFFICES ASSUME LSMInv, NEW k \in Key, NullPointer \in GetValue(k)
               PROVE  /\ k \notin DOMAIN lsmbuffer
                      /\ \A i \in Level, r \in {1, 2} : k \notin KeysOf(Levels[i][r])
    BY DEF NeverMissesHeld
  <2>1. /\ BufferOK(lsmbuffer) /\ FirstLevelOK(Levels[0])
        /\ \A i \in Level \ {0} : Levels[i] = NoRuns
    BY DEF LSMInv, DeepLevelsEmpty
  <2>2. k \notin DOMAIN lsmbuffer
    BY <2>1, NullIsNoValue DEF BufferOK, GetValue, BufferGet
  <2> DEFINE answers == [i \in 1 .. NumLevels |-> LevelAnswers(Levels[i - 1], k)]
  <2>3. GetValue(k) = FirstAnswer(answers)
    BY <2>2 DEF GetValue, BufferGet
  <2>4. NumLevels \in Nat /\ \A i \in 1 .. NumLevels : i - 1 \in Level
    BY TreeAssumption DEF Level
  <2>5. \A i \in Level : Levels[i][1] \in Seq(EntryOf) /\ Levels[i][2] \in Seq(EntryOf)
    <3>1. NoRuns[1] = << >> /\ NoRuns[2] = << >> /\ << >> \in Seq(EntryOf)
      BY DEF NoRuns, EmptyRun
    <3> QED  BY <2>1, <3>1 DEF FirstLevelOK
  <2>6. \A i \in 1 .. NumLevels : NothingOrValues(answers[i])
    BY <2>4, <2>5, LevelAnswersKinds
  <2>7. ASSUME NEW i \in Level, NEW r \in {1, 2}, k \in KeysOf(Levels[i][r]) PROVE FALSE
    <3>1. LevelAnswers(Levels[i], k) \subseteq AnyValue
      BY <2>5, <2>7, LevelAnswersKinds
    <3>2. i + 1 \in 1 .. NumLevels /\ (i + 1) - 1 = i
      BY TreeAssumption DEF Level
    <3>3. answers[i + 1] = LevelAnswers(Levels[i], k)
      BY <3>2
    <3>4. DOMAIN answers = 1 .. NumLevels
      OBVIOUS
    <3> HIDE DEF answers
    <3>5. answers[i + 1] # {NullPointer}
      BY <3>1, <3>3, NullIsNoValue
    <3>6. FirstAnswer(answers) \subseteq AnyValue
      BY <2>4, <2>6, <3>2, <3>4, <3>5, FirstAnswerKinds
    <3> QED  BY <2>3, <3>6, NullIsNoValue
  <2> QED  BY <2>2, <2>7
<1> QED  BY <1>1, InitEstablishesLSM, NextKeepsLSM, PTL DEF LSMSpec

-----------------------------------------------------------------------------
(* The tree without the FTL.                                               *)

\* A run of n entries: those in memory, those on the device.
RunOf(n, data, page) == [size |-> n, Rundata |-> data, page |-> page]

\* The first level after a flush: its first run is on the device, its second in memory.
Flushed(P, d) == << RunOf(BufferSize, << >>, P), RunOf(Len(d), d, << >>) >>

\* What the coordinator has written: a whole run, of the keys 1, 2, 3, ...
Written(P) == P \in Seq(EntryOf) /\ Len(P) = BufferSize /\ Accepted(P)

\* Nothing has been flushed yet, or one run is on the device.
FirstRuns(level) ==
  \/ level = NewLevel
  \/ \E P, d \in Seq(EntryOf) : Written(P) /\ Len(d) < BufferSize /\ level = Flushed(P, d)

HasEntry(entries, k, v) == \E j \in DOMAIN entries : entries[j] = [key |-> k, val |-> v]
KeptIn(level, k, v) == HasEntry(level[1].page, k, v) \/ HasEntry(level[2].Rundata, k, v)

\* A key that is not in the buffer and whose last value is live is in the run on the
\* device or in the second one, in memory.
KVInv ==
  /\ kvstatus \in {"running", "exited"}
  /\ BufferOK(kvbuffer)
  /\ DOMAIN KVLevels = Level
  /\ \A i \in Level \ {0} : KVLevels[i] = NewLevel
  /\ FirstRuns(KVLevels[0])
  /\ DOMAIN kvgiven \subseteq Key
  /\ \A k \in DOMAIN kvbuffer : k \in DOMAIN kvgiven /\ kvbuffer[k] = kvgiven[k]
  /\ \A k \in DOMAIN kvgiven \ DOMAIN kvbuffer :
       kvgiven[k] # Deleted => KeptIn(KVLevels[0], k, kvgiven[k])

LEMMA RunOfParts ==
  ASSUME NEW n, NEW d, NEW p
  PROVE  /\ RunOf(n, d, p).size = n /\ RunOf(n, d, p).Rundata = d /\ RunOf(n, d, p).page = p
         /\ Reset(RunOf(n, d, p)) = RunOf(0, << >>, p)
BY DEF RunOf, Reset

LEMMA NewLevelParts ==
  /\ NewLevel = << RunOf(0, << >>, << >>), RunOf(0, << >>, << >>) >>
  /\ ResetLevel(NewLevel) = NewLevel
  /\ \A r \in {1, 2} : NewLevel[r] = RunOf(0, << >>, << >>)
<1>1. NewLevel = << RunOf(0, << >>, << >>), RunOf(0, << >>, << >>) >>
  BY DEF NewLevel, NewRun, RunOf
<1>2. ResetLevel(NewLevel) = << Reset(NewLevel[1]), Reset(NewLevel[2]) >>
  BY DEF ResetLevel
<1>3. NewLevel[1] = RunOf(0, << >>, << >>) /\ NewLevel[2] = RunOf(0, << >>, << >>)
  BY <1>1
<1> QED  BY <1>1, <1>2, <1>3, RunOfParts

LEMMA FlushedParts ==
  ASSUME NEW P, NEW d
  PROVE  /\ Flushed(P, d)[1] = RunOf(BufferSize, << >>, P)
         /\ Flushed(P, d)[2] = RunOf(Len(d), d, << >>)
         /\ ResetLevel(Flushed(P, d)) = << RunOf(0, << >>, P), RunOf(0, << >>, << >>) >>
BY RunOfParts DEF Flushed, ResetLevel

\* A run that is empty and is given entries has them on the device if it is full now,
\* or else in memory.
LEMMA GrownFromEmpty ==
  ASSUME NEW p, NEW max \in Nat \ {0}, NEW e \in Seq(EntryOf)
  PROVE  Grown(RunOf(0, << >>, p), max, e) =
           IF Len(e) = max THEN RunOf(max, << >>, e) ELSE RunOf(Len(e), e, p)
<1> DEFINE run == RunOf(0, << >>, p)
<1>1. run.size = 0 /\ run.Rundata = << >>
  BY RunOfParts
<1>2. << >> \o e = e /\ Len(e) \in Nat
  OBVIOUS
<1>3. Grown(run, max, e) =
        IF Len(e) = max THEN [size |-> max, Rundata |-> << >>, page |-> e]
        ELSE [size |-> Len(e), Rundata |-> e, page |-> p]
  <2>1. run.page = p
    BY RunOfParts
  <2>2. 0 < max /\ 0 + Len(e) = Len(e)
    BY <1>2
  <2> HIDE DEF run
  <2>3. run.Rundata \o e = e
    BY <1>1, <1>2
  <2>4. (run.size < max /\ run.size + Len(e) = max) <=> Len(e) = max
    BY <1>1, <2>2
  <2>5. run.size + Len(e) = Len(e)
    BY <1>1, <2>2
  <2> QED  BY <1>1, <2>1, <2>3, <2>4, <2>5, Zenon DEF Grown
<1> QED  BY <1>3 DEF RunOf

\* The first run is filled first.
Splits(e, max, one, two) ==
  /\ Len(one) = Least(max, Len(e)) /\ Len(two) = Len(e) - Len(one)
  /\ \A i \in 1 .. Len(one) : one[i] = e[i]
  /\ \A i \in 1 .. Len(two) : two[i] = e[Len(one) + i]

\* A level whose runs were empty, and had these pages, when it is given entries.
GrownLevel(max, one, p, two, q) ==
  << IF Len(one) = max THEN RunOf(max, << >>, one) ELSE RunOf(Len(one), one, p),
     IF Len(two) = max THEN RunOf(max, << >>, two) ELSE RunOf(Len(two), two, q) >>

LEMMA PutInEmptyLevel ==
  ASSUME NEW p, NEW q, NEW max \in Nat \ {0}, NEW e \in Seq(EntryOf), Len(e) <= 2 * max
  PROVE  \E one, two \in Seq(EntryOf) :
           /\ Splits(e, max, one, two)
           /\ KVLevelPut(<< RunOf(0, << >>, p), RunOf(0, << >>, q) >>, max, e) =
                GrownLevel(max, one, p, two, q)
<1> DEFINE one == ToFirst(0, max, e)
           two == ToSecond(0, 0, max, e)
           level == << RunOf(0, << >>, p), RunOf(0, << >>, q) >>
<1>1. Len(e) \in Nat /\ 0 \in 0 .. max /\ Len(e) <= (max - 0) + (max - 0) /\ max - 0 = max
  OBVIOUS
<1>2. /\ one \in Seq(EntryOf) /\ two \in Seq(EntryOf)
      /\ Len(one) = Least(max, Len(e)) /\ Len(two) = Len(e) - Len(one)
      /\ \A i \in 1 .. Len(one) : one[i] = e[i]
      /\ \A i \in 1 .. Len(two) : two[i] = e[Len(one) + i]
  <2>1. max \in Nat /\ 0 \in 0 .. max
    OBVIOUS
  <2>2. /\ one \in Seq(EntryOf) /\ two \in Seq(EntryOf)
        /\ Len(one) = Least(max - 0, Len(e)) /\ Len(two) = Len(e) - Len(one)
        /\ \A i \in 1 .. Len(one) : one[i] = e[i]
        /\ \A i \in 1 .. Len(two) : two[i] = e[Len(one) + i]
    BY <1>1, <2>1, RoomForAll
  <2> HIDE DEF one, two
  <2> QED  BY <1>1, <2>2
<1>3. level[1] = RunOf(0, << >>, p) /\ level[2] = RunOf(0, << >>, q)
  OBVIOUS
<1>4. level[1].size = 0 /\ level[2].size = 0
  BY <1>3, RunOfParts
<1>5. KVLevelPut(level, max, e) = << Grown(level[1], max, one), Grown(level[2], max, two) >>
  BY <1>4 DEF KVLevelPut
<1> HIDE DEF one, two, level
<1>6. KVLevelPut(level, max, e) = GrownLevel(max, one, p, two, q)
  BY <1>2, <1>3, <1>5, GrownFromEmpty DEF GrownLevel
<1>7. Splits(e, max, one, two)
  BY <1>2 DEF Splits
<1> QED  BY <1>2, <1>6, <1>7 DEF level

-----------------------------------------------------------------------------
\* The walk of FlushInto ends at the first level that is not full.
LEMMA KVDepthIs ==
  /\ ~KVLevelFull(KVLevels[0]) => KVDepth = 0
  /\ KVLevelFull(KVLevels[0]) /\ NumLevels > 1 /\ ~KVLevelFull(KVLevels[1]) => KVDepth = 1
  /\ KVLevelFull(KVLevels[0]) /\ NumLevels = 1 => KVDepth = 1
<1> DEFINE P(d) == /\ \A i \in 0 .. (d - 1) : KVLevelFull(KVLevels[i])
                   /\ d = NumLevels \/ ~KVLevelFull(KVLevels[d])
<1>1. NumLevels \in Nat \ {0}
  BY TreeAssumption
<1>2. ASSUME NEW d \in 0 .. NumLevels, P(d)
      PROVE  KVDepth \in 0 .. NumLevels /\ P(KVDepth)
  BY <1>2, Zenon DEF KVDepth
<1>3. ASSUME ~KVLevelFull(KVLevels[0]) PROVE KVDepth = 0
  <2>1. 0 \in 0 .. NumLevels /\ P(0)
    BY <1>1, <1>3
  <2>2. KVDepth \in 0 .. NumLevels /\ P(KVDepth)
    BY <1>2, <2>1
  <2>3. ~(KVDepth > 0)
    <3>1. SUFFICES ASSUME KVDepth > 0 PROVE FALSE
      OBVIOUS
    <3>2. 0 \in 0 .. (KVDepth - 1)
      BY <1>1, <2>2, <3>1
    <3> QED  BY <1>3, <2>2, <3>2
  <2> QED  BY <1>1, <2>2, <2>3
<1>4. ASSUME KVLevelFull(KVLevels[0]), NumLevels = 1 \/ ~KVLevelFull(KVLevels[1])
      PROVE  KVDepth = 1
  <2>1. 1 \in 0 .. NumLevels /\ \A i \in 0 .. (1 - 1) : i = 0
    BY <1>1
  <2>2. P(1)
    BY <1>4, <2>1
  <2>3. KVDepth \in 0 .. NumLevels /\ P(KVDepth)
    BY <1>2, <2>1, <2>2
  <2>4. KVDepth # 0
    BY <1>1, <1>4, <2>3
  <2>5. ~(KVDepth > 1)
    <3>1. SUFFICES ASSUME KVDepth > 1 PROVE FALSE
      OBVIOUS
    <3>2. 1 \in 0 .. (KVDepth - 1) /\ NumLevels # 1
      BY <1>1, <2>3, <3>1
    <3> QED  BY <1>4, <2>3, <3>2
  <2> QED  BY <1>1, <2>3, <2>4, <2>5
<1> QED  BY <1>1, <1>3, <1>4

LEMMA NewLevelNotFull == ~KVLevelFull(NewLevel)
BY NewLevelParts, RunOfParts DEF KVLevelFull, IsFull

LEMMA FlushedFull ==
  ASSUME NEW P, NEW d \in Seq(EntryOf)
  PROVE  KVLevelFull(Flushed(P, d)) <=> d # << >>
<1>1. Len(d) # 0 <=> d # << >>
  OBVIOUS
<1> QED  BY <1>1, FlushedParts, RunOfParts, TreeAssumption DEF KVLevelFull, IsFull

\* The buffer is the first thing that gets to the device.
LEMMA FirstFlush ==
  ASSUME KVInv, ~HasRoom(kvbuffer), KVLevels[0] = NewLevel,
         NEW reads, NEW levels, levels = LevelsAfter(reads), WritesAccepted(levels)
  PROVE  /\ DOMAIN levels = Level /\ \A i \in Level \ {0} : levels[i] = NewLevel
         /\ FirstRuns(levels[0])
         /\ \A k \in DOMAIN kvbuffer : KeptIn(levels[0], k, kvbuffer[k])
<1> DEFINE read == [i \in LevelsRead |-> reads[i][1] \o reads[i][2]]
           flushed == KVFlushInto(read)
           E == GetEntries(kvbuffer)
<1>1. BufferSize \in Nat \ {0} /\ 0 \in Level
  BY TreeAssumption DEF Level
<1>2. /\ BufferOK(kvbuffer) /\ DOMAIN KVLevels = Level
      /\ \A i \in Level \ {0} : KVLevels[i] = NewLevel
  BY DEF KVInv
<1>3. KVDepth = 0
  BY NewLevelNotFull, KVDepthIs
<1>4. flushed = [i \in Level |-> KVLevels[i]]
  BY <1>3 DEF KVFlushInto
<1> HIDE DEF flushed
<1>5. levels = [flushed EXCEPT ![0] = KVBufferInto(flushed[0], read)]
  BY DEF LevelsAfter, flushed
<1>6. /\ DOMAIN levels = Level /\ \A i \in Level \ {0} : levels[i] = NewLevel
      /\ levels[0] = KVBufferInto(NewLevel, read)
  BY <1>1, <1>2, <1>4, <1>5
<1>7. KVLevelEmpty(NewLevel, RunSize(0))
  <2>1. NewLevel[1].size = 0 /\ NewLevel[2].size = 0
    BY NewLevelParts, RunOfParts
  <2> QED  BY <1>1, <2>1, FirstRunSize DEF KVLevelEmpty, IsEmpty
<1> HIDE DEF read
<1>8. levels[0] = KVLevelPut(NewLevel, BufferSize, E)
  BY <1>6, <1>7, FirstRunSize DEF KVBufferInto, KVGetEntries
<1>9. /\ E \in Seq(EntryOf) /\ Len(E) = BufferSize
      /\ \A k \in DOMAIN kvbuffer : HasEntry(E, k, kvbuffer[k])
  BY <1>2, FullBufferEntries DEF HasEntry
<1> HIDE DEF E
<1>10. PICK one, two \in Seq(EntryOf) :
         /\ Splits(E, BufferSize, one, two)
         /\ KVLevelPut(<< RunOf(0, << >>, << >>), RunOf(0, << >>, << >>) >>, BufferSize, E) =
              GrownLevel(BufferSize, one, << >>, two, << >>)
  <2>1. Len(E) <= 2 * BufferSize
    BY <1>1, <1>9
  <2> QED  BY <1>1, <1>9, <2>1, PutInEmptyLevel
<1>11. Len(one) = BufferSize /\ Len(two) = 0 /\ two = << >>
  BY <1>1, <1>9, <1>10 DEF Least, Splits
<1>12. one = E
  BY <1>9, <1>10, <1>11 DEF Splits
<1>13. levels[0] = Flushed(one, two)
  BY <1>1, <1>8, <1>10, <1>11, NewLevelParts DEF Flushed, GrownLevel
<1>14. Accepted(one)
  <2>1. levels[0][1].page = one /\ KVLevels[0][1].page = << >>
    BY <1>13, FlushedParts, NewLevelParts, RunOfParts
  <2>2. one # << >>
    BY <1>1, <1>11
  <2> QED  BY <1>1, <2>1, <2>2 DEF WritesAccepted
<1>15. Written(one) /\ Len(two) < BufferSize
  BY <1>1, <1>10, <1>11, <1>14 DEF Written
<1>16. FirstRuns(levels[0])
  BY <1>10, <1>13, <1>15 DEF FirstRuns
<1>17. \A k \in DOMAIN kvbuffer : KeptIn(levels[0], k, kvbuffer[k])
  BY <1>9, <1>12, <1>13, FlushedParts, RunOfParts DEF KeptIn
<1> QED  BY <1>6, <1>16, <1>17

\* D is what a merge of a run's entries e and a run P of the device gives.  P has no
\* deletion, so there are at least as many entries as a run takes.
Merges(e, P, D) ==
  /\ D \in Seq(EntryOf) /\ Len(D) >= BufferSize /\ Len(D) <= 2 * BufferSize
  /\ (\A i \in DOMAIN e : e[i].val # Deleted) => Len(D) = 2 * BufferSize
  /\ \A i \in DOMAIN e : e[i].val # Deleted => \E n \in DOMAIN D : D[n] = e[i]
  /\ \A i \in DOMAIN P : \E n \in DOMAIN D : D[n] = P[i]
  /\ \A m, n \in DOMAIN D : m < n => D[m].key <= D[n].key
  /\ \A n \in DOMAIN D : \/ \E i \in DOMAIN e : D[n] = e[i]
                         \/ \E i \in DOMAIN P : D[n] = P[i]

LEMMA MergedWithRun ==
  ASSUME NEW e \in Seq(EntryOf), NEW P, Written(P), Len(e) = BufferSize
  PROVE  Merges(e, P, Drain(e \o P))
<1> DEFINE all == e \o P
           D == Drain(e \o P)
           L == LivePlaces(all)
<1>1. /\ BufferSize \in Nat \ {0} /\ P \in Seq(EntryOf) /\ Len(P) = BufferSize
      /\ \A i \in DOMAIN P : P[i].key = i /\ P[i].val # Deleted
  BY TreeAssumption DEF Written, Accepted
<1>2. /\ all \in Seq(EntryOf) /\ Len(all) = 2 * BufferSize
      /\ \A i \in 1 .. BufferSize : all[i] = e[i] /\ all[BufferSize + i] = P[i]
  BY <1>1
<1>3. DOMAIN all = 1 .. (2 * BufferSize) /\ DOMAIN e = 1 .. BufferSize
      /\ DOMAIN P = 1 .. BufferSize
  BY <1>1, <1>2
<1> HIDE DEF all
<1>4. /\ D \in Seq(EntryOf) /\ Len(D) = Cardinality(L) /\ Len(D) <= Len(all)
      /\ \A i \in L : \E n \in DOMAIN D : D[n] = all[i]
      /\ \A n \in DOMAIN D : \E i \in L : D[n] = all[i]
      /\ \A m, n \in DOMAIN D : m < n => D[m].key <= D[n].key
  BY <1>2, DrainProperties DEF all
<1> HIDE DEF D
<1>5. \A i \in 1 .. BufferSize : BufferSize + i \in L
  <2>1. SUFFICES ASSUME NEW i \in 1 .. BufferSize PROVE BufferSize + i \in L
    OBVIOUS
  <2>2. BufferSize + i \in DOMAIN all
    BY <1>1, <1>3
  <2>3. i \in DOMAIN P /\ all[BufferSize + i] = P[i]
    BY <1>2, <1>3
  <2>4. P[i].val # Deleted
    BY <1>1, <2>3
  <2>5. all[BufferSize + i].val # Deleted
    BY <2>3, <2>4
  <2> QED  BY <2>2, <2>5 DEF LivePlaces
<1>6. Len(D) >= BufferSize
  <2>1. (BufferSize + 1) .. (2 * BufferSize) \in SUBSET L
    <3>1. SUFFICES ASSUME NEW j \in (BufferSize + 1) .. (2 * BufferSize) PROVE j \in L
      OBVIOUS
    <3>2. j - BufferSize \in 1 .. BufferSize /\ BufferSize + (j - BufferSize) = j
      BY <1>1
    <3> QED  BY <1>5, <3>2
  <2>2. IsFiniteSet(L)
    BY <1>2, PopOrderOrders
  <2> HIDE DEF L
  <2>3. Cardinality((BufferSize + 1) .. (2 * BufferSize)) <= Cardinality(L)
    BY <2>1, <2>2, FS_Subset
  <2>4. Cardinality((BufferSize + 1) .. (2 * BufferSize)) = BufferSize
    BY <1>1, FS_Interval
  <2> QED  BY <1>4, <2>3, <2>4
<1>7. ASSUME NEW i \in DOMAIN e, e[i].val # Deleted PROVE \E n \in DOMAIN D : D[n] = e[i]
  <2>1. i \in L /\ all[i] = e[i]
    BY <1>1, <1>2, <1>3, <1>7 DEF LivePlaces
  <2> QED  BY <1>4, <2>1
<1>8. ASSUME NEW i \in DOMAIN P PROVE \E n \in DOMAIN D : D[n] = P[i]
  <2>1. BufferSize + i \in L /\ all[BufferSize + i] = P[i]
    BY <1>2, <1>3, <1>5
  <2> QED  BY <1>4, <2>1
<1>9. ASSUME NEW n \in DOMAIN D
      PROVE  (\E i \in DOMAIN e : D[n] = e[i]) \/ (\E i \in DOMAIN P : D[n] = P[i])
  <2>1. PICK i \in L : D[n] = all[i]
    BY <1>4
  <2>2. i \in 1 .. (2 * BufferSize)
    BY <1>3 DEF LivePlaces
  <2>3. CASE i <= BufferSize
    <3>1. i \in 1 .. BufferSize
      BY <1>1, <2>2, <2>3
    <3>2. i \in DOMAIN e /\ all[i] = e[i]
      BY <1>2, <1>3, <3>1
    <3> QED  BY <2>1, <3>2
  <2>4. CASE i > BufferSize
    <3>1. i - BufferSize \in 1 .. BufferSize /\ BufferSize + (i - BufferSize) = i
      BY <1>1, <2>2, <2>4
    <3> QED  BY <1>2, <1>3, <2>1, <3>1
  <2> QED  BY <1>1, <2>2, <2>3, <2>4
<1>10. ASSUME \A i \in DOMAIN e : e[i].val # Deleted PROVE Len(D) = 2 * BufferSize
  <2>1. \A i \in 1 .. (2 * BufferSize) : i \in L
    <3>1. SUFFICES ASSUME NEW i \in 1 .. (2 * BufferSize), i <= BufferSize PROVE i \in L
      <4>1. ASSUME NEW j \in 1 .. (2 * BufferSize), j > BufferSize PROVE j \in L
        <5>1. j - BufferSize \in 1 .. BufferSize /\ BufferSize + (j - BufferSize) = j
          BY <1>1, <4>1
        <5> QED  BY <1>5, <5>1
      <4> QED  BY <1>1, <4>1
    <3>2. i \in DOMAIN e /\ i \in DOMAIN all /\ all[i] = e[i]
      BY <1>1, <1>2, <1>3, <3>1
    <3>3. e[i].val # Deleted
      BY <1>10, <3>2
    <3> QED  BY <3>2, <3>3 DEF LivePlaces
  <2>2. L = 1 .. (2 * BufferSize)
    BY <1>3, <2>1 DEF LivePlaces
  <2>3. Cardinality(1 .. (2 * BufferSize)) = 2 * BufferSize
    BY <1>1, FS_Interval
  <2> HIDE DEF L
  <2> QED  BY <1>4, <2>2, <2>3
<1>11. Len(D) <= 2 * BufferSize
  BY <1>2, <1>4
<1>12. \A m, n \in DOMAIN D : m < n => D[m].key <= D[n].key
  BY <1>4
<1>13. D \in Seq(EntryOf)
  BY <1>4
<1> HIDE DEF L
<1>14. Merges(e, P, D)
  <2>1. \A i \in DOMAIN e : e[i].val # Deleted => \E n \in DOMAIN D : D[n] = e[i]
    BY <1>7
  <2>2. (\A i \in DOMAIN e : e[i].val # Deleted) => Len(D) = 2 * BufferSize
    BY <1>10
  <2>3. \A i \in DOMAIN P : \E n \in DOMAIN D : D[n] = P[i]
    BY <1>8
  <2>4. \A n \in DOMAIN D : \/ \E i \in DOMAIN e : D[n] = e[i]
                            \/ \E i \in DOMAIN P : D[n] = P[i]
    BY <1>9
  <2> QED  BY <1>6, <1>11, <1>12, <1>13, <2>1, <2>2, <2>3, <2>4 DEF Merges
<1> QED  BY <1>14, Zenon DEF D, all

\* A run on the device and one that is empty.
LEMMA ReadsOfFlushed ==
  ASSUME KVInv, NEW P, NEW d \in Seq(EntryOf), Written(P), KVLevels[0] = Flushed(P, d)
  PROVE  /\ ~KVLevelEmpty(KVLevels[0], RunSize(0))
         /\ ReadOf(0, 1) = {P}
         /\ d = << >> => ReadOf(0, 2) = {<< >>}
         /\ d # << >> => ReadOf(0, 2) \subseteq {P}
         /\ \A i \in Level \ {0}, r \in {1, 2} : ReadOf(i, r) = {<< >>}
<1>1. /\ BufferSize \in Nat \ {0} /\ P \in Seq(EntryOf) /\ Len(P) = BufferSize /\ P # << >>
      /\ 0 \in Level
  BY TreeAssumption DEF Written, Level
<1>2. KVLevels[0][1] = RunOf(BufferSize, << >>, P) /\ KVLevels[0][2] = RunOf(Len(d), d, << >>)
  BY FlushedParts
<1>3. ~KVLevelEmpty(KVLevels[0], RunSize(0))
  BY <1>2, FirstRunSize, RunOfParts DEF KVLevelEmpty, IsEmpty
<1>4. ReadOf(0, 1) = {P}
  BY <1>1, <1>2, RunOfParts DEF ReadOf
<1>5. ASSUME d = << >> PROVE ReadOf(0, 2) = {<< >>}
  BY <1>2, <1>5, RunOfParts DEF ReadOf
<1>6. \A i \in Level \ {0}, r \in {1, 2} :
        KVLevels[i][r].size = 0 /\ KVLevels[i][r].page = << >>
  <2>1. \A i \in Level \ {0} : KVLevels[i] = NewLevel
    BY DEF KVInv
  <2> QED  BY <2>1, NewLevelParts, RunOfParts
<1>7. \A i \in Level \ {0}, r \in {1, 2} : ReadOf(i, r) = {<< >>}
  BY <1>6 DEF ReadOf
<1>8. ReadOf(0, 2) \subseteq {P} \/ d = << >>
  <2>1. SUFFICES ASSUME d # << >>, NEW x \in ReadOf(0, 2) PROVE x = P
    OBVIOUS
  <2>2. KVLevels[0][2].size = Len(d) /\ KVLevels[0][2].page = << >> /\ Len(d) # 0
    BY <1>2, <2>1, RunOfParts
  <2>3. x \in OnDevice /\ Len(x) = BufferSize
    BY <2>1, <2>2, FirstRunSize DEF ReadOf
  <2>4. PICK i \in Level, r \in {1, 2} : x = KVLevels[i][r].page
    BY <2>3 DEF OnDevice
  <2>5. x = P \/ x = << >>
    BY <1>2, <1>6, <2>2, <2>4, RunOfParts
  <2>6. Len(<< >>) = 0
    OBVIOUS
  <2> QED  BY <1>1, <2>3, <2>5, <2>6
<1> QED  BY <1>3, <1>4, <1>5, <1>7, <1>8

\* Later flushes merge the buffer with the run on the device.  The first run takes the
\* smallest keys; the second cannot be full, as it would have to begin with the key 1.
LEMMA LaterFlush ==
  ASSUME KVInv, BufferSize > 1, ~HasRoom(kvbuffer),
         NEW P, Written(P), KVLevels[0] = Flushed(P, << >>),
         NEW reads, \A i \in LevelsRead, r \in {1, 2} : reads[i][r] \in ReadOf(i, r),
         NEW levels, levels = LevelsAfter(reads), WritesAccepted(levels)
  PROVE  /\ DOMAIN levels = Level /\ \A i \in Level \ {0} : levels[i] = NewLevel
         /\ FirstRuns(levels[0])
         /\ \A k \in DOMAIN kvbuffer :
              kvbuffer[k] # Deleted => KeptIn(levels[0], k, kvbuffer[k])
         /\ \A i \in DOMAIN P : KeptIn(levels[0], P[i].key, P[i].val)
<1> DEFINE read == [i \in LevelsRead |-> reads[i][1] \o reads[i][2]]
           flushed == KVFlushInto(read)
           E == GetEntries(kvbuffer)
           D == Drain(E \o P)
<1>1. BufferSize \in Nat \ {0} /\ 0 \in Level /\ << >> \in Seq(EntryOf)
      /\ P \in Seq(EntryOf) /\ Len(P) = BufferSize
  BY TreeAssumption DEF Level, Written
<1>2. /\ BufferOK(kvbuffer) /\ DOMAIN KVLevels = Level
      /\ \A i \in Level \ {0} : KVLevels[i] = NewLevel
  BY DEF KVInv
<1>3. KVDepth = 0
  BY <1>1, FlushedFull, KVDepthIs
<1>4. flushed = [i \in Level |-> KVLevels[i]]
  BY <1>3 DEF KVFlushInto
<1> HIDE DEF flushed
<1>5. levels = [flushed EXCEPT ![0] = KVBufferInto(flushed[0], read)]
  BY DEF LevelsAfter, flushed
<1>6. /\ DOMAIN levels = Level /\ \A i \in Level \ {0} : levels[i] = NewLevel
      /\ levels[0] = KVBufferInto(KVLevels[0], read)
  BY <1>1, <1>2, <1>4, <1>5
<1>7. /\ ~KVLevelEmpty(KVLevels[0], RunSize(0))
      /\ ReadOf(0, 1) = {P} /\ ReadOf(0, 2) = {<< >>}
  BY <1>1, ReadsOfFlushed
<1>8. LevelsRead = {0}
  BY <1>3, <1>7 DEF LevelsRead
<1>9. read[0] = P
  <2>1. reads[0][1] = P /\ reads[0][2] = << >>
    BY <1>7, <1>8
  <2>2. read[0] = reads[0][1] \o reads[0][2]
    BY <1>8
  <2>3. P \o << >> = P
    BY <1>1
  <2> QED  BY <2>1, <2>2, <2>3
<1> HIDE DEF read
<1>10. levels[0] = KVLevelPut(<< RunOf(0, << >>, P), RunOf(0, << >>, << >>) >>, BufferSize, D)
  BY <1>6, <1>7, <1>9, FlushedParts, FirstRunSize
  DEF KVBufferInto, KVMerged, KVGetEntries
<1>11. /\ E \in Seq(EntryOf) /\ Len(E) = BufferSize
       /\ \A k \in DOMAIN kvbuffer : \E n \in DOMAIN E : E[n] = [key |-> k, val |-> kvbuffer[k]]
  BY <1>2, FullBufferEntries
<1> HIDE DEF E
<1>12. Merges(E, P, D)
  BY <1>11, MergedWithRun
<1> HIDE DEF D
<1>14. /\ D \in Seq(EntryOf) /\ Len(D) \in Nat /\ DOMAIN D = 1 .. Len(D)
       /\ Len(D) >= BufferSize /\ Len(D) <= 2 * BufferSize
  BY <1>12 DEF Merges
<1>13. PICK one, two \in Seq(EntryOf) :
         /\ Splits(D, BufferSize, one, two)
         /\ KVLevelPut(<< RunOf(0, << >>, P), RunOf(0, << >>, << >>) >>, BufferSize, D) =
              GrownLevel(BufferSize, one, P, two, << >>)
  BY <1>1, <1>14, PutInEmptyLevel
<1>15. Len(one) = BufferSize /\ Len(two) = Len(D) - BufferSize
  BY <1>1, <1>13, <1>14 DEF Splits, Least
<1>16. DOMAIN one = 1 .. BufferSize /\ DOMAIN two = 1 .. (Len(D) - BufferSize)
  BY <1>13, <1>15
<1>17. levels[0][1] = RunOf(BufferSize, << >>, one)
       /\ levels[0][2] = IF Len(two) = BufferSize THEN RunOf(BufferSize, << >>, two)
                         ELSE RunOf(Len(two), two, << >>)
  BY <1>10, <1>13, <1>15 DEF GrownLevel
<1>18. Accepted(one)
  <2>1. levels[0][1].page = one /\ KVLevels[0][1].page = P
    BY <1>17, FlushedParts, RunOfParts
  <2>2. CASE one = P
    BY <2>2 DEF Written
  <2>3. CASE one # P
    BY <1>1, <2>1, <2>3 DEF WritesAccepted
  <2> QED  BY <2>2, <2>3
<1>19. Len(two) # BufferSize
  <2>1. SUFFICES ASSUME Len(two) = BufferSize PROVE FALSE
    OBVIOUS
  <2>2. levels[0][2].page = two /\ KVLevels[0][2].page = << >>
    BY <1>17, <2>1, FlushedParts, RunOfParts
  <2>3. two # << >>
    BY <1>1, <2>1
  <2>4. Accepted(two)
    BY <1>1, <2>2, <2>3 DEF WritesAccepted
  <2>5. two[1].key = 1 /\ one[BufferSize].key = BufferSize
    BY <1>1, <1>15, <1>16, <1>18, <2>1, <2>4 DEF Accepted
  <2>6. two[1] = D[BufferSize + 1] /\ one[BufferSize] = D[BufferSize]
    BY <1>1, <1>13, <1>15, <2>1 DEF Splits
  <2>7. BufferSize \in DOMAIN D /\ BufferSize + 1 \in DOMAIN D /\ BufferSize < BufferSize + 1
    BY <1>1, <1>14, <1>15, <2>1
  <2>8. D[BufferSize].key <= D[BufferSize + 1].key
    BY <1>12, <2>7 DEF Merges
  <2> QED  BY <1>1, <2>5, <2>6, <2>8
<1>20. levels[0] = Flushed(one, two)
  BY <1>10, <1>13, <1>15, <1>19 DEF GrownLevel, Flushed
<1>21. FirstRuns(levels[0])
  <2>1. Written(one)
    BY <1>15, <1>18 DEF Written
  <2>2. Len(two) < BufferSize
    <3> DEFINE n == Len(D)
               m == Len(two)
    <3>1. n \in Nat /\ n <= 2 * BufferSize /\ m = n - BufferSize /\ m # BufferSize
      BY <1>14, <1>15, <1>19
    <3> HIDE DEF n, m
    <3>2. m < BufferSize
      BY <1>1, <3>1
    <3> QED  BY <3>2 DEF m
  <2> QED  BY <1>20, <2>1, <2>2 DEF FirstRuns
<1>22. ASSUME NEW n \in DOMAIN D, NEW k, NEW v, D[n] = [key |-> k, val |-> v]
       PROVE  KeptIn(levels[0], k, v)
  <2>1. levels[0][1].page = one /\ levels[0][2].Rundata = two
    BY <1>20, FlushedParts, RunOfParts
  <2>2. CASE n <= BufferSize
    <3>1. n \in DOMAIN one /\ one[n] = D[n]
      BY <1>13, <1>14, <1>15, <1>16, <2>2 DEF Splits
    <3> QED  BY <1>22, <2>1, <3>1 DEF KeptIn, HasEntry
  <2>3. CASE n > BufferSize
    <3>1. n - BufferSize \in 1 .. (Len(D) - BufferSize) /\ BufferSize + (n - BufferSize) = n
      BY <1>1, <1>14, <2>3
    <3>2. n - BufferSize \in DOMAIN two /\ two[n - BufferSize] = D[n]
      BY <1>13, <1>15, <1>16, <3>1 DEF Splits
    <3> QED  BY <1>22, <2>1, <3>2 DEF KeptIn, HasEntry
  <2> QED  BY <1>1, <1>14, <2>2, <2>3
<1>23. ASSUME NEW k \in DOMAIN kvbuffer, kvbuffer[k] # Deleted
       PROVE  KeptIn(levels[0], k, kvbuffer[k])
  <2>1. PICK i \in DOMAIN E : E[i] = [key |-> k, val |-> kvbuffer[k]]
    BY <1>11
  <2>2. PICK n \in DOMAIN D : D[n] = E[i]
    BY <1>12, <1>23, <2>1 DEF Merges
  <2> QED  BY <1>22, <2>1, <2>2
<1>24. ASSUME NEW i \in DOMAIN P PROVE KeptIn(levels[0], P[i].key, P[i].val)
  <2>1. PICK n \in DOMAIN D : D[n] = P[i]
    BY <1>12 DEF Merges
  <2>2. P[i] \in EntryOf
    BY <1>1, ElementOfSeq
  <2>3. P[i] = [key |-> P[i].key, val |-> P[i].val]
    BY <2>2 DEF EntryOf
  <2> QED  BY <1>22, <2>1, <2>3
<1> QED  BY <1>6, <1>21, <1>23, <1>24

\* A flush of a full first level ends the process: the only run that a read can give
\* is the one on the device, and merged with itself it is not accepted.
LEMMA FullLevelIsTheEnd ==
  ASSUME KVInv, KVDepth < NumLevels,
         NEW P, NEW d \in Seq(EntryOf), Written(P), KVLevels[0] = Flushed(P, d), d # << >>,
         NEW reads, \A i \in LevelsRead, r \in {1, 2} : reads[i][r] \in ReadOf(i, r),
         NEW levels, levels = LevelsAfter(reads)
  PROVE  ~WritesAccepted(levels)
<1> DEFINE read == [i \in LevelsRead |-> reads[i][1] \o reads[i][2]]
           flushed == KVFlushInto(read)
           D == Drain(P \o P)
<1>1. BufferSize \in Nat \ {0} /\ P \in Seq(EntryOf) /\ Len(P) = BufferSize
      /\ \A i \in DOMAIN P : P[i].key = i
      /\ DOMAIN P = 1 .. BufferSize
  BY TreeAssumption DEF Written, Accepted
<1>2. /\ DOMAIN KVLevels = Level /\ \A i \in Level \ {0} : KVLevels[i] = NewLevel
  BY DEF KVInv
<1>3. NumLevels \in Nat \ {0} /\ KVLevelFull(KVLevels[0])
  BY TreeAssumption, FlushedFull
<1>4. NumLevels > 1 /\ KVDepth = 1 /\ 1 \in Level \ {0} /\ 0 \in Level
  <2>1. NumLevels > 1
    BY <1>3, KVDepthIs
  <2>2. 1 \in Level \ {0} /\ 0 \in Level
    BY <1>3, <2>1 DEF Level
  <2> QED  BY <1>2, <1>3, <2>1, <2>2, NewLevelNotFull, KVDepthIs
<1>5. LevelsRead = {0, 1}
  <2>1. 0 .. 1 = {0, 1}
    OBVIOUS
  <2> QED  BY <1>4, <2>1 DEF LevelsRead
<1>6. read[0] \o read[1] = P \o P
  <2>1. reads[0][1] = P /\ reads[0][2] = P /\ reads[1][1] = << >> /\ reads[1][2] = << >>
    BY <1>4, <1>5, ReadsOfFlushed
  <2>2. read[0] = reads[0][1] \o reads[0][2] /\ read[1] = reads[1][1] \o reads[1][2]
    BY <1>5
  <2>3. << >> \o << >> = << >> /\ P \o P \in Seq(EntryOf)
    BY <1>1
  <2>4. (P \o P) \o << >> = P \o P
    BY <2>3
  <2> QED  BY <2>1, <2>2, <2>3, <2>4
<1>7. flushed[1] = KVLevelPut(ResetLevel(KVLevels[1]), RunSize(1), D)
  <2>1. 1 - 1 = 0 /\ ~(1 > 1) /\ 1 # 0
    OBVIOUS
  <2>2. flushed[1] = KVLevelPut(ResetLevel(KVLevels[1]), RunSize(1),
                                KVMerged(read[1 - 1] \o read[1]))
    <3> HIDE DEF read
    <3> QED  BY <1>4, <2>1 DEF KVFlushInto
  <2> HIDE DEF flushed, read
  <2> QED  BY <1>6, <2>1, <2>2 DEF KVMerged
<1>8. DOMAIN flushed = Level
  BY DEF KVFlushInto
<1> HIDE DEF flushed
<1>9. levels[1] = flushed[1]
  <2>1. levels = [flushed EXCEPT ![0] = KVBufferInto(flushed[0], read)]
    BY DEF LevelsAfter, flushed
  <2> QED  BY <1>4, <1>8, <2>1
<1>10. RunSize(1) = 2 * BufferSize
  <2>1. 2^1 = 2
    OBVIOUS
  <2> QED  BY <1>1, <2>1 DEF RunSize
<1>11. /\ D \in Seq(EntryOf) /\ Len(D) = 2 * BufferSize
       /\ \A n \in DOMAIN D : \E i \in DOMAIN P : D[n] = P[i]
  <2>1. \A i \in DOMAIN P : P[i].val # Deleted
    BY DEF Written, Accepted
  <2>2. Merges(P, P, D)
    BY <1>1, MergedWithRun
  <2> HIDE DEF D
  <2> QED  BY <2>1, <2>2 DEF Merges
<1> HIDE DEF D
<1>12. PICK one, two \in Seq(EntryOf) :
         /\ Splits(D, RunSize(1), one, two)
         /\ KVLevelPut(<< RunOf(0, << >>, << >>), RunOf(0, << >>, << >>) >>, RunSize(1), D) =
              GrownLevel(RunSize(1), one, << >>, two, << >>)
  <2>1. RunSize(1) \in Nat \ {0} /\ Len(D) <= 2 * RunSize(1)
    BY <1>1, <1>10, <1>11
  <2> QED  BY <1>11, <2>1, PutInEmptyLevel
<1>13. Len(one) = 2 * BufferSize
  BY <1>1, <1>10, <1>11, <1>12 DEF Splits, Least
<1>14. one = D
  BY <1>11, <1>12, <1>13 DEF Splits
<1>15. levels[1][1].page = D
  <2>1. ResetLevel(KVLevels[1]) = << RunOf(0, << >>, << >>), RunOf(0, << >>, << >>) >>
    BY <1>2, <1>4, NewLevelParts
  <2>2. levels[1] = GrownLevel(RunSize(1), one, << >>, two, << >>)
    BY <1>7, <1>9, <1>12, <2>1
  <2>3. levels[1][1] = RunOf(RunSize(1), << >>, one)
    BY <1>10, <1>13, <2>2 DEF GrownLevel
  <2> QED  BY <1>14, <2>3, RunOfParts
<1>16. SUFFICES ASSUME WritesAccepted(levels) PROVE FALSE
  OBVIOUS
<1>17. Accepted(D)
  <2>1. KVLevels[1][1].page = << >>
    BY <1>2, <1>4, NewLevelParts, RunOfParts
  <2>2. D # << >>
    BY <1>1, <1>11
  <2> QED  BY <1>4, <1>15, <1>16, <2>1, <2>2 DEF WritesAccepted
<1>18. 2 * BufferSize \in DOMAIN D
  BY <1>1, <1>11
<1>19. D[2 * BufferSize].key = 2 * BufferSize
  BY <1>17, <1>18 DEF Accepted
<1>20. PICK i \in DOMAIN P : D[2 * BufferSize] = P[i]
  BY <1>11, <1>18
<1> QED  BY <1>1, <1>19, <1>20

LEMMA KVInitInv == KVInit => KVInv
<1> SUFFICES ASSUME KVInit PROVE KVInv
  OBVIOUS
<1>1. DOMAIN EmptyBuffer = {}
  BY DEF EmptyBuffer
<1>2. 0 \in Level
  BY TreeAssumption DEF Level
<1> QED  BY <1>1, <1>2, EmptyBufferOK DEF KVInit, KVInv, NewMemoryBuffer, FirstRuns

\* What a key has been given last is kept by a flush, be it in the buffer or on the device.
LEMMA FlushKeeps ==
  ASSUME KVInv, BufferSize > 1, ~HasRoom(kvbuffer), KVDepth < NumLevels,
         NEW reads, \A i \in LevelsRead, r \in {1, 2} : reads[i][r] \in ReadOf(i, r),
         NEW levels, levels = LevelsAfter(reads), WritesAccepted(levels)
  PROVE  /\ DOMAIN levels = Level /\ \A i \in Level \ {0} : levels[i] = NewLevel
         /\ FirstRuns(levels[0])
         /\ \A k \in DOMAIN kvgiven :
              kvgiven[k] # Deleted => KeptIn(levels[0], k, kvgiven[k])
<1>1. CASE KVLevels[0] = NewLevel
  <2>1. /\ DOMAIN levels = Level /\ \A i \in Level \ {0} : levels[i] = NewLevel
        /\ FirstRuns(levels[0])
        /\ \A k \in DOMAIN kvbuffer : KeptIn(levels[0], k, kvbuffer[k])
    BY <1>1, FirstFlush
  <2>2. ASSUME NEW k \in DOMAIN kvgiven, kvgiven[k] # Deleted
        PROVE  k \in DOMAIN kvbuffer /\ kvbuffer[k] = kvgiven[k]
    <3>1. ~KeptIn(NewLevel, k, kvgiven[k])
      BY NewLevelParts, RunOfParts DEF KeptIn, HasEntry
    <3> QED  BY <1>1, <2>2, <3>1 DEF KVInv
  <2> QED  BY <2>1, <2>2
<1>2. CASE KVLevels[0] # NewLevel
  <2>1. PICK P, d \in Seq(EntryOf) :
          Written(P) /\ Len(d) < BufferSize /\ KVLevels[0] = Flushed(P, d)
    BY <1>2 DEF KVInv, FirstRuns
  <2>2. d = << >>
    BY <2>1, FullLevelIsTheEnd
  <2>3. /\ DOMAIN levels = Level /\ \A i \in Level \ {0} : levels[i] = NewLevel
        /\ FirstRuns(levels[0])
        /\ \A k \in DOMAIN kvbuffer :
             kvbuffer[k] # Deleted => KeptIn(levels[0], k, kvbuffer[k])
        /\ \A i \in DOMAIN P : KeptIn(levels[0], P[i].key, P[i].val)
    BY <2>1, <2>2, LaterFlush
  <2>4. ASSUME NEW k \in DOMAIN kvgiven, kvgiven[k] # Deleted
        PROVE  KeptIn(levels[0], k, kvgiven[k])
    <3>1. CASE k \in DOMAIN kvbuffer
      <4>1. kvbuffer[k] = kvgiven[k]
        BY <3>1 DEF KVInv
      <4> QED  BY <2>3, <2>4, <3>1, <4>1
    <3>2. CASE k \notin DOMAIN kvbuffer
      <4>1. KeptIn(KVLevels[0], k, kvgiven[k])
        BY <2>4, <3>2 DEF KVInv
      <4>2. KVLevels[0][1].page = P /\ KVLevels[0][2].Rundata = << >>
        BY <2>1, <2>2, FlushedParts, RunOfParts
      <4>3. PICK i \in DOMAIN P : P[i] = [key |-> k, val |-> kvgiven[k]]
        BY <4>1, <4>2 DEF KeptIn, HasEntry
      <4>4. P[i].key = k /\ P[i].val = kvgiven[k]
        BY <4>3
      <4> QED  BY <2>3, <4>4
    <3> QED  BY <3>1, <3>2
  <2> QED  BY <2>3, <2>4
<1> QED  BY <1>1, <1>2

LEMMA KVPutKeeps ==
  ASSUME KVInv, BufferSize > 1, NEW k \in Key, NEW v \in AnyValue, KVPutValue(k, v)
  PROVE  KVInv'
<1>1. /\ BufferOK(kvbuffer) /\ DOMAIN KVLevels = Level
      /\ \A i \in Level \ {0} : KVLevels[i] = NewLevel
      /\ FirstRuns(KVLevels[0])
      /\ DOMAIN kvgiven \subseteq Key
      /\ \A j \in DOMAIN kvbuffer : j \in DOMAIN kvgiven /\ kvbuffer[j] = kvgiven[j]
      /\ \A j \in DOMAIN kvgiven \ DOMAIN kvbuffer :
           kvgiven[j] # Deleted => KeptIn(KVLevels[0], j, kvgiven[j])
  BY DEF KVInv
<1>2. ASSUME UNCHANGED <<kvbuffer, KVLevels, kvgiven>>, kvstatus' \in {"running", "exited"}
      PROVE  KVInv'
  BY <1>1, <1>2 DEF KVInv, BufferOK
<1>3. CASE KVPutInBuffer(k, v)
  <2>1. /\ HasRoom(kvbuffer) /\ kvbuffer' = Put(kvbuffer, k, v)
        /\ kvgiven' = Put(kvgiven, k, v) /\ KVLevels' = KVLevels /\ kvstatus' = "running"
    BY <1>3 DEF KVPutInBuffer
  <2>2. BufferOK(kvbuffer)'
    <3>1. BufferOK(Put(kvbuffer, k, v))
      BY <1>1, <2>1, PutInRoom
    <3> QED  BY <2>1, <3>1 DEF BufferOK
  <2>3. /\ DOMAIN kvgiven' = DOMAIN kvgiven \cup {k}
        /\ \A j \in DOMAIN kvgiven' : kvgiven'[j] = IF j = k THEN v ELSE kvgiven[j]
        /\ DOMAIN kvbuffer' = DOMAIN kvbuffer \cup {k}
        /\ \A j \in DOMAIN kvbuffer' : kvbuffer'[j] = IF j = k THEN v ELSE kvbuffer[j]
    BY <2>1 DEF Put
  <2>4. \A j \in DOMAIN kvbuffer' : j \in DOMAIN kvgiven' /\ kvbuffer'[j] = kvgiven'[j]
    BY <1>1, <2>3
  <2>5. \A j \in DOMAIN kvgiven' \ DOMAIN kvbuffer' :
          kvgiven'[j] # Deleted => KeptIn(KVLevels'[0], j, kvgiven'[j])
    BY <1>1, <2>1, <2>3
  <2>6. DOMAIN kvgiven' \subseteq Key
    BY <1>1, <2>3
  <2> QED  BY <1>1, <2>1, <2>2, <2>4, <2>5, <2>6 DEF KVInv
<1>4. CASE KVPutAfterFlush(k, v)
  <2> DEFINE To(levels) ==
               /\ KVLevels' = levels
               /\ kvbuffer' = Put(EmptyBuffer, k, v)
               /\ kvgiven' = Put(kvgiven, k, v)
               /\ UNCHANGED kvstatus
  <2>1. ~HasRoom(kvbuffer) /\ KVDepth < NumLevels
    BY <1>4 DEF KVPutAfterFlush
  <2>2. \E reads, levels :
          /\ \A i \in LevelsRead, r \in {1, 2} : reads[i][r] \in ReadOf(i, r)
          /\ levels = LevelsAfter(reads)
          /\ IF WritesAccepted(levels) THEN To(levels) ELSE Exit
    <3>1. PICK reads : /\ \A i \in LevelsRead, r \in {1, 2} : reads[i][r] \in ReadOf(i, r)
                       /\ IF WritesAccepted(LevelsAfter(reads))
                          THEN To(LevelsAfter(reads)) ELSE Exit
      BY <1>4 DEF KVPutAfterFlush
    <3> HIDE DEF To
    <3> QED  BY <3>1
  <2> HIDE DEF To
  <2>10. PICK reads, levels :
          /\ \A i \in LevelsRead, r \in {1, 2} : reads[i][r] \in ReadOf(i, r)
          /\ levels = LevelsAfter(reads)
          /\ IF WritesAccepted(levels) THEN To(levels) ELSE Exit
    BY <2>2
  <2>3. CASE ~WritesAccepted(levels)
    BY <1>2, <2>10, <2>3 DEF Exit
  <2>4. CASE WritesAccepted(levels)
    <3>1. /\ DOMAIN levels = Level /\ \A i \in Level \ {0} : levels[i] = NewLevel
          /\ FirstRuns(levels[0])
          /\ \A j \in DOMAIN kvgiven :
               kvgiven[j] # Deleted => KeptIn(levels[0], j, kvgiven[j])
      BY <2>1, <2>10, <2>4, FlushKeeps
    <3>2. /\ KVLevels' = levels /\ kvbuffer' = Put(EmptyBuffer, k, v)
          /\ kvgiven' = Put(kvgiven, k, v)
          /\ kvstatus' = "running"
      BY <1>4, <2>10, <2>4 DEF To, KVPutAfterFlush
    <3>3. BufferOK(kvbuffer)'
      <4>1. BufferOK(Put(EmptyBuffer, k, v))
        BY PutInEmpty
      <4> QED  BY <3>2, <4>1 DEF BufferOK
    <3>4. /\ DOMAIN kvgiven' = DOMAIN kvgiven \cup {k}
          /\ \A j \in DOMAIN kvgiven' : kvgiven'[j] = IF j = k THEN v ELSE kvgiven[j]
          /\ DOMAIN kvbuffer' = {k} /\ kvbuffer'[k] = v
      BY <3>2 DEF Put, EmptyBuffer
    <3>5. \A j \in DOMAIN kvbuffer' : j \in DOMAIN kvgiven' /\ kvbuffer'[j] = kvgiven'[j]
      BY <3>4
    <3>6. \A j \in DOMAIN kvgiven' \ DOMAIN kvbuffer' :
            kvgiven'[j] # Deleted => KeptIn(KVLevels'[0], j, kvgiven'[j])
      BY <3>1, <3>2, <3>4
    <3>7. DOMAIN kvgiven' \subseteq Key
      BY <1>1, <3>4
    <3> QED  BY <3>1, <3>2, <3>3, <3>5, <3>6, <3>7 DEF KVInv
  <2> QED  BY <2>3, <2>4
<1>5. CASE KVReadFails
  BY <1>2, <1>5 DEF KVReadFails, Exit
<1> QED  BY <1>3, <1>4, <1>5 DEF KVPutValue

LEMMA KVNextKeeps == BufferSize > 1 /\ KVInv /\ [KVNext]_kvvars => KVInv'
<1> SUFFICES ASSUME BufferSize > 1, KVInv, [KVNext]_kvvars PROVE KVInv'
  OBVIOUS
<1>1. CASE KVNext
  <2>1. \E k \in Key : \E v \in AnyValue : KVPutValue(k, v)
    BY <1>1 DEF KVNext, KVUpdateValue, KVDeleteValue, AnyValue
  <2> QED  BY <2>1, KVPutKeeps
<1>2. CASE UNCHANGED kvvars
  BY <1>2 DEF kvvars, KVInv, BufferOK
<1> QED  BY <1>1, <1>2

\* KVTypeOK holds for a buffer of more than one entry: a run is in memory until it is
\* full and on the device from then on, as RunDataWrite has it.
THEOREM KVTypesAreKept ==
  ASSUME BufferSize > 1
  PROVE  KVSpec => []KVTypeOK
<1>1. KVInv => KVTypeOK
  <2> SUFFICES ASSUME KVInv PROVE KVTypeOK
    OBVIOUS
  <2> DEFINE RunOK(run, max) ==
               /\ run.size <= max
               /\ run.size < max => Len(run.Rundata) = run.size
               /\ run.size = max => run.Rundata = << >> /\ Len(run.page) = max
  <2>1. ASSUME NEW i \in Level, NEW r \in {1, 2} PROVE RunOK(KVLevels[i][r], RunSize(i))
    <3>1. RunSize(i) \in Nat \ {0}
      BY RunSizeType
    <3>2. CASE KVLevels[i] = NewLevel
      <4>1. KVLevels[i][r].size = 0 /\ KVLevels[i][r].Rundata = << >>
        BY <3>2, NewLevelParts, RunOfParts
      <4> QED  BY <3>1, <4>1
    <3>3. CASE KVLevels[i] # NewLevel
      <4>1. i = 0 /\ RunSize(i) = BufferSize
        BY <3>3, FirstRunSize DEF KVInv
      <4>2. PICK P, d \in Seq(EntryOf) :
              Written(P) /\ Len(d) < BufferSize /\ KVLevels[0] = Flushed(P, d)
        BY <3>3, <4>1 DEF KVInv, FirstRuns
      <4>3. KVLevels[0][1] = RunOf(BufferSize, << >>, P) /\ KVLevels[0][2] = RunOf(Len(d), d, << >>)
        BY <4>2, FlushedParts
      <4>4. RunOK(RunOf(BufferSize, << >>, P), BufferSize)
        <5>1. BufferSize \in Nat /\ Len(P) = BufferSize
          BY <4>2, TreeAssumption DEF Written
        <5> QED  BY <5>1, RunOfParts
      <4>5. RunOK(RunOf(Len(d), d, << >>), BufferSize)
        <5>1. BufferSize \in Nat /\ Len(d) \in Nat /\ Len(d) < BufferSize
          BY <4>2, TreeAssumption
        <5> QED  BY <5>1, RunOfParts
      <4> HIDE DEF RunOK
      <4> QED  BY <4>1, <4>3, <4>4, <4>5
    <3> QED  BY <3>2, <3>3
  <2> QED  BY <2>1 DEF KVTypeOK, KVInv, BufferOK
<1>2. KVInv /\ [KVNext]_kvvars => KVInv'
  BY KVNextKeeps
<1> QED  BY <1>1, <1>2, KVInitInv, PTL DEF KVSpec

\* OneRunOnDevice holds if the buffer takes more than one entry (the code's takes 64
\* pages): the coordinator exits unless a run it writes begins with the key 1, and the
\* entries behind a full first run do not.
THEOREM RunsStayAlone ==
  ASSUME BufferSize > 1
  PROVE  KVSpec => []OneRunOnDevice
<1>1. KVInv => OneRunOnDevice
  <2> SUFFICES ASSUME KVInv, NEW i \in Level, NEW r \in {1, 2}, i # 0 \/ r # 1
               PROVE  KVLevels[i][r].page = << >> /\ (i # 0 => KVLevels[i][r].size = 0)
    BY DEF OneRunOnDevice
  <2>1. NewLevel[r].page = << >> /\ NewLevel[r].size = 0
    BY NewLevelParts, RunOfParts
  <2>2. CASE i # 0
    BY <2>1, <2>2 DEF KVInv
  <2>3. CASE i = 0 /\ KVLevels[0] = NewLevel
    BY <2>1, <2>3
  <2>4. CASE i = 0 /\ KVLevels[0] # NewLevel
    <3>1. PICK P, d \in Seq(EntryOf) : KVLevels[0] = Flushed(P, d)
      BY <2>4 DEF KVInv, FirstRuns
    <3>2. r = 2
      BY <2>4
    <3> QED  BY <2>4, <3>1, <3>2, FlushedParts, RunOfParts
  <2> QED  BY <2>2, <2>3, <2>4
<1>2. KVInv /\ [KVNext]_kvvars => KVInv'
  BY KVNextKeeps
<1> QED  BY <1>1, <1>2, KVInitInv, PTL DEF KVSpec

LEMMA KVRunAnswersKinds ==
  ASSUME NEW run, run.Rundata \in Seq(EntryOf), NEW max, NEW k
  PROVE  /\ NothingOrValues(KVRunAnswers(run, max, k))
         /\ run.size # 0 /\ ~KVOutOfFences(run, max, k) => KVRunAnswers(run, max, k) \subseteq AnyValue
BY FoundInValues DEF KVRunAnswers, NothingOrValues

\* A lookup of a key that is kept finds something.
LEMMA KeptIsFound ==
  ASSUME KVInv, NEW k \in Key, k \notin DOMAIN kvbuffer,
         NEW v, KeptIn(KVLevels[0], k, v)
  PROVE  KVHolds(k, v) /\ NullPointer \notin KVGetValue(k)
<1>1. BufferSize \in Nat \ {0} /\ k \in Nat /\ NumLevels \in Nat \ {0} /\ 0 \in Level
  BY TreeAssumption DEF Level
<1>2. KVLevels[0] # NewLevel
  BY NewLevelParts, RunOfParts DEF KeptIn, HasEntry
<1>3. PICK P, d \in Seq(EntryOf) :
        Written(P) /\ Len(d) < BufferSize /\ KVLevels[0] = Flushed(P, d)
  BY <1>2 DEF KVInv, FirstRuns
<1>4. KVLevels[0][1] = RunOf(BufferSize, << >>, P) /\ KVLevels[0][2] = RunOf(Len(d), d, << >>)
  BY <1>3, FlushedParts
<1>5. HasEntry(P, k, v) \/ HasEntry(d, k, v)
  BY <1>4, RunOfParts DEF KeptIn
<1>6. KVHolds(k, v)
  <2>1. CASE HasEntry(P, k, v)
    BY <1>1, <1>4, <2>1, FirstRunSize, RunOfParts DEF KVHolds, HasEntry
  <2>2. CASE HasEntry(d, k, v)
    <3>1. Len(d) # BufferSize
      BY <1>1, <1>3
    <3> QED  BY <1>1, <1>4, <2>2, <3>1, FirstRunSize, RunOfParts DEF KVHolds, HasEntry
  <2> QED  BY <1>5, <2>1, <2>2
<1> DEFINE one == KVRunAnswers(KVLevels[0][1], RunSize(0), k)
           two == KVRunAnswers(KVLevels[0][2], RunSize(0), k)
           answers == [r \in {1, 2} |-> KVRunAnswers(KVLevels[0][r], RunSize(0), k)]
           levels == [i \in 1 .. NumLevels |-> KVLevelAnswers(i - 1, k)]
<1>7. << >> \in Seq(EntryOf)
  OBVIOUS
<1>8. NothingOrValues(one) /\ NothingOrValues(two)
  <2>1. KVLevels[0][1].Rundata = << >> /\ KVLevels[0][2].Rundata = d
    BY <1>4, RunOfParts
  <2> QED  BY <1>3, <1>7, <2>1, KVRunAnswersKinds
<1>9. HasEntry(P, k, v) => one \subseteq AnyValue
  <2> SUFFICES ASSUME HasEntry(P, k, v) PROVE one \subseteq AnyValue
    OBVIOUS
  <2>1. k \in KeysOf(P)
    BY DEF HasEntry, KeysOf
  <2>2. ~KVOutOfFences(KVLevels[0][1], RunSize(0), k)
    <3>1. KVLevels[0][1].page = P
      BY <1>4, RunOfParts
    <3> QED  BY <1>1, <2>1, <3>1 DEF KVOutOfFences
  <2>3. KVLevels[0][1].Rundata = << >> /\ KVLevels[0][1].size # 0
    BY <1>1, <1>4, RunOfParts
  <2> QED  BY <1>7, <2>2, <2>3, KVRunAnswersKinds
<1>10. HasEntry(d, k, v) => two \subseteq AnyValue
  <2> SUFFICES ASSUME HasEntry(d, k, v) PROVE two \subseteq AnyValue
    OBVIOUS
  <2>1. Len(d) # 0 /\ Len(d) # BufferSize
    BY <1>1, <1>3 DEF HasEntry
  <2>2. ~KVOutOfFences(KVLevels[0][2], RunSize(0), k)
    BY <1>4, <2>1, FirstRunSize, RunOfParts DEF KVOutOfFences
  <2>3. KVLevels[0][2].Rundata = d /\ KVLevels[0][2].size # 0
    BY <1>4, <2>1, RunOfParts
  <2> QED  BY <1>3, <2>2, <2>3, KVRunAnswersKinds
<1>11. KVLevelAnswers(0, k) \subseteq AnyValue
  <2>1. DOMAIN answers = 1 .. 2 /\ 2 \in Nat /\ answers[1] = one /\ answers[2] = two
    OBVIOUS
  <2>2. KVLevelAnswers(0, k) = FirstAnswer(answers)
    BY DEF KVLevelAnswers
  <2>3. one \subseteq AnyValue \/ two \subseteq AnyValue
    BY <1>5, <1>9, <1>10
  <2> HIDE DEF one, two, answers
  <2>4. \A i \in 1 .. 2 : NothingOrValues(answers[i])
    BY <1>8, <2>1
  <2>5. \E i \in 1 .. 2 : answers[i] # {NullPointer}
    BY <2>1, <2>3, NullIsNoValue
  <2> QED  BY <2>1, <2>2, <2>4, <2>5, FirstAnswerKinds
<1>12. \A i \in 1 .. NumLevels : NothingOrValues(levels[i])
  <2>1. SUFFICES ASSUME NEW i \in 1 .. NumLevels, i # 1
                 PROVE  NothingOrValues(KVLevelAnswers(i - 1, k))
    BY <1>11 DEF NothingOrValues
  <2>2. i - 1 \in Level \ {0}
    BY <1>1, <2>1 DEF Level
  <2> DEFINE below == [r \in {1, 2} |-> KVRunAnswers(KVLevels[i - 1][r], RunSize(i - 1), k)]
  <2>3. \A r \in {1, 2} : KVLevels[i - 1][r].size = 0
    BY <2>2, NewLevelParts, RunOfParts DEF KVInv
  <2>4. \A r \in 1 .. 2 : NothingOrValues(below[r])
    BY <2>3 DEF KVRunAnswers, NothingOrValues
  <2>5. DOMAIN below = 1 .. 2 /\ KVLevelAnswers(i - 1, k) = FirstAnswer(below)
    BY DEF KVLevelAnswers
  <2> HIDE DEF below
  <2> QED  BY <2>4, <2>5, FirstAnswerKinds
<1>13. KVGetValue(k) = FirstAnswer(levels)
  BY DEF KVGetValue, KVBufferGet, BufferGet
<1>14. levels[1] = KVLevelAnswers(0, k) /\ DOMAIN levels = 1 .. NumLevels
  BY <1>1
<1> HIDE DEF levels
<1>15. \E i \in 1 .. NumLevels : levels[i] # {NullPointer}
  BY <1>1, <1>11, <1>14, NullIsNoValue
<1> QED  BY <1>1, <1>6, <1>12, <1>13, <1>14, <1>15, FirstAnswerKinds, NullIsNoValue

\* LiveKeysKept holds for such a buffer: every flush the process survives merges the run
\* on the device, and GetValue asks that run about all the keys it has.
THEOREM LiveKeysAreKept ==
  ASSUME BufferSize > 1
  PROVE  KVSpec => []LiveKeysKept
<1>1. KVInv => LiveKeysKept
  <2> SUFFICES ASSUME KVInv, NEW k \in DOMAIN kvgiven, kvgiven[k] # Deleted
               PROVE  /\ (k \in DOMAIN kvbuffer /\ kvbuffer[k] = kvgiven[k])
                           \/ KVHolds(k, kvgiven[k])
                      /\ NullPointer \notin KVGetValue(k)
    BY DEF LiveKeysKept
  <2>1. k \in Key
    BY DEF KVInv
  <2>2. CASE k \in DOMAIN kvbuffer
    <3>1. kvbuffer[k] = kvgiven[k] /\ kvbuffer[k] \in AnyValue
      BY <2>2 DEF KVInv, BufferOK
    <3>2. KVGetValue(k) = {kvbuffer[k]}
      BY <2>2, <3>1, NullIsNoValue DEF KVGetValue, KVBufferGet, BufferGet
    <3> QED  BY <2>2, <3>1, <3>2, NullIsNoValue
  <2>3. CASE k \notin DOMAIN kvbuffer
    <3>1. KeptIn(KVLevels[0], k, kvgiven[k])
      BY <2>3 DEF KVInv
    <3> QED  BY <2>1, <2>3, <3>1, KeptIsFound
  <2> QED  BY <2>2, <2>3
<1>2. KVInv /\ [KVNext]_kvvars => KVInv'
  BY KVNextKeeps
<1> QED  BY <1>1, <1>2, KVInitInv, PTL DEF KVSpec
=============================================================================
