--------------------------- MODULE LRUCacheProofs ---------------------------
(***************************************************************************)
(* The invariants of LRUCache, and that it is a least-recently-used cache, *)
(* for every set of pages, every page content and every capacity.          *)
(***************************************************************************)
EXTENDS MCLRUCache, BasicLemmas

LRUInv == LRUTypeOK /\ MapMatchesList /\ WithinCapacity

\* The map's key of a page number is a value of the map's key type.
LEMMA NarrowType ==
  ASSUME NEW page \in Page
  PROVE  Narrow(page) \in 0 .. (IntRange - 1)
  BY PageAssumption DEF Narrow

\* What moving (or replacing) the node at position i leaves in the list.
LEMMA MoveToFrontProperties ==
  ASSUME cache \in Seq(ReadNode), NEW i \in DOMAIN cache, NEW node \in ReadNode
  PROVE  /\ MoveToFront(i, node) \in Seq(ReadNode)
         /\ Len(MoveToFront(i, node)) = Len(cache)
         /\ MoveToFront(i, node)[1] = node
         /\ \A j \in 2 .. Len(cache) :
              MoveToFront(i, node)[j] = IF j - 1 < i THEN cache[j - 1] ELSE cache[j]
  <1> DEFINE rest == RemoveAt(cache, i)
  <1>1. /\ rest \in Seq(ReadNode)
        /\ Len(rest) = Len(cache) - 1
        /\ \A j \in 1 .. (Len(cache) - 1) :
              rest[j] = IF j < i THEN cache[j] ELSE cache[j + 1]
    <2>1. i \in 1 .. Len(cache)
      OBVIOUS
    <2> QED  BY <2>1, RemoveAtProperties
  <1>2. MoveToFront(i, node) = <<node>> \o rest
    BY DEF MoveToFront
  <1> HIDE DEF rest
  <1>3. /\ <<node>> \o rest \in Seq(ReadNode)
        /\ Len(<<node>> \o rest) = Len(rest) + 1
        /\ \A j \in 1 .. (Len(rest) + 1) :
             (<<node>> \o rest)[j] = IF j = 1 THEN node ELSE rest[j - 1]
    BY <1>1, PushFrontProperties
  <1>4. Len(cache) \in Nat /\ i \in 1 .. Len(cache)
    OBVIOUS
  <1>5. ASSUME NEW j \in 2 .. Len(cache)
        PROVE  (<<node>> \o rest)[j] =
                  IF j - 1 < i THEN cache[j - 1] ELSE cache[j]
    <2>1. j - 1 \in 1 .. (Len(cache) - 1) /\ (j - 1) + 1 = j /\ j # 1
          /\ j \in 1 .. (Len(rest) + 1)
      BY <1>1, <1>4
    <2> QED  BY <1>1, <1>3, <2>1
  <1> QED  BY <1>1, <1>2, <1>3, <1>4, <1>5

\* Every step that erases the node at position i and pushes a node for "page"
\* keeps the list and the map in agreement, when the erased node's key leaves
\* the map and no other node has the key of the new one.
LEMMA ReplacePreserves ==
  ASSUME LRUInv, NEW i \in DOMAIN cache, NEW page \in Page,
         NEW node \in ReadNode, Narrow(node.PageId) = Narrow(page),
         NEW gone, gone = {Narrow(cache[i].PageId)},
         Narrow(page) \notin DOMAIN HashMap \ gone,
         cache' = MoveToFront(i, node),
         HashMap' = Remap(gone, page, node),
         capacity' = capacity
  PROVE  LRUInv'
  <1>1. /\ cache' \in Seq(ReadNode)
        /\ Len(cache') = Len(cache)
        /\ cache'[1] = node
        /\ \A j \in 2 .. Len(cache) :
              cache'[j] = IF j - 1 < i THEN cache[j - 1] ELSE cache[j]
    <2>1. cache \in Seq(ReadNode)
      BY DEF LRUInv, LRUTypeOK
    <2>2. /\ MoveToFront(i, node) \in Seq(ReadNode)
          /\ Len(MoveToFront(i, node)) = Len(cache)
          /\ MoveToFront(i, node)[1] = node
          /\ \A j \in 2 .. Len(cache) :
               MoveToFront(i, node)[j] = IF j - 1 < i THEN cache[j - 1] ELSE cache[j]
      BY <2>1, MoveToFrontProperties
    <2> QED  BY <2>2
  <1>2. /\ Len(cache) \in Nat /\ i \in 1 .. Len(cache) /\ i \in Nat
        /\ DOMAIN cache = 1 .. Len(cache) /\ DOMAIN cache' = 1 .. Len(cache)
    BY <1>1 DEF LRUInv, LRUTypeOK
  <1>3. \* Every later node of the new list is another node of the old one.
        \A j \in 2 .. Len(cache) : \E k \in DOMAIN cache :
           k # i /\ cache'[j] = cache[k] /\ k = (IF j - 1 < i THEN j - 1 ELSE j)
    BY <1>1, <1>2
  <1>4. \* No other node of the old list is lost.
        \A k \in DOMAIN cache : k # i =>
           \E j \in DOMAIN cache' : cache'[j] = cache[k]
    <2>1. SUFFICES ASSUME NEW k \in DOMAIN cache, k # i
                   PROVE  \E j \in DOMAIN cache' : cache'[j] = cache[k]
      OBVIOUS
    <2>2. CASE k < i
      <3>1. k + 1 \in 2 .. Len(cache) /\ (k + 1) - 1 = k
        BY <1>2, <2>2
      <3> QED  BY <1>1, <1>2, <2>2, <3>1
    <2>3. CASE k > i
      <3>1. k \in 2 .. Len(cache) /\ ~(k - 1 < i)
        BY <1>2, <2>3
      <3> QED  BY <1>1, <1>2, <3>1
    <2> QED  BY <1>2, <2>1, <2>2, <2>3
  <1>5. \A k \in DOMAIN cache : k # i =>
           /\ Narrow(cache[k].PageId) \in DOMAIN HashMap \ gone
           /\ HashMap[Narrow(cache[k].PageId)] = cache[k]
           /\ Narrow(cache[k].PageId) # Narrow(page)
    BY DEF LRUInv, MapMatchesList, NodesMapped, KeysDistinct
  <1>6. /\ DOMAIN HashMap' = (DOMAIN HashMap \ gone) \cup {Narrow(page)}
        /\ HashMap'[Narrow(page)] = node
        /\ \A x \in DOMAIN HashMap \ gone : HashMap'[x] = HashMap[x]
    BY DEF Remap
  <1>7. LRUTypeOK'
    <2>1. DOMAIN HashMap' \subseteq 0 .. (IntRange - 1)
      BY <1>6, NarrowType DEF LRUInv, LRUTypeOK
    <2>2. \A x \in DOMAIN HashMap' : HashMap'[x] \in ReadNode
      BY <1>6 DEF LRUInv, LRUTypeOK
    <2> QED  BY <1>1, <2>1, <2>2 DEF LRUInv, LRUTypeOK
  <1>8. IteratorsValid'
    <2>1. SUFFICES ASSUME NEW x \in DOMAIN HashMap'
                   PROVE  /\ \E j \in DOMAIN cache' : cache'[j] = HashMap'[x]
                          /\ Narrow(HashMap'[x].PageId) = x
      BY DEF IteratorsValid, Narrow
    <2>2. CASE x = Narrow(page)
      <3>1. 1 \in DOMAIN cache'
        BY <1>2
      <3> QED  BY <1>1, <1>6, <2>2, <3>1
    <2>3. CASE x # Narrow(page)
      <3>1. x \in DOMAIN HashMap \ gone /\ HashMap'[x] = HashMap[x]
        BY <1>6, <2>3
      <3>2. PICK k \in DOMAIN cache : cache[k] = HashMap[x]
        BY <3>1 DEF LRUInv, MapMatchesList, IteratorsValid
      <3>3. Narrow(HashMap[x].PageId) = x
        BY <3>1 DEF LRUInv, MapMatchesList, IteratorsValid
      <3>4. k # i
        BY <3>1, <3>2, <3>3
      <3> QED  BY <1>4, <3>1, <3>2, <3>3, <3>4
    <2> QED  BY <2>2, <2>3, Zenon
  <1>9. NodesMapped'
    <2>1. SUFFICES ASSUME NEW j \in DOMAIN cache'
                   PROVE  /\ Narrow(cache'[j].PageId) \in DOMAIN HashMap'
                          /\ HashMap'[Narrow(cache'[j].PageId)] = cache'[j]
      BY DEF NodesMapped, Narrow
    <2>2. CASE j = 1
      BY <1>1, <1>6, <2>2
    <2>3. CASE j # 1
      <3>1. j \in 2 .. Len(cache)
        BY <1>2, <2>3
      <3>2. PICK k \in DOMAIN cache : k # i /\ cache'[j] = cache[k]
        BY <1>3, <3>1
      <3> QED  BY <1>5, <1>6, <3>2
    <2> QED  BY <2>2, <2>3
  <1>10. KeysDistinct'
    <2>1. SUFFICES ASSUME NEW j1 \in DOMAIN cache', NEW j2 \in DOMAIN cache',
                          Narrow(cache'[j1].PageId) = Narrow(cache'[j2].PageId)
                   PROVE  j1 = j2
      BY DEF KeysDistinct, Narrow
    <2>2. CASE j1 = 1 \/ j2 = 1
      <3>1. SUFFICES ASSUME NEW j \in 2 .. Len(cache)
                     PROVE  Narrow(cache'[j].PageId) # Narrow(page)
        BY <1>1, <1>2, <2>1, <2>2
      <3> QED  BY <1>3, <1>5
    <2>3. CASE j1 # 1 /\ j2 # 1
      <3>1. j1 \in 2 .. Len(cache) /\ j2 \in 2 .. Len(cache)
        BY <1>2, <2>3
      <3>2. PICK k1 \in DOMAIN cache :
                 cache'[j1] = cache[k1] /\ k1 = (IF j1 - 1 < i THEN j1 - 1 ELSE j1)
                 /\ k1 # i
        BY <1>3, <3>1
      <3>3. PICK k2 \in DOMAIN cache :
                 cache'[j2] = cache[k2] /\ k2 = (IF j2 - 1 < i THEN j2 - 1 ELSE j2)
                 /\ k2 # i
        BY <1>3, <3>1
      <3>4. k1 = k2
        BY <2>1, <3>2, <3>3 DEF LRUInv, MapMatchesList, KeysDistinct
      <3> QED  BY <1>2, <3>1, <3>2, <3>3, <3>4
    <2> QED  BY <2>2, <2>3
  <1>11. WithinCapacity'
    BY <1>1 DEF LRUInv, WithinCapacity
  <1> QED  BY <1>7, <1>8, <1>9, <1>10, <1>11 DEF LRUInv, MapMatchesList

\* A hit and a repeated put replace the node their key maps to.
LEMMA RefreshPreserves ==
  ASSUME LRUInv, NEW page \in Page, IsLRUPage(page),
         NEW i \in PositionOf(HashMap[Narrow(page)]),
         NEW node \in ReadNode, Narrow(node.PageId) = Narrow(page),
         cache' = MoveToFront(i, node),
         HashMap' = Remap({}, page, node),
         capacity' = capacity
  PROVE  LRUInv'
  <1>1. i \in DOMAIN cache /\ Narrow(cache[i].PageId) = Narrow(page)
    BY DEF PositionOf, IsLRUPage, LRUInv, MapMatchesList, IteratorsValid
  <1>2. HashMap' = Remap({Narrow(cache[i].PageId)}, page, node)
    BY <1>1 DEF Remap
  <1>3. Narrow(page) \notin DOMAIN HashMap \ {Narrow(cache[i].PageId)}
    BY <1>1
  <1> QED  BY <1>1, <1>2, <1>3, ReplacePreserves

LEMMA GetPreserves ==
  ASSUME LRUInv, NEW page \in Page, Get(page)
  PROVE  LRUInv'
  <1> DEFINE node == HashMap[Narrow(page)]
  <1>1. node \in ReadNode /\ Narrow(node.PageId) = Narrow(page)
    BY DEF Get, IsLRUPage, LRUInv, LRUTypeOK, MapMatchesList, IteratorsValid
  <1>2. PICK i \in PositionOf(node) :
             /\ cache' = MoveToFront(i, node)
             /\ HashMap' = Remap({}, page, node)
             /\ UNCHANGED capacity
    BY DEF Get
  <1> QED  BY <1>1, <1>2, RefreshPreserves DEF Get

LEMMA PutAgainPreserves ==
  ASSUME LRUInv, NEW page \in Page, NEW d \in Data, PutAgain(page, d)
  PROVE  LRUInv'
  <1> DEFINE node == [PageId |-> page, data |-> d]
  <1>1. node \in ReadNode /\ node.PageId = page
    BY DEF ReadNode
  <1>2. PICK i \in PositionOf(HashMap[Narrow(page)]) : cache' = MoveToFront(i, node)
    BY DEF PutAgain
  <1>3. HashMap' = Remap({}, page, node) /\ capacity' = capacity /\ IsLRUPage(page)
    BY DEF PutAgain
  <1> HIDE DEF node
  <1> QED  BY <1>1, <1>2, <1>3, RefreshPreserves

LEMMA PutNewPreserves ==
  ASSUME LRUInv, NEW page \in Page, NEW d \in Data, PutNew(page, d)
  PROVE  LRUInv'
  <1> DEFINE node == [PageId |-> page, data |-> d]
  <1>1. node \in ReadNode /\ node.PageId = page
    BY DEF ReadNode
  <1>2. Narrow(page) \notin DOMAIN HashMap /\ capacity' = capacity
    BY DEF PutNew, IsLRUPage
  <1>3. Len(cache) \in Nat /\ DOMAIN cache = 1 .. Len(cache) /\ capacity \in Nat
        /\ capacity >= 1 /\ Len(cache) <= capacity /\ cache \in Seq(ReadNode)
    BY PageAssumption DEF LRUInv, LRUTypeOK, WithinCapacity
  <1>4. CASE Len(cache) = capacity
    <2>1. /\ cache' = MoveToFront(Len(cache), node)
          /\ HashMap' = Remap({Narrow(cache[Len(cache)].PageId)}, page, node)
      BY <1>4 DEF PutNew
    <2>2. Len(cache) \in DOMAIN cache
      BY <1>3, <1>4
    <2> HIDE DEF node
    <2> QED  BY <1>1, <1>2, <2>1, <2>2, ReplacePreserves
  <1>5. CASE Len(cache) # capacity
    <2>1. cache' = <<node>> \o cache /\ HashMap' = Remap({}, page, node)
      BY <1>5 DEF PutNew
    <2> HIDE DEF node
    <2>2. /\ cache' \in Seq(ReadNode)
          /\ Len(cache') = Len(cache) + 1
          /\ \A j \in 1 .. (Len(cache) + 1) :
               cache'[j] = IF j = 1 THEN node ELSE cache[j - 1]
      BY <1>1, <1>3, <2>1, PushFrontProperties
    <2>3. /\ DOMAIN HashMap' = DOMAIN HashMap \cup {Narrow(page)}
          /\ HashMap'[Narrow(page)] = node
          /\ \A x \in DOMAIN HashMap : HashMap'[x] = HashMap[x]
      BY <1>2, <2>1 DEF Remap
    <2>4. DOMAIN cache' = 1 .. (Len(cache) + 1)
      BY <2>2
    <2>5. cache'[1] = node /\ 1 \in DOMAIN cache'
      BY <1>3, <2>2, <2>4
    <2>6. \A k \in DOMAIN cache : k + 1 \in DOMAIN cache' /\ cache'[k + 1] = cache[k]
      BY <1>3, <2>2, <2>4
    <2>7. \A j \in DOMAIN cache' : j # 1 =>
             j - 1 \in DOMAIN cache /\ cache'[j] = cache[j - 1]
      BY <1>3, <2>2, <2>4
    <2>8. LRUTypeOK'
      <3>1. DOMAIN HashMap' \subseteq 0 .. (IntRange - 1)
        BY <2>3, NarrowType DEF LRUInv, LRUTypeOK
      <3>2. \A x \in DOMAIN HashMap' : HashMap'[x] \in ReadNode
        BY <1>1, <2>3 DEF LRUInv, LRUTypeOK
      <3> QED  BY <1>2, <2>2, <3>1, <3>2 DEF LRUInv, LRUTypeOK
    <2>9. IteratorsValid'
      <3>1. SUFFICES ASSUME NEW x \in DOMAIN HashMap'
                     PROVE  /\ \E j \in DOMAIN cache' : cache'[j] = HashMap'[x]
                            /\ Narrow(HashMap'[x].PageId) = x
        BY DEF IteratorsValid, Narrow
      <3>2. CASE x = Narrow(page)
        BY <1>1, <2>3, <2>5, <3>2
      <3>3. CASE x # Narrow(page)
        <4>1. x \in DOMAIN HashMap /\ HashMap'[x] = HashMap[x]
          BY <2>3, <3>3
        <4> QED  BY <2>6, <4>1 DEF LRUInv, MapMatchesList, IteratorsValid
      <3> QED  BY <3>2, <3>3
    <2>10. NodesMapped'
      <3>1. SUFFICES ASSUME NEW j \in DOMAIN cache'
                     PROVE  /\ Narrow(cache'[j].PageId) \in DOMAIN HashMap'
                            /\ HashMap'[Narrow(cache'[j].PageId)] = cache'[j]
        BY DEF NodesMapped, Narrow
      <3>2. CASE j = 1
        BY <1>1, <2>3, <2>5, <3>2
      <3>3. CASE j # 1
        BY <2>3, <2>7, <3>3 DEF LRUInv, MapMatchesList, NodesMapped
      <3> QED  BY <3>2, <3>3
    <2>11. KeysDistinct'
      <3>1. SUFFICES ASSUME NEW j1 \in DOMAIN cache', NEW j2 \in DOMAIN cache',
                            Narrow(cache'[j1].PageId) = Narrow(cache'[j2].PageId)
                     PROVE  j1 = j2
        BY DEF KeysDistinct, Narrow
      <3>2. \A j \in DOMAIN cache' : j # 1 => Narrow(cache'[j].PageId) # Narrow(page)
        BY <1>2, <2>7 DEF LRUInv, MapMatchesList, NodesMapped
      <3>3. CASE j1 = 1 \/ j2 = 1
        BY <1>1, <2>5, <3>1, <3>2, <3>3
      <3>4. CASE j1 # 1 /\ j2 # 1
        <4>1. j1 - 1 = j2 - 1
          BY <2>7, <3>1, <3>4 DEF LRUInv, MapMatchesList, KeysDistinct
        <4> QED  BY <1>3, <2>4, <4>1
      <3> QED  BY <3>3, <3>4
    <2>12. WithinCapacity'
      <3>1. \A m, n \in Nat : m <= n /\ m # n => m + 1 <= n
        OBVIOUS
      <3>2. Len(cache) + 1 <= capacity
        BY <1>3, <1>5, <3>1
      <3> QED  BY <1>2, <2>2, <3>2 DEF WithinCapacity
    <2> QED  BY <2>8, <2>9, <2>10, <2>11, <2>12 DEF LRUInv, MapMatchesList
  <1> QED  BY <1>4, <1>5

\* ClearaReset leaves an empty cache, which agrees with an empty map.
LEMMA ClearaResetPreserves ==
  ASSUME NEW cap \in 1 .. MaxCapacity, ClearaReset(cap)
  PROVE  LRUInv'
  BY PageAssumption
  DEF ClearaReset, LRUInv, LRUTypeOK, MapMatchesList, IteratorsValid,
      NodesMapped, KeysDistinct, WithinCapacity

LEMMA LRUInitInv ==
  ASSUME NEW cap \in 1 .. MaxCapacity, LRUInit(cap)
  PROVE  LRUInv
  BY PageAssumption
  DEF LRUInit, LRUInv, LRUTypeOK, MapMatchesList, IteratorsValid,
      NodesMapped, KeysDistinct, WithinCapacity

LEMMA LRUStutterPreserves ==
  ASSUME LRUInv, UNCHANGED lruVars
  PROVE  LRUInv'
  BY DEF lruVars, LRUInv, LRUTypeOK, MapMatchesList, IteratorsValid,
         NodesMapped, KeysDistinct, WithinCapacity, Narrow

LEMMA LRUNextInv == LRUInv /\ [LRUNext]_lruVars => LRUInv'
  <1> SUFFICES ASSUME LRUInv, [LRUNext]_lruVars
               PROVE  LRUInv'
    OBVIOUS
  <1>1. ASSUME NEW page \in Page, Get(page)
        PROVE  LRUInv'
    BY <1>1, GetPreserves
  <1>2. ASSUME NEW page \in Page, GetMiss(page)
        PROVE  LRUInv'
    BY <1>2, LRUStutterPreserves DEF GetMiss
  <1>3. ASSUME NEW page \in Page, NEW d \in Data, Put(page, d)
        PROVE  LRUInv'
    BY <1>3, PutNewPreserves, PutAgainPreserves DEF Put
  <1>4. ASSUME NEW cap \in 1 .. MaxCapacity, ClearaReset(cap)
        PROVE  LRUInv'
    BY <1>4, ClearaResetPreserves
  <1>5. CASE UNCHANGED lruVars
    BY <1>5, LRUStutterPreserves
  <1> QED  BY <1>1, <1>2, <1>3, <1>4, <1>5 DEF LRUNext

\* The list holds pages and the map values of its key type, for every set of pages,
\* every width of that type and every capacity (lru.h:26-41).
THEOREM LRUTypesAreKept == LRUSpec => []LRUTypeOK
  <1>1. (\E cap \in 1 .. MaxCapacity : LRUInit(cap)) => LRUInv
    BY LRUInitInv
  <1>2. LRUInv => LRUTypeOK
    BY DEF LRUInv
  <1> QED  BY <1>1, <1>2, LRUNextInv, PTL DEF LRUSpec

\* In every reachable state of the cache, for every set of pages, key type and
\* capacity, the list and the map agree and the list is no longer than the
\* capacity (lru.cpp:3-67).
THEOREM LRUCacheCorrect ==
  LRUSpec => [](MapMatchesList /\ WithinCapacity)
  <1>1. (\E cap \in 1 .. MaxCapacity : LRUInit(cap)) => LRUInv
    BY LRUInitInv
  <1>2. LRUInv => MapMatchesList /\ WithinCapacity
    BY DEF LRUInv
  <1> QED  BY <1>1, <1>2, LRUNextInv, PTL DEF LRUSpec

-----------------------------------------------------------------------------
(* The refinement of RecencyCache.                                         *)

\* What the refinement mapping gives for held and newer when the list is l.
HeldIn(l) == [p \in {n.PageId : n \in ToSet(l)} |->
                (CHOOSE n \in ToSet(l) : n.PageId = p).data]
NewerIn(l) == {<<l[pair[1]].PageId, l[pair[2]].PageId>> :
                 pair \in {ij \in (DOMAIN l) \X (DOMAIN l) : ij[1] < ij[2]}}

PagesDistinct(l) ==
  /\ l \in Seq(ReadNode)
  /\ \A i, j \in DOMAIN l : l[i].PageId = l[j].PageId => i = j

LEMMA InvMakesDistinct ==
  /\ LRUInv => PagesDistinct(cache)
  /\ LRUInv' => PagesDistinct(cache')
  BY DEF LRUInv, LRUTypeOK, MapMatchesList, KeysDistinct, PagesDistinct, Narrow

LEMMA HeldMember ==
  ASSUME NEW l, PagesDistinct(l)
  PROVE  /\ DOMAIN HeldIn(l) = {l[i].PageId : i \in DOMAIN l}
         /\ \A i \in DOMAIN l : HeldIn(l)[l[i].PageId] = l[i].data
  <1>1. ToSet(l) = {l[i] : i \in DOMAIN l}
    BY DEF ToSet
  <1>2. DOMAIN HeldIn(l) = {l[i].PageId : i \in DOMAIN l}
    BY <1>1 DEF HeldIn
  <1>3. ASSUME NEW i \in DOMAIN l PROVE HeldIn(l)[l[i].PageId] = l[i].data
    <2> DEFINE p == l[i].PageId
               n == CHOOSE m \in ToSet(l) : m.PageId = p
    <2>1. l[i] \in ToSet(l) /\ l[i].PageId = p
      BY <1>1
    <2>2. n \in ToSet(l) /\ n.PageId = p
      BY <2>1
    <2>3. PICK k \in DOMAIN l : n = l[k]
      BY <1>1, <2>2
    <2>4. k = i
      BY <2>2, <2>3 DEF PagesDistinct
    <2>5. HeldIn(l)[p] = n.data
      BY <2>1 DEF HeldIn
    <2> QED  BY <2>3, <2>4, <2>5
  <1> QED  BY <1>2, <1>3

LEMMA NewerMember ==
  ASSUME NEW l, NEW x
  PROVE  x \in NewerIn(l) <=>
           \E a, b \in DOMAIN l : a < b /\ x = <<l[a].PageId, l[b].PageId>>
  <1>1. ASSUME x \in NewerIn(l)
        PROVE  \E a, b \in DOMAIN l : a < b /\ x = <<l[a].PageId, l[b].PageId>>
    <2>1. PICK pair \in {ij \in (DOMAIN l) \X (DOMAIN l) : ij[1] < ij[2]} :
             x = <<l[pair[1]].PageId, l[pair[2]].PageId>>
      BY <1>1 DEF NewerIn
    <2> QED  BY <2>1
  <1>2. ASSUME NEW a \in DOMAIN l, NEW b \in DOMAIN l,
               a < b /\ x = <<l[a].PageId, l[b].PageId>>
        PROVE  x \in NewerIn(l)
    <2>1. <<a, b>> \in {ij \in (DOMAIN l) \X (DOMAIN l) : ij[1] < ij[2]}
      BY <1>2
    <2>2. x = <<l[<<a, b>>[1]].PageId, l[<<a, b>>[2]].PageId>>
      BY <1>2
    <2> QED  BY <2>1, <2>2 DEF NewerIn
  <1> QED  BY <1>1, <1>2

\* As many pages are resident as the list has nodes.
LEMMA ResidentCount ==
  ASSUME NEW l, PagesDistinct(l)
  PROVE  Cardinality(DOMAIN HeldIn(l)) = Len(l)
  <1> DEFINE n == Len(l)
             f == [i \in 1 .. n |-> l[i].PageId]
  <1>1. n \in Nat /\ DOMAIN l = 1 .. n
    BY DEF PagesDistinct
  <1>2. DOMAIN HeldIn(l) = {l[i].PageId : i \in 1 .. n}
    BY <1>1, HeldMember
  <1> HIDE DEF n
  <1>3. f \in Bijection(1 .. n, DOMAIN HeldIn(l))
    <2>1. f \in [1 .. n -> DOMAIN HeldIn(l)]
      BY <1>2
    <2>2. \A i, j \in 1 .. n : f[i] = f[j] => i = j
      BY <1>1 DEF PagesDistinct
    <2>3. \A q \in DOMAIN HeldIn(l) : \E i \in 1 .. n : f[i] = q
      BY <1>2
    <2> QED  BY <2>1, <2>2, <2>3 DEF Bijection, Injection, Surjection, IsInjective
  <1>4. IsFiniteSet(1 .. n) /\ Cardinality(1 .. n) = n
    <2>1. 1 \in Int /\ n \in Int
      BY <1>1
    <2>2. /\ IsFiniteSet(1 .. n)
          /\ Cardinality(1 .. n) = IF 1 > n THEN 0 ELSE n - 1 + 1
      BY <2>1, FS_Interval
    <2>3. (IF 1 > n THEN 0 ELSE n - 1 + 1) = n
      BY <1>1
    <2> QED  BY <2>2, <2>3
  <1>5. ExistsBijection(1 .. n, DOMAIN HeldIn(l))
    BY <1>3 DEF ExistsBijection
  <1> QED  BY <1>4, <1>5, FS_Bijection DEF n

\* List m is list l once a node has been pushed and the one at position i, if there is
\* one, has been erased.
PushedAt(l, m, i, node) ==
  /\ m[1] = node
  /\ Len(m) = IF i <= Len(l) THEN Len(l) ELSE Len(l) + 1
  /\ \A j \in 2 .. Len(m) : m[j] = IF j - 1 < i THEN l[j - 1] ELSE l[j]

KeptPages(l, i) == {l[k].PageId : k \in DOMAIN l \ {i}}

\* The data and the order once node has been used, of the pages kept.
HeldAfter(l, kept, node) ==
  [p \in kept \cup {node.PageId} |-> IF p = node.PageId THEN node.data ELSE HeldIn(l)[p]]
NewerAfter(l, kept, page) ==
  {pair \in NewerIn(l) : pair[1] \in kept /\ pair[2] \in kept} \cup {<<page, q>> : q \in kept}

\* What the abstract cache has then.  The page is none of those kept.
LEMMA PushedInFront ==
  ASSUME NEW l, NEW m, PagesDistinct(l), PagesDistinct(m), NEW i \in 1 .. (Len(l) + 1),
         NEW node \in ReadNode, PushedAt(l, m, i, node)
  PROVE  /\ node.PageId \notin KeptPages(l, i) /\ KeptPages(l, i) \subseteq DOMAIN HeldIn(l)
         /\ HeldIn(m) = HeldAfter(l, KeptPages(l, i), node)
         /\ NewerIn(m) = NewerAfter(l, KeptPages(l, i), node.PageId)
  <1> DEFINE kept == KeptPages(l, i)
  <1>0. /\ m[1] = node
        /\ Len(m) = IF i <= Len(l) THEN Len(l) ELSE Len(l) + 1
        /\ \A j \in 2 .. Len(m) : m[j] = IF j - 1 < i THEN l[j - 1] ELSE l[j]
        /\ kept = {l[k].PageId : k \in DOMAIN l \ {i}}
    BY DEF PushedAt, KeptPages
  <1> HIDE DEF kept
  <1> DEFINE page == node.PageId
             old(j) == IF j - 1 < i THEN j - 1 ELSE j
             new(k) == IF k < i THEN k + 1 ELSE k
  <1>1. /\ Len(l) \in Nat /\ DOMAIN l = 1 .. Len(l)
        /\ Len(m) \in Nat /\ DOMAIN m = 1 .. Len(m)
        /\ i \in Nat /\ 1 \in DOMAIN m
    BY <1>0 DEF PagesDistinct
  <1>2. \A j \in 2 .. Len(m) : old(j) \in DOMAIN l \ {i} /\ m[j] = l[old(j)]
    BY <1>0, <1>1
  <1>3. \A k \in DOMAIN l \ {i} : new(k) \in 2 .. Len(m) /\ m[new(k)] = l[k]
    BY <1>0, <1>1
  <1>4. /\ \A j1, j2 \in 2 .. Len(m) : j1 < j2 => old(j1) < old(j2)
        /\ \A k1, k2 \in DOMAIN l \ {i} : k1 < k2 => new(k1) < new(k2)
    BY <1>0, <1>1
  <1> HIDE DEF old, new
  <1>5. page \notin kept
    <2> SUFFICES ASSUME NEW k \in DOMAIN l \ {i}, l[k].PageId = page PROVE FALSE
      BY <1>0
    <2>1. new(k) \in DOMAIN m /\ new(k) # 1 /\ m[new(k)].PageId = m[1].PageId
      BY <1>0, <1>1, <1>3
    <2> QED  BY <1>0, <1>1, <2>1 DEF PagesDistinct
  <1>6. kept \subseteq DOMAIN HeldIn(l)
    <2> SUFFICES ASSUME NEW k \in DOMAIN l \ {i} PROVE l[k].PageId \in DOMAIN HeldIn(l)
      BY <1>0
    <2> QED  BY HeldMember
  <1>7. \A j \in DOMAIN m : j = 1 \/ j \in 2 .. Len(m)
    BY <1>0, <1>1
  <1>8. HeldIn(m) = [p \in kept \cup {page} |-> IF p = page THEN node.data ELSE HeldIn(l)[p]]
    <2>1. /\ DOMAIN HeldIn(m) = {m[j].PageId : j \in DOMAIN m}
          /\ \A j \in DOMAIN m : HeldIn(m)[m[j].PageId] = m[j].data
      BY HeldMember
    <2>2. \A k \in DOMAIN l : HeldIn(l)[l[k].PageId] = l[k].data
      BY HeldMember
    <2>3. DOMAIN HeldIn(m) = kept \cup {page}
      <3>1. ASSUME NEW j \in DOMAIN m PROVE m[j].PageId \in kept \cup {page}
        BY <1>0, <1>2, <1>7
      <3>2. ASSUME NEW p \in kept \cup {page} PROVE \E j \in DOMAIN m : m[j].PageId = p
        <4>1. CASE p = page
          BY <1>0, <1>1, <4>1
        <4>2. ASSUME NEW k \in DOMAIN l \ {i}, p = l[k].PageId
              PROVE  \E j \in DOMAIN m : m[j].PageId = p
          BY <1>0, <1>1, <1>3, <4>2
        <4>3. p = page \/ \E k \in DOMAIN l \ {i} : p = l[k].PageId
          BY <1>0
        <4> QED  BY <4>1, <4>2, <4>3
      <3>3. {m[j].PageId : j \in DOMAIN m} = kept \cup {page}
        BY <3>1, <3>2, Zenon
      <3> QED  BY <2>1, <3>3
    <2>4. ASSUME NEW p \in kept \cup {page}
          PROVE  HeldIn(m)[p] = IF p = page THEN node.data ELSE HeldIn(l)[p]
      <3>1. CASE p = page
        BY <1>0, <1>1, <2>1, <3>1
      <3>2. ASSUME NEW k \in DOMAIN l \ {i}, p = l[k].PageId, p # page
            PROVE  HeldIn(m)[p] = HeldIn(l)[p]
        <4>1. new(k) \in DOMAIN m /\ m[new(k)] = l[k]
          BY <1>0, <1>1, <1>3
        <4> QED  BY <2>1, <2>2, <3>2, <4>1
      <3> QED  BY <1>0, <3>1, <3>2
    <2>5. HeldIn(m) = [p \in DOMAIN HeldIn(m) |-> HeldIn(m)[p]]
      BY DEF HeldIn
    <2> QED  BY <2>3, <2>4, <2>5
  <1>9. NewerIn(m) = {pair \in NewerIn(l) : pair[1] \in kept /\ pair[2] \in kept}
                       \cup {<<page, q>> : q \in kept}
    <2>1. ASSUME NEW x \in NewerIn(m)
          PROVE  \/ x \in NewerIn(l) /\ x[1] \in kept /\ x[2] \in kept
                 \/ \E q \in kept : x = <<page, q>>
      <3>1. PICK a \in DOMAIN m : \E b \in DOMAIN m :
               a < b /\ x = <<m[a].PageId, m[b].PageId>>
        BY NewerMember
      <3>2. PICK b \in DOMAIN m : a < b /\ x = <<m[a].PageId, m[b].PageId>>
        BY <3>1
      <3>3. b \in 2 .. Len(m)
        BY <1>0, <1>1, <3>2
      <3>4. m[b].PageId \in kept /\ m[b] = l[old(b)] /\ old(b) \in DOMAIN l
        BY <1>0, <1>2, <3>3
      <3>5. CASE a = 1
        BY <1>0, <3>2, <3>4, <3>5
      <3>6. CASE a \in 2 .. Len(m)
        <4>1. m[a].PageId \in kept /\ m[a] = l[old(a)] /\ old(a) \in DOMAIN l /\ old(a) < old(b)
          BY <1>0, <1>2, <1>4, <3>2, <3>3, <3>6
        <4>2. x \in NewerIn(l)
          BY <3>2, <3>4, <4>1, NewerMember
        <4> QED  BY <3>2, <3>4, <4>1, <4>2
      <3> QED  BY <1>7, <3>5, <3>6
    <2>2. ASSUME NEW x \in NewerIn(l), x[1] \in kept, x[2] \in kept
          PROVE  x \in NewerIn(m)
      <3>1. PICK a \in DOMAIN l : \E b \in DOMAIN l :
               a < b /\ x = <<l[a].PageId, l[b].PageId>>
        BY NewerMember
      <3>2. PICK b \in DOMAIN l : a < b /\ x = <<l[a].PageId, l[b].PageId>>
        BY <3>1
      <3>3. a \in DOMAIN l \ {i} /\ b \in DOMAIN l \ {i}
        BY <1>0, <2>2, <3>2 DEF PagesDistinct
      <3>4. /\ new(a) \in DOMAIN m /\ new(b) \in DOMAIN m /\ new(a) < new(b)
            /\ m[new(a)] = l[a] /\ m[new(b)] = l[b]
        BY <1>0, <1>1, <1>3, <1>4, <3>2, <3>3
      <3> QED  BY <3>2, <3>4, NewerMember
    <2>3. ASSUME NEW q \in kept PROVE <<page, q>> \in NewerIn(m)
      <3>1. PICK k \in DOMAIN l \ {i} : q = l[k].PageId
        BY <1>0
      <3>2. new(k) \in DOMAIN m /\ 1 < new(k) /\ m[new(k)] = l[k]
        BY <1>0, <1>1, <1>3
      <3> QED  BY <1>0, <1>1, <3>1, <3>2, NewerMember
    <2> QED  BY <2>1, <2>2, <2>3
  <1> QED  BY <1>5, <1>6, <1>8, <1>9 DEF kept, HeldAfter, NewerAfter

\* The conversion of page numbers confuses none, and the list is not too long.
LRUFit == LRUInv /\ \A p \in Page : Narrow(p) = p

LEMMA FoundAtPlace ==
  ASSUME LRUFit, NEW page \in Page, IsLRUPage(page)
  PROVE  /\ HashMap[Narrow(page)] \in ReadNode
         /\ HashMap[Narrow(page)].PageId = page
         /\ \A i \in PositionOf(HashMap[Narrow(page)]) :
              i \in DOMAIN cache /\ cache[i] = HashMap[Narrow(page)]
  <1>1. /\ HashMap[Narrow(page)] \in ReadNode
        /\ Narrow(HashMap[Narrow(page)].PageId) = Narrow(page)
    BY DEF LRUFit, LRUInv, IsLRUPage, LRUTypeOK, MapMatchesList, IteratorsValid
  <1>2. HashMap[Narrow(page)].PageId = page
    BY <1>1 DEF LRUFit, ReadNode
  <1> QED  BY <1>1, <1>2 DEF PositionOf

\* Pages are resident exactly when the map has them.
LEMMA ResidentIsMapped ==
  ASSUME LRUFit, NEW page \in Page
  PROVE  IsLRUPage(page) <=> page \in DOMAIN HeldIn(cache)
  <1>1. DOMAIN HeldIn(cache) = {cache[i].PageId : i \in DOMAIN cache}
    BY InvMakesDistinct, HeldMember DEF LRUFit
  <1>2. ASSUME IsLRUPage(page) PROVE page \in DOMAIN HeldIn(cache)
    <2>1. \E i \in DOMAIN cache : cache[i] = HashMap[Narrow(page)]
      BY <1>2 DEF LRUFit, LRUInv, MapMatchesList, IteratorsValid, IsLRUPage
    <2> QED  BY <1>1, <1>2, <2>1, FoundAtPlace
  <1>3. ASSUME NEW i \in DOMAIN cache, page = cache[i].PageId PROVE IsLRUPage(page)
    BY <1>3 DEF LRUFit, LRUInv, MapMatchesList, NodesMapped, IsLRUPage
  <1> QED  BY <1>1, <1>2, <1>3

\* A node replaced or moved to the front: its page is used, and gets its data.
LEMMA MoveRefines ==
  ASSUME LRUFit, LRUInv', NEW i \in DOMAIN cache, NEW node \in ReadNode,
         cache' = MoveToFront(i, node)
  PROVE  LET kept == KeptPages(cache, i) IN
         /\ DOMAIN HeldIn(cache) = kept \cup {cache[i].PageId}
         /\ node.PageId \notin kept /\ cache[i].PageId \notin kept
         /\ HeldIn(cache') = HeldAfter(cache, kept, node)
         /\ NewerIn(cache') = NewerAfter(cache, kept, node.PageId)
  <1> DEFINE kept == KeptPages(cache, i)
  <1>1. PagesDistinct(cache) /\ PagesDistinct(cache')
    BY InvMakesDistinct DEF LRUFit
  <1>2. /\ Len(cache') = Len(cache) /\ cache'[1] = node
        /\ \A j \in 2 .. Len(cache) :
              cache'[j] = IF j - 1 < i THEN cache[j - 1] ELSE cache[j]
    <2>1. cache \in Seq(ReadNode)
      BY <1>1 DEF PagesDistinct
    <2>2. /\ MoveToFront(i, node) \in Seq(ReadNode)
          /\ Len(MoveToFront(i, node)) = Len(cache)
          /\ MoveToFront(i, node)[1] = node
          /\ \A j \in 2 .. Len(cache) :
               MoveToFront(i, node)[j] = IF j - 1 < i THEN cache[j - 1] ELSE cache[j]
      BY <2>1, MoveToFrontProperties
    <2> QED  BY <2>2
  <1>3. /\ i \in 1 .. (Len(cache) + 1) /\ i <= Len(cache)
        /\ Len(cache') = IF i <= Len(cache) THEN Len(cache) ELSE Len(cache) + 1
        /\ \A j \in 2 .. Len(cache') :
              cache'[j] = IF j - 1 < i THEN cache[j - 1] ELSE cache[j]
    BY <1>1, <1>2 DEF PagesDistinct
  <1>4. DOMAIN HeldIn(cache) = {cache[k].PageId : k \in DOMAIN cache}
    BY <1>1, HeldMember
  <1>5. DOMAIN HeldIn(cache) = kept \cup {cache[i].PageId}
    BY <1>4 DEF KeptPages
  <1>6. PushedAt(cache, cache', i, node)
    BY <1>2, <1>3 DEF PushedAt
  <1>7. /\ node.PageId \notin kept
        /\ HeldIn(cache') = HeldAfter(cache, kept, node)
        /\ NewerIn(cache') = NewerAfter(cache, kept, node.PageId)
    BY <1>1, <1>3, <1>6, PushedInFront
  <1>8. cache[i].PageId \notin kept
    BY <1>1 DEF KeptPages, PagesDistinct
  <1> QED  BY <1>5, <1>7, <1>8

\* The steps of the abstract cache in these terms.
HeldWith(pages, page, d) ==
  [p \in pages \cup {page} |-> IF p = page THEN d ELSE HeldIn(cache)[p]]

LEMMA AbstractSteps ==
  ASSUME NEW page, NEW d, NEW victim
  PROVE  LET resident == DOMAIN HeldIn(cache)
             used(kept) == NewerIn(cache)' = NewerAfter(cache, kept \ {page}, page)
                           /\ last' = page /\ capacity' = capacity
         IN
         /\ Recency!Use(page) <=>
              page \in resident /\ used(resident) /\ HeldIn(cache)' = HeldIn(cache)
         /\ Recency!Load(page, d) <=>
              /\ page \in resident \/ Cardinality(resident) < capacity
              /\ used(resident) /\ HeldIn(cache)' = HeldWith(resident, page, d)
         /\ Recency!Replace(victim, page, d) <=>
              /\ page \notin resident /\ Cardinality(resident) = capacity
              /\ victim \in resident
              /\ \A q \in resident \ {victim} : <<q, victim>> \in NewerIn(cache)
              /\ used(resident \ {victim})
              /\ HeldIn(cache)' = HeldWith(resident \ {victim}, page, d)
  <1>1. Recency!Resident = DOMAIN HeldIn(cache)
    BY DEF Recency!Resident, HeldIn
  <1>5. \A kept : Recency!UsedLast(page, kept) = NewerAfter(cache, kept \ {page}, page)
    BY DEF Recency!UsedLast, NewerIn, NewerAfter
  <1>6. \A pages : Recency!Holding(pages, page, d) = HeldWith(pages, page, d)
    BY DEF Recency!Holding, HeldWith, HeldIn
  <1>7. \A S : Recency!Cardinality(S) = Cardinality(S)
    BY DEF Recency!Cardinality, Cardinality
  <1>2. Recency!Use(page) <=>
          /\ page \in DOMAIN HeldIn(cache)
          /\ NewerIn(cache)' = NewerAfter(cache, DOMAIN HeldIn(cache) \ {page}, page)
          /\ last' = page /\ HeldIn(cache)' = HeldIn(cache) /\ capacity' = capacity
    BY <1>1 DEF Recency!Use, Recency!UsedLast, NewerIn, HeldIn, NewerAfter
  <1>3. Recency!Load(page, d) <=>
          /\ page \in DOMAIN HeldIn(cache) \/ Cardinality(DOMAIN HeldIn(cache)) < capacity
          /\ HeldIn(cache)' = HeldWith(DOMAIN HeldIn(cache), page, d)
          /\ NewerIn(cache)' = NewerAfter(cache, DOMAIN HeldIn(cache) \ {page}, page)
          /\ last' = page /\ capacity' = capacity
    BY <1>1, <1>5, <1>6, <1>7 DEF Recency!Load, NewerIn, HeldIn
  <1>4. Recency!Replace(victim, page, d) <=>
          /\ page \notin DOMAIN HeldIn(cache)
          /\ Cardinality(DOMAIN HeldIn(cache)) = capacity
          /\ victim \in DOMAIN HeldIn(cache)
          /\ \A q \in DOMAIN HeldIn(cache) \ {victim} : <<q, victim>> \in NewerIn(cache)
          /\ HeldIn(cache)' = HeldWith(DOMAIN HeldIn(cache) \ {victim}, page, d)
          /\ NewerIn(cache)' =
               NewerAfter(cache, (DOMAIN HeldIn(cache) \ {victim}) \ {page}, page)
          /\ last' = page /\ capacity' = capacity
    BY <1>1, <1>5, <1>6, <1>7 DEF Recency!Replace, Recency!Oldest, NewerIn, HeldIn
  <1> QED  BY <1>2, <1>3, <1>4

LEMMA GetRefines ==
  ASSUME LRUFit, LRUInv', NEW page \in Page, Get(page), last' = page
  PROVE  Recency!Use(page)
  <1> DEFINE node == HashMap[Narrow(page)]
  <1>1. IsLRUPage(page) /\ node \in ReadNode /\ node.PageId = page
    BY FoundAtPlace DEF Get
  <1>2. PICK i \in PositionOf(node) : cache' = MoveToFront(i, node) /\ UNCHANGED capacity
    BY DEF Get
  <1>3. i \in DOMAIN cache /\ cache[i] = node
    BY <1>1, <1>2, FoundAtPlace
  <1> DEFINE kept == KeptPages(cache, i)
  <1> HIDE DEF node
  <1>4. /\ DOMAIN HeldIn(cache) = kept \cup {page} /\ page \notin kept
        /\ HeldIn(cache') = HeldAfter(cache, kept, node)
        /\ NewerIn(cache') = NewerAfter(cache, kept, page)
    BY <1>1, <1>2, <1>3, MoveRefines
  <1>5. HeldIn(cache)[page] = node.data
    <2>1. PagesDistinct(cache)
      BY InvMakesDistinct DEF LRUFit
    <2>2. HeldIn(cache)[cache[i].PageId] = cache[i].data
      BY <1>3, <2>1, HeldMember
    <2> QED  BY <1>1, <1>3, <2>2
  <1> HIDE DEF kept
  <1>6. HeldIn(cache') = HeldIn(cache)
    <2>1. HeldIn(cache) = [p \in DOMAIN HeldIn(cache) |-> HeldIn(cache)[p]]
      BY DEF HeldIn
    <2> QED  BY <1>1, <1>4, <1>5, <2>1 DEF HeldAfter
  <1>7. DOMAIN HeldIn(cache) \ {page} = kept
    BY <1>4
  <1> QED  BY <1>2, <1>4, <1>6, <1>7, AbstractSteps

LEMMA PutAgainRefines ==
  ASSUME LRUFit, LRUInv', NEW page \in Page, NEW d \in Data, PutAgain(page, d), last' = page
  PROVE  Recency!Load(page, d)
  <1> DEFINE node == [PageId |-> page, data |-> d]
  <1>1. node \in ReadNode /\ node.PageId = page /\ node.data = d
    BY DEF ReadNode
  <1>2. PICK i \in PositionOf(HashMap[Narrow(page)]) : cache' = MoveToFront(i, node)
    BY DEF PutAgain
  <1>3. i \in DOMAIN cache /\ cache[i].PageId = page /\ capacity' = capacity
    BY <1>2, FoundAtPlace DEF PutAgain
  <1> DEFINE kept == KeptPages(cache, i)
  <1> HIDE DEF node
  <1>4. /\ DOMAIN HeldIn(cache) = kept \cup {page} /\ page \notin kept
        /\ HeldIn(cache') = HeldAfter(cache, kept, node)
        /\ NewerIn(cache') = NewerAfter(cache, kept, page)
    BY <1>1, <1>2, <1>3, MoveRefines
  <1> HIDE DEF kept
  <1>5. DOMAIN HeldIn(cache) \ {page} = kept /\ DOMAIN HeldIn(cache) \cup {page} = kept \cup {page}
    BY <1>4
  <1>6. HeldIn(cache') = HeldWith(DOMAIN HeldIn(cache), page, d)
    BY <1>1, <1>4, <1>5 DEF HeldAfter, HeldWith
  <1> QED  BY <1>3, <1>4, <1>5, <1>6, AbstractSteps

LEMMA PutNewRefines ==
  ASSUME LRUFit, LRUInv', NEW page \in Page, NEW d \in Data, PutNew(page, d), last' = page
  PROVE  \/ Recency!Load(page, d)
         \/ \E victim \in Recency!Resident : Recency!Replace(victim, page, d)
  <1> DEFINE node == [PageId |-> page, data |-> d]
  <1>1. node \in ReadNode /\ node.PageId = page /\ node.data = d
    BY DEF ReadNode
  <1>2. /\ PagesDistinct(cache) /\ PagesDistinct(cache')
        /\ Len(cache) \in Nat /\ DOMAIN cache = 1 .. Len(cache) /\ cache \in Seq(ReadNode)
        /\ capacity \in Nat /\ capacity >= 1 /\ Len(cache) <= capacity
    BY InvMakesDistinct, PageAssumption
    DEF LRUFit, LRUInv, LRUTypeOK, WithinCapacity, PagesDistinct
  <1>3. page \notin DOMAIN HeldIn(cache) /\ capacity' = capacity
    BY ResidentIsMapped DEF PutNew
  <1>4. Cardinality(DOMAIN HeldIn(cache)) = Len(cache)
    BY <1>2, ResidentCount
  <1>5. DOMAIN HeldIn(cache) = {cache[k].PageId : k \in DOMAIN cache}
    BY <1>2, HeldMember
  <1>6. CASE Len(cache) = capacity
    <2> DEFINE n == Len(cache)
               kept == KeptPages(cache, n)
               victim == cache[n].PageId
    <2>1. cache' = MoveToFront(n, node) /\ n \in DOMAIN cache
      BY <1>2, <1>6 DEF PutNew
    <2> HIDE DEF node
    <2>2. /\ DOMAIN HeldIn(cache) = kept \cup {victim} /\ victim \notin kept
          /\ HeldIn(cache') = HeldAfter(cache, kept, node)
          /\ NewerIn(cache') = NewerAfter(cache, kept, page)
      BY <1>1, <2>1, MoveRefines
    <2>3. \A q \in kept : <<q, victim>> \in NewerIn(cache)
      <3> SUFFICES ASSUME NEW k \in DOMAIN cache \ {n}
                   PROVE  <<cache[k].PageId, victim>> \in NewerIn(cache)
        BY DEF KeptPages
      <3>1. k < n
        BY <1>2
      <3> QED  BY <2>1, <3>1, NewerMember
    <2> HIDE DEF kept, victim
    <2>4. /\ DOMAIN HeldIn(cache) \ {victim} = kept /\ kept \ {page} = kept
          /\ victim \in DOMAIN HeldIn(cache)
      BY <1>3, <2>2
    <2>5. HeldIn(cache') = HeldWith(kept, page, d)
      BY <1>1, <2>2 DEF HeldAfter, HeldWith
    <2>6. Recency!Replace(victim, page, d)
      BY <1>3, <1>4, <1>6, <2>2, <2>3, <2>4, <2>5, AbstractSteps
    <2>7. victim \in Recency!Resident
      BY <2>4 DEF Recency!Resident, HeldIn
    <2> QED  BY <2>6, <2>7
  <1>7. CASE Len(cache) # capacity
    <2> DEFINE i == Len(cache) + 1
               kept == KeptPages(cache, i)
    <2>1. cache' = <<node>> \o cache
      BY <1>7 DEF PutNew
    <2> HIDE DEF node
    <2>2. /\ Len(cache') = Len(cache) + 1
          /\ \A j \in 1 .. (Len(cache) + 1) :
               cache'[j] = IF j = 1 THEN node ELSE cache[j - 1]
      BY <1>1, <1>2, <2>1, PushFrontProperties
    <2>3. PushedAt(cache, cache', i, node) /\ i \in 1 .. (Len(cache) + 1)
      BY <1>2, <2>2 DEF PushedAt
    <2>4. kept = DOMAIN HeldIn(cache)
      BY <1>2, <1>5 DEF KeptPages
    <2>5. /\ HeldIn(cache') = HeldAfter(cache, kept, node)
          /\ NewerIn(cache') = NewerAfter(cache, kept, page)
      BY <1>1, <1>2, <2>3, PushedInFront
    <2> HIDE DEF kept
    <2>6. kept \ {page} = kept
      BY <1>3, <2>4
    <2>7. HeldIn(cache') = HeldWith(kept, page, d)
      BY <1>1, <2>5 DEF HeldAfter, HeldWith
    <2>8. Len(cache) < capacity
      <3>1. \A m, n \in Nat : m <= n /\ m # n => m < n
        OBVIOUS
      <3> QED  BY <1>2, <1>7, <3>1
    <2> QED  BY <1>3, <1>4, <2>4, <2>5, <2>6, <2>7, <2>8, AbstractSteps
  <1> QED  BY <1>6, <1>7

LEMMA StepRefines ==
  ASSUME LRUFit, LRUInv', [MCNext]_<<lruVars, last>>
  PROVE  [Recency!Next]_Recency!recencyVars
  <1>1. ASSUME NEW page \in Page, Get(page), last' = page
        PROVE  Recency!Next
    BY <1>1, GetRefines DEF Recency!Next
  <1>2. ASSUME NEW page \in Page, GetMiss(page), UNCHANGED last
        PROVE  UNCHANGED Recency!recencyVars
    BY <1>2 DEF GetMiss, lruVars, Recency!recencyVars
  <1>3. ASSUME NEW page \in Page, NEW d \in Data, Put(page, d), last' = page
        PROVE  Recency!Next
    <2>1. CASE PutAgain(page, d)
      BY <1>3, <2>1, PutAgainRefines DEF Recency!Next
    <2>2. CASE PutNew(page, d)
      <3>1. \/ Recency!Load(page, d)
            \/ \E victim \in Recency!Resident : Recency!Replace(victim, page, d)
        BY <1>3, <2>2, PutNewRefines
      <3> QED  BY <3>1 DEF Recency!Next
    <2> QED  BY <1>3, <2>1, <2>2 DEF Put
  <1>4. ASSUME NEW cap \in 1 .. MaxCapacity, ClearaReset(cap), last' = NoPage
        PROVE  Recency!Next
    <2>1. cache' = << >> /\ capacity' = cap
      BY <1>4 DEF ClearaReset
    <2>2. HeldIn(cache') = [p \in {} |-> {}] /\ NewerIn(cache') = {}
      <3>1. ToSet(cache') = {} /\ DOMAIN cache' = {}
        BY <2>1 DEF ToSet
      <3> QED  BY <3>1 DEF HeldIn, NewerIn
    <2>3. Recency!Reset
      BY <1>4, <2>1, <2>2 DEF Recency!Reset, HeldIn, NewerIn
    <2> QED  BY <2>3 DEF Recency!Next
  <1>5. CASE UNCHANGED <<lruVars, last>>
    BY <1>5 DEF lruVars, Recency!recencyVars
  <1> QED  BY <1>1, <1>2, <1>3, <1>4, <1>5 DEF MCNext

LEMMA InitRefines == MCInit => Recency!Init
  <1> SUFFICES ASSUME MCInit PROVE Recency!Init
    OBVIOUS
  <1>1. cache = << >> /\ capacity \in 1 .. MaxCapacity /\ last = NoPage
    BY DEF MCInit, LRUInit
  <1>2. HeldIn(cache) = [p \in {} |-> {}] /\ NewerIn(cache) = {}
    <2>1. ToSet(cache) = {} /\ DOMAIN cache = {}
      BY <1>1 DEF ToSet
    <2> QED  BY <2>1 DEF HeldIn, NewerIn
  <1> QED  BY <1>1, <1>2 DEF Recency!Init, HeldIn, NewerIn

\* As long as every page number fits the map's key type: the list and the map together
\* are a least-recently-used cache, which answers with what was put last and evicts the
\* page used longest ago (lru.cpp:3-67).
THEOREM LRURefinesRecency ==
  ASSUME Page \subseteq 0 .. (IntRange - 1)
  PROVE  MCSpec => ImplementsRecency
  <1>1. \A p \in Page : Narrow(p) = p
    BY PageAssumption DEF Narrow
  <1>2. MCInit => LRUInv
    BY LRUInitInv DEF MCInit
  <1>3. LRUInv /\ [MCNext]_<<lruVars, last>> => LRUInv'
    <2>1. [MCNext]_<<lruVars, last>> => [LRUNext]_lruVars
      BY DEF MCNext, LRUNext, lruVars, GetMiss
    <2> QED  BY <2>1, LRUNextInv
  <1>4. LRUInv /\ LRUInv' /\ [MCNext]_<<lruVars, last>> => [Recency!Next]_Recency!recencyVars
    BY <1>1, StepRefines DEF LRUFit
  <1> QED  BY <1>2, <1>3, <1>4, InitRefines, PTL DEF MCSpec, ImplementsRecency, Recency!Spec
=============================================================================
