--------------------------- MODULE MemTierProofs ---------------------------
(***************************************************************************)
(* The TNC tree never answers with a wrong value, and keeps its deletion   *)
(* log in order, for every set of keys and values, every page, log and     *)
(* chunk size and every table size.                                        *)
(***************************************************************************)
EXTENDS MemTier, BasicLemmas

USE StoreAssumption, MemAssumption

-----------------------------------------------------------------------------
(* The index: the chains, the write buffer and the history of values.      *)

IndexTypeOK ==
  /\ indexs \in 0 .. PageCapacity
  /\ offset \in Offset
  /\ Pagedata \in [Slot -> Entry]
  /\ DataPagePointer \in Nat
  /\ global \in [List -> Seq(Node)]
  /\ dict \in [Key -> Value \cup {NotFound}]

IndexInv == IndexTypeOK /\ OffsetTracksBuffer /\ BufferAgrees

\* Every key has a chain.
LEMMA ListOfType ==
  ASSUME NEW k \in Key
  PROVE  ListOf(k) \in List
  BY DEF ListOf, List

\* The entry SyncWrite adds is in the slot that the returned offset names.
LEMMA SyncWriteEffect ==
  ASSUME IndexInv, NEW k \in Key, NEW v \in Value, NEW dpp \in Nat,
         SyncWrite(k, v, dpp)
  PROVE  /\ indexs' \in Slot
         /\ indexs' \in 0 .. PageCapacity
         /\ offset' \in Offset
         /\ offset'.slot = indexs'
         /\ Pagedata' = [Pagedata EXCEPT ![indexs'] = [key |-> k, val |-> v]]
         /\ Pagedata' \in [Slot -> Entry]
  <1>1. offset \in Offset /\ offset.slot = indexs /\ indexs \in 0 .. PageCapacity
    BY DEF IndexInv, IndexTypeOK, OffsetTracksBuffer
  <1>2. [key |-> k, val |-> v] \in Entry
    BY DEF Entry
  <1>3. ASSUME NEW base \in Offset, NEW pos \in Slot, pos = base.slot + 1,
               Append2Buffer(k, v, base, pos)
        PROVE  /\ indexs' = pos
               /\ offset' \in Offset
               /\ offset'.slot = pos
               /\ Pagedata' = [Pagedata EXCEPT ![pos] = [key |-> k, val |-> v]]
    BY <1>3 DEF Append2Buffer, Offset, Slot
  <1>4. CASE indexs < PageCapacity /\ Append2Buffer(k, v, offset, indexs + 1)
    <2>1. indexs + 1 \in Slot
      BY <1>1, <1>4 DEF Slot
    <2>2. /\ indexs' = indexs + 1 /\ offset' \in Offset /\ offset'.slot = indexs + 1
          /\ Pagedata' = [Pagedata EXCEPT ![indexs + 1] = [key |-> k, val |-> v]]
      BY <1>1, <1>3, <1>4, <2>1
    <2> QED  BY <1>2, <2>1, <2>2 DEF Slot, IndexInv, IndexTypeOK
  <1>5. CASE Append2Buffer(k, v, Rewound(dpp), 1)
    <2>1. Rewound(dpp) \in Offset /\ Rewound(dpp).slot = 0
      <3>1. offset.block \in Nat
        BY <1>1 DEF Offset, Block
      <3>2. \A n \in Nat : n % NumBlocks \in Block
        BY DEF Block
      <3>3. (offset.block + (IF dpp % SectorsPerChunk = 0 THEN 1 ELSE 0)) % NumBlocks
              \in Block
        BY <3>1, <3>2
      <3>4. dpp % SectorsPerChunk \in 0 .. (SectorsPerChunk - 1)
        OBVIOUS
      <3>5. 0 \in 0 .. PageCapacity
        OBVIOUS
      <3> QED  BY <3>3, <3>4, <3>5 DEF Rewound, Offset
    <2>2. 1 \in Slot
      BY DEF Slot
    <2>3. /\ indexs' = 1 /\ offset' \in Offset /\ offset'.slot = 1
          /\ Pagedata' = [Pagedata EXCEPT ![1] = [key |-> k, val |-> v]]
      BY <1>3, <1>5, <2>1, <2>2
    <2> QED  BY <1>2, <2>2, <2>3 DEF Slot, IndexInv, IndexTypeOK
  <1> QED  BY <1>4, <1>5 DEF SyncWrite

\* The keys of a chain's nodes are natural numbers.
LEMMA ChainKeys ==
  ASSUME NEW chain \in Seq(Node), NEW m \in 1 .. Len(chain)
  PROVE  chain[m] \in Node /\ chain[m].key \in Nat
  <1>1. chain[m] \in Node
    BY ElementOfSeq
  <1> QED  BY <1>1 DEF Node

\* At most one position of a chain answers a search that finds a node.
LEMMA SearchIsUnique ==
  ASSUME IndexTypeOK, NEW k \in Key, NEW i \in Positions(k), NEW j \in Positions(k),
         SearchNode(k, i), SearchNode(k, j), IsNode(k, i), IsNode(k, j)
  PROVE  i = j
  <1> DEFINE chain == global[ListOf(k)]
  <1>1. chain \in Seq(Node)
    BY ListOfType DEF IndexTypeOK
  <1>3. /\ i \in 1 .. (Len(chain) + 1) /\ j \in 1 .. (Len(chain) + 1)
        /\ i <= Len(chain) /\ j <= Len(chain)
        /\ chain[i].key >= k /\ chain[j].key >= k
        /\ \A m \in 1 .. (i - 1) : chain[m].key < k
        /\ \A m \in 1 .. (j - 1) : chain[m].key < k
    BY DEF SearchNode, StopsAt, IsNode, Positions
  <1> HIDE DEF chain
  <1>2. \A m \in 1 .. Len(chain) : chain[m].key \in Nat
    BY <1>1, ChainKeys
  <1>4. k \in Nat /\ Len(chain) \in Nat
    BY <1>1
  <1>5. ~(i < j)
    BY <1>2, <1>3, <1>4
  <1>6. ~(j < i)
    BY <1>2, <1>3, <1>4
  <1> QED  BY <1>3, <1>4, <1>5, <1>6

\* Where a walk for q ends after a node for k was inserted where the walk for k
\* ended: at the new node or, if q is another key, where it ended before.
LEMMA SearchAfterInsert ==
  ASSUME NEW chain \in Seq(Node), NEW k \in Nat, NEW i, StopsAt(chain, k, i),
         NEW e \in Node, e.key = k,
         NEW q \in Nat, NEW j \in 1 .. (Len(chain) + 1),
         StopsAt(InsertAt(chain, i, e), q, j)
  PROVE  \/ j = i
         \/ /\ q # k
            /\ \E p \in 1 .. Len(chain) :
                 StopsAt(chain, q, p) /\ InsertAt(chain, i, e)[j] = chain[p]
  <1> DEFINE longer == InsertAt(chain, i, e)
  <1>1. i \in 1 .. (Len(chain) + 1)
    BY DEF StopsAt
  <1>2. /\ longer \in Seq(Node)
        /\ Len(longer) = Len(chain) + 1
        /\ \A m \in 1 .. (Len(chain) + 1) :
             longer[m] = IF m < i THEN chain[m] ELSE IF m = i THEN e ELSE chain[m - 1]
    <2>1. /\ InsertAt(chain, i, e) \in Seq(Node)
          /\ Len(InsertAt(chain, i, e)) = Len(chain) + 1
          /\ \A m \in 1 .. (Len(chain) + 1) : InsertAt(chain, i, e)[m] =
               IF m < i THEN chain[m] ELSE IF m = i THEN e ELSE chain[m - 1]
      <3> HIDE DEF longer
      <3> QED  BY <1>1, InsertAtProperties, SMTT(30)
    <2> QED  BY <2>1
  <1>3. \A m \in 1 .. Len(chain) : chain[m].key \in Nat
    BY ChainKeys
  <1>4. StopsAt(longer, q, j)
    OBVIOUS
  <1> HIDE DEF longer
  <1>5. Len(chain) \in Nat /\ i \in Nat /\ j \in Nat
    BY <1>1
  <1>6. CASE j < i
    <2>1. /\ j \in 1 .. Len(chain)
          /\ longer[j] = chain[j]
          /\ \A m \in 1 .. (j - 1) : longer[m] = chain[m]
      BY <1>1, <1>2, <1>5, <1>6
    <2>2. StopsAt(chain, q, j)
      BY <1>1, <1>2, <1>4, <1>5, <1>6, <2>1 DEF StopsAt
    <2>3. chain[j].key >= q /\ chain[j].key < k
      BY <1>1, <1>5, <1>6, <2>1, <2>2 DEF StopsAt
    <2>4. q # k
      BY <1>3, <2>1, <2>3
    <2> QED  BY <2>1, <2>2, <2>4 DEF longer
  <1>7. CASE j > i
    <2>1. /\ j - 1 \in 1 .. Len(chain)
          /\ longer[j] = chain[j - 1]
          /\ longer[i] = e
      BY <1>1, <1>2, <1>5, <1>7
    <2>2. longer[i].key < q
      BY <1>1, <1>4, <1>5, <1>7 DEF StopsAt
    <2>3. \A m \in 1 .. (j - 2) : chain[m].key < q
      <3> SUFFICES ASSUME NEW m \in 1 .. (j - 2)
                   PROVE  chain[m].key < q
        OBVIOUS
      <3>1. CASE m < i
        BY <1>1, <1>2, <1>4, <1>5, <1>7, <3>1 DEF StopsAt
      <3>2. CASE m >= i
        <4>1. m + 1 \in 1 .. (j - 1) /\ m + 1 \in 1 .. (Len(chain) + 1) /\ m + 1 > i
          BY <1>1, <1>5, <3>2
        <4>2. longer[m + 1] = chain[m]
          BY <1>2, <1>5, <4>1
        <4> QED  BY <1>4, <4>1, <4>2 DEF StopsAt
      <3> QED  BY <1>5, <3>1, <3>2
    <2>4. longer[j].key >= q
      BY <1>2, <1>4, <1>5 DEF StopsAt
    <2>5. StopsAt(chain, q, j - 1)
      BY <1>5, <2>1, <2>3, <2>4 DEF StopsAt
    <2>6. q # k
      BY <2>1, <2>2
    <2> QED  BY <2>1, <2>5, <2>6 DEF longer
  <1> QED  BY <1>5, <1>6, <1>7

\* The only slot a SyncWrite for k changes is the one its new offset names.
\* BufferAgrees survives it if each node found afterwards names that slot or
\* one that the node found before for the same key, not k, already named.
LEMMA WriteAgrees ==
  ASSUME IndexInv, NEW k \in Key, NEW v \in Value, NEW dpp \in Nat,
         SyncWrite(k, v, dpp),
         dict' = [dict EXCEPT ![k] = v],
         \A q \in Key \ {0} : \A j \in Positions(q)' :
           SearchNode(q, j)' /\ Live(q, j)' =>
             \/ NodeAt(q, j)'.offset.slot = indexs'
             \/ /\ q # k
                /\ \E p \in Positions(q) :
                     /\ SearchNode(q, p) /\ Live(q, p)
                     /\ NodeAt(q, j)'.offset.slot = NodeAt(q, p).offset.slot
  PROVE  BufferAgrees'
  <1> SUFFICES ASSUME NEW q \in Key \ {0}, NEW j \in Positions(q)',
                      SearchNode(q, j)', Live(q, j)',
                      Pagedata'[NodeAt(q, j)'.offset.slot].key = q
               PROVE  Pagedata'[NodeAt(q, j)'.offset.slot].val = dict'[q]
    BY DEF BufferAgrees
  <1> DEFINE slot == NodeAt(q, j)'.offset.slot
  <1>1. /\ indexs' \in Slot
        /\ Pagedata' = [Pagedata EXCEPT ![indexs'] = [key |-> k, val |-> v]]
        /\ Pagedata \in [Slot -> Entry] /\ dict \in [Key -> Value \cup {NotFound}]
    BY SyncWriteEffect DEF IndexInv, IndexTypeOK
  <1>2. \/ slot = indexs'
        \/ /\ q # k
           /\ \E p \in Positions(q) : /\ SearchNode(q, p) /\ Live(q, p)
                                      /\ slot = NodeAt(q, p).offset.slot
    OBVIOUS
  <1>3. Pagedata'[slot].key = q
    OBVIOUS
  <1> HIDE DEF slot
  <1>4. CASE slot = indexs'
    <2>1. Pagedata'[slot] = [key |-> k, val |-> v]
      BY <1>1, <1>4
    <2>2. q = k /\ Pagedata'[slot].val = v
      BY <1>3, <2>1
    <2>3. dict'[q] = v
      BY <1>1, <2>2
    <2> QED  BY <2>2, <2>3 DEF slot
  <1>5. CASE slot # indexs'
    <2>1. PICK p \in Positions(q) : /\ SearchNode(q, p) /\ Live(q, p)
                                    /\ slot = NodeAt(q, p).offset.slot
      BY <1>2, <1>5
    <2>2. Pagedata'[slot] = Pagedata[slot]
      BY <1>1, <1>5
    <2>3. Pagedata[slot].val = dict[q]
      BY <1>3, <2>1, <2>2 DEF IndexInv, BufferAgrees
    <2>4. dict'[q] = dict[q]
      BY <1>1, <1>2, <1>5
    <2> QED  BY <2>2, <2>3, <2>4 DEF slot
  <1> QED  BY <1>4, <1>5

\* Steps that leave the chains and the write buffer alone and give no key but 0
\* a new value.
LEMMA IndexUntouched ==
  ASSUME IndexInv, UNCHANGED <<bufferVars, global>>, DataPagePointer' \in Nat,
         dict' \in [Key -> Value \cup {NotFound}],
         \A q \in Key \ {0} : dict'[q] = dict[q]
  PROVE  IndexInv'
  <1>1. indexs' = indexs /\ offset' = offset /\ Pagedata' = Pagedata /\ global' = global
    BY DEF bufferVars
  <1>2. IndexTypeOK'
    BY <1>1 DEF IndexInv, IndexTypeOK
  <1>3. OffsetTracksBuffer'
    BY <1>1 DEF IndexInv, OffsetTracksBuffer
  <1>4. BufferAgrees'
    BY <1>1 DEF IndexInv, BufferAgrees, Positions, SearchNode, ListOf, Live, IsNode,
                NodeAt
  <1> QED  BY <1>2, <1>3, <1>4 DEF IndexInv

LEMMA InsertKeepsIndex ==
  ASSUME IndexInv, NEW k \in Key, NEW v \in Value, InsertNode(k, v)
  PROVE  IndexInv'
  <1>1. /\ dict' = [dict EXCEPT ![k] = v]
        /\ dict \in [Key -> Value \cup {NotFound}]
        /\ DataPagePointer' = DataPagePointer /\ DataPagePointer \in Nat
    BY DEF InsertNode, logVars, IndexInv, IndexTypeOK
  <1>2. dict' \in [Key -> Value \cup {NotFound}]
    BY <1>1
  <1>3. CASE k = 0 /\ UNCHANGED <<bufferVars, global>>
    BY <1>1, <1>2, <1>3, IndexUntouched
  <1>4. ASSUME k # 0, SyncWrite(k, v, DataPagePointer),
               NEW i \in Positions(k), SearchNode(k, i),
               global' = [global EXCEPT ![ListOf(k)] =
                  InsertAt(@, i, [key |-> k, flag |-> 1, offset |-> offset'])]
        PROVE  IndexInv'
    <2> DEFINE l == ListOf(k)
               e == [key |-> k, flag |-> 1, offset |-> offset']
               chain == global[l]
               longer == InsertAt(chain, i, e)
    <2>1. /\ indexs' \in Slot /\ indexs' \in 0 .. PageCapacity
          /\ offset' \in Offset /\ offset'.slot = indexs' /\ Pagedata' \in [Slot -> Entry]
      BY <1>1, <1>4, SyncWriteEffect
    <2>2. e \in Node /\ e.key = k /\ e.offset.slot = indexs'
      BY <2>1 DEF Node
    <2>3. l \in List /\ chain \in Seq(Node) /\ global \in [List -> Seq(Node)]
      BY ListOfType DEF IndexInv, IndexTypeOK
    <2>4. StopsAt(chain, k, i) /\ i \in 1 .. (Len(chain) + 1)
      BY <1>4 DEF SearchNode, StopsAt
    <2>5. global' = [global EXCEPT ![l] = longer]
      BY <1>4
    <2>6. \A m \in 1 .. Len(chain) : chain[m].offset.slot \in Slot
      BY <2>3 DEF IndexInv, OffsetTracksBuffer
    <2> HIDE DEF l, e, chain
    <2>7. /\ longer \in Seq(Node)
          /\ Len(longer) = Len(chain) + 1
          /\ \A m \in 1 .. (Len(chain) + 1) :
               longer[m] = IF m < i THEN chain[m] ELSE IF m = i THEN e ELSE chain[m - 1]
      BY <2>2, <2>3, <2>4, InsertAtProperties, SMTT(30)
    <2>8. global' \in [List -> Seq(Node)] /\ global'[l] = longer
          /\ \A m \in List \ {l} : global'[m] = global[m]
      BY <2>3, <2>5, <2>7
    <2>9. Len(chain) \in Nat /\ i \in Nat /\ k \in Nat
      BY <2>3, <2>4
    <2>10. SUFFICES OffsetTracksBuffer' /\ BufferAgrees'
      BY <1>1, <1>2, <2>1, <2>8 DEF IndexInv, IndexTypeOK
    <2> HIDE DEF longer
    <2>11. OffsetTracksBuffer'
      <3>1. \A m \in 1 .. Len(longer) : longer[m].offset.slot \in Slot
        <4> SUFFICES ASSUME NEW m \in 1 .. Len(longer)
                     PROVE  longer[m].offset.slot \in Slot
          OBVIOUS
        <4>1. m \in 1 .. (Len(chain) + 1) /\ m \in Nat
          BY <2>7, <2>9
        <4>2. CASE m < i
          BY <2>4, <2>6, <2>7, <2>9, <4>1, <4>2
        <4>3. CASE m = i
          BY <2>1, <2>2, <2>7, <2>9, <4>1, <4>3
        <4>4. CASE m > i
          <5>1. longer[m] = chain[m - 1]
            BY <2>7, <2>9, <4>1, <4>4
          <5>2. m - 1 \in 1 .. Len(chain)
            BY <2>9, <4>1, <4>4, <2>4
          <5> QED  BY <2>6, <5>1, <5>2
        <4> QED  BY <2>9, <4>1, <4>2, <4>3, <4>4
      <3>2. \A m \in List : \A n \in DOMAIN global'[m] :
              global'[m][n].offset.slot \in Slot
        <4> SUFFICES ASSUME NEW m \in List, NEW n \in DOMAIN global'[m]
                     PROVE  global'[m][n].offset.slot \in Slot
          OBVIOUS
        <4>1. CASE m = l
          BY <2>7, <2>8, <3>1, <4>1
        <4>2. CASE m # l
          BY <2>8, <4>2 DEF IndexInv, OffsetTracksBuffer
        <4> QED  BY <4>1, <4>2
      <3> QED  BY <2>1, <3>2 DEF OffsetTracksBuffer
    <2>12. ASSUME NEW q \in Key \ {0}, NEW j \in Positions(q)',
                  SearchNode(q, j)', Live(q, j)'
           PROVE  \/ NodeAt(q, j)'.offset.slot = indexs'
                  \/ /\ q # k
                     /\ \E p \in Positions(q) :
                          /\ SearchNode(q, p) /\ Live(q, p)
                          /\ NodeAt(q, j)'.offset.slot = NodeAt(q, p).offset.slot
      <3>1. ListOf(q) \in List /\ q \in Nat
        BY ListOfType
      <3>2. /\ StopsAt(global'[ListOf(q)], q, j)
            /\ j <= Len(global'[ListOf(q)])
            /\ global'[ListOf(q)][j].flag = 1
            /\ NodeAt(q, j)' = global'[ListOf(q)][j]
        BY <2>12 DEF SearchNode, Live, IsNode, NodeAt, ListOf
      <3>3. CASE ListOf(q) # l
        <4>1. global'[ListOf(q)] = global[ListOf(q)]
          BY <2>8, <3>1, <3>3
        <4>2. j \in Positions(q) /\ SearchNode(q, j) /\ Live(q, j)
          BY <2>12, <3>2, <4>1 DEF Positions, SearchNode, Live, IsNode, NodeAt, ListOf
        <4>3. q # k
          BY <3>3 DEF l
        <4> QED  BY <3>2, <4>1, <4>2, <4>3 DEF NodeAt
      <3>4. CASE ListOf(q) = l
        <4>1. /\ StopsAt(longer, q, j) /\ j \in 1 .. (Len(chain) + 1)
              /\ longer[j].flag = 1 /\ NodeAt(q, j)' = longer[j]
          BY <2>7, <2>8, <2>9, <3>2, <3>4 DEF StopsAt
        <4>2. \/ j = i
              \/ /\ q # k
                 /\ \E p \in 1 .. Len(chain) :
                      StopsAt(chain, q, p) /\ longer[j] = chain[p]
          BY <2>2, <2>3, <2>4, <2>9, <3>1, <4>1, SearchAfterInsert DEF longer
        <4>3. CASE j = i
          <5>1. longer[j] = e
            BY <2>4, <2>7, <2>9, <4>3
          <5> QED  BY <2>2, <4>1, <5>1
        <4>4. ASSUME q # k, NEW p \in 1 .. Len(chain),
                     StopsAt(chain, q, p), longer[j] = chain[p]
              PROVE  /\ q # k
                     /\ \E r \in Positions(q) :
                          /\ SearchNode(q, r) /\ Live(q, r)
                          /\ NodeAt(q, j)'.offset.slot = NodeAt(q, r).offset.slot
          <5>1. chain = global[ListOf(q)]
            BY <3>4 DEF chain
          <5>2. p \in Positions(q) /\ p <= Len(chain)
            BY <2>9, <5>1 DEF Positions
          <5>3. SearchNode(q, p) /\ Live(q, p) /\ NodeAt(q, p) = chain[p]
            BY <4>1, <4>4, <5>1, <5>2 DEF SearchNode, Live, IsNode, NodeAt
          <5> QED  BY <4>1, <4>4, <5>2, <5>3
        <4> QED  BY <4>2, <4>3, <4>4
      <3> QED  BY <3>3, <3>4
    <2>13. BufferAgrees'
      BY <1>1, <1>4, <2>12, WriteAgrees
    <2> QED  BY <2>11, <2>13
  <1> QED  BY <1>3, <1>4 DEF InsertNode

\* The node found for k at position i is replaced by e, a node of the same key.
Edit(k, i, e) ==
  /\ i \in Positions(k) /\ SearchNode(k, i) /\ IsNode(k, i)
  /\ e \in Node /\ e.key = NodeAt(k, i).key
  /\ global' = [global EXCEPT ![ListOf(k)][i] = e]

\* After such a replacement: every other node found
\* by a search is the one that was found before.
LEMMA SearchAfterEdit ==
  ASSUME IndexTypeOK, NEW k \in Key, NEW i, NEW e, Edit(k, i, e)
  PROVE  \A q \in Key : \A j \in Positions(q)' :
           SearchNode(q, j)' /\ Live(q, j)' =>
             \/ NodeAt(q, j)' = e
             \/ /\ q # k /\ j \in Positions(q)
                /\ SearchNode(q, j) /\ Live(q, j)
                /\ NodeAt(q, j)' = NodeAt(q, j)
  <1> SUFFICES ASSUME NEW q \in Key, NEW j \in Positions(q)',
                      SearchNode(q, j)', Live(q, j)'
               PROVE  \/ NodeAt(q, j)' = e
                      \/ /\ q # k /\ j \in Positions(q)
                         /\ SearchNode(q, j) /\ Live(q, j)
                         /\ NodeAt(q, j)' = NodeAt(q, j)
    OBVIOUS
  <1>0. /\ i \in Positions(k) /\ SearchNode(k, i) /\ IsNode(k, i)
        /\ e \in Node /\ e.key = NodeAt(k, i).key
        /\ global' = [global EXCEPT ![ListOf(k)][i] = e]
    BY DEF Edit
  <1> DEFINE l == ListOf(k)
             chain == global[l]
             edited == [chain EXCEPT ![i] = e]
  <1>1. l \in List /\ chain \in Seq(Node) /\ global \in [List -> Seq(Node)]
    BY ListOfType DEF IndexTypeOK
  <1>2. i \in 1 .. Len(chain) /\ chain[i].key = e.key
    BY <1>0 DEF Positions, IsNode, NodeAt
  <1>3. global' = [global EXCEPT ![l] = edited]
    BY <1>0
  <1> HIDE DEF l, chain
  <1>4. /\ edited \in Seq(Node) /\ Len(edited) = Len(chain)
        /\ \A m \in 1 .. Len(chain) : edited[m] = IF m = i THEN e ELSE chain[m]
    BY <1>0, <1>1, <1>2
  <1>5. global'[l] = edited /\ \A m \in List \ {l} : global'[m] = global[m]
    BY <1>1, <1>3
  <1> HIDE DEF edited
  <1>6. ListOf(q) \in List
    BY ListOfType
  <1>7. /\ StopsAt(global'[ListOf(q)], q, j)
        /\ j <= Len(global'[ListOf(q)])
        /\ global'[ListOf(q)][j].flag = 1
        /\ NodeAt(q, j)' = global'[ListOf(q)][j]
    BY DEF SearchNode, Live, IsNode, NodeAt, ListOf
  <1>8. CASE ListOf(q) # l
    <2>1. global'[ListOf(q)] = global[ListOf(q)]
      BY <1>5, <1>6, <1>8
    <2>2. /\ j \in Positions(q) /\ SearchNode(q, j) /\ Live(q, j)
          /\ NodeAt(q, j)' = NodeAt(q, j)
      BY <1>7, <2>1 DEF Positions, SearchNode, Live, IsNode, NodeAt, ListOf
    <2>3. q # k
      BY <1>8 DEF l
    <2> QED  BY <2>2, <2>3
  <1>9. CASE ListOf(q) = l /\ j = i
    BY <1>2, <1>4, <1>5, <1>7, <1>9
  <1>10. CASE ListOf(q) = l /\ j # i
    <2>1. Len(chain) \in Nat
      BY <1>1
    <2>2. j \in 1 .. Len(chain) /\ edited[j] = chain[j]
      BY <1>4, <1>5, <1>7, <1>10, <2>1 DEF StopsAt
    <2>3. \A m \in 1 .. Len(chain) : edited[m].key = chain[m].key
      BY <1>2, <1>4
    <2>4. StopsAt(chain, q, j)
      <3>1. StopsAt(edited, q, j)
        BY <1>5, <1>7, <1>10
      <3>2. \A m \in 1 .. (j - 1) : m \in 1 .. Len(chain)
        BY <2>1, <2>2
      <3> QED  BY <1>4, <2>1, <2>2, <2>3, <3>1, <3>2 DEF StopsAt
    <2>5. chain = global[ListOf(q)]
      BY <1>10 DEF chain
    <2>6. /\ j \in Positions(q) /\ SearchNode(q, j) /\ IsNode(q, j)
          /\ NodeAt(q, j) = chain[j]
      BY <2>1, <2>2, <2>4, <2>5 DEF Positions, SearchNode, IsNode, NodeAt
    <2>7. NodeAt(q, j)' = chain[j] /\ chain[j].flag = 1
      BY <1>5, <1>7, <1>10, <2>2
    <2>8. q # k
      BY <1>0, <1>10, <2>6, SearchIsUnique
    <2> QED  BY <2>6, <2>7, <2>8 DEF Live
  <1> QED  BY <1>8, <1>9, <1>10

\* What the replacement does to the types and the slots of the chains.
LEMMA EditKeepsChains ==
  ASSUME IndexInv, NEW k \in Key, NEW i \in Positions(k), IsNode(k, i),
         NEW e \in Node, e.offset.slot \in Slot,
         global' = [global EXCEPT ![ListOf(k)][i] = e]
  PROVE  /\ global' \in [List -> Seq(Node)]
         /\ \A l \in List : \A m \in DOMAIN global'[l] :
              global'[l][m].offset.slot \in Slot
  <1> DEFINE l == ListOf(k)
             chain == global[l]
             edited == [chain EXCEPT ![i] = e]
  <1>1. l \in List /\ chain \in Seq(Node) /\ global \in [List -> Seq(Node)]
    BY ListOfType DEF IndexInv, IndexTypeOK
  <1>2. i \in 1 .. Len(chain)
    BY DEF Positions, IsNode
  <1>3. global' = [global EXCEPT ![l] = edited]
    OBVIOUS
  <1>4. \A m \in DOMAIN chain : chain[m].offset.slot \in Slot
    BY <1>1 DEF IndexInv, OffsetTracksBuffer
  <1> HIDE DEF l, chain
  <1>5. /\ edited \in Seq(Node) /\ DOMAIN edited = DOMAIN chain
        /\ \A m \in DOMAIN chain : edited[m] = IF m = i THEN e ELSE chain[m]
    BY <1>1, <1>2
  <1>6. \A m \in DOMAIN edited : edited[m].offset.slot \in Slot
    BY <1>4, <1>5
  <1> HIDE DEF edited
  <1>7. /\ global' \in [List -> Seq(Node)] /\ global'[l] = edited
        /\ \A m \in List \ {l} : global'[m] = global[m]
    BY <1>1, <1>3, <1>5
  <1> QED  BY <1>6, <1>7 DEF IndexInv, OffsetTracksBuffer

LEMMA RewriteKeepsIndex ==
  ASSUME IndexInv, NEW k \in Key, NEW v \in Value, NEW i \in Positions(k),
         SearchNode(k, i), IsNode(k, i),
         DataPagePointer' \in Nat, Rewrite(k, v, i)
  PROVE  IndexInv'
  <1> DEFINE e == [NodeAt(k, i) EXCEPT !.offset = offset']
  <1>1. /\ SyncWrite(k, v, DataPagePointer')
        /\ dict' = [dict EXCEPT ![k] = v]
        /\ dict \in [Key -> Value \cup {NotFound}]
    BY DEF Rewrite, IndexInv, IndexTypeOK
  <1>2. /\ indexs' \in Slot /\ indexs' \in 0 .. PageCapacity
        /\ offset' \in Offset /\ offset'.slot = indexs' /\ Pagedata' \in [Slot -> Entry]
    BY <1>1, SyncWriteEffect
  <1>3. NodeAt(k, i) \in Node
    BY ListOfType, ElementOfSeq DEF Positions, IsNode, NodeAt, IndexInv, IndexTypeOK
  <1>4. e \in Node /\ e.key = NodeAt(k, i).key /\ e.offset.slot = indexs'
    BY <1>2, <1>3 DEF Node
  <1>5. global' = [global EXCEPT ![ListOf(k)][i] = e]
    BY DEF Rewrite, NodeAt
  <1> HIDE DEF e
  <1>6. /\ global' \in [List -> Seq(Node)]
        /\ \A l \in List : \A m \in DOMAIN global'[l] : global'[l][m].offset.slot \in Slot
    BY <1>2, <1>4, <1>5, EditKeepsChains
  <1>7. IndexTypeOK'
    BY <1>1, <1>2, <1>6 DEF IndexTypeOK
  <1>8. OffsetTracksBuffer'
    BY <1>2, <1>6 DEF OffsetTracksBuffer
  <1>9. \A q \in Key : \A j \in Positions(q)' :
           SearchNode(q, j)' /\ Live(q, j)' =>
             \/ NodeAt(q, j)' = e
             \/ /\ q # k /\ j \in Positions(q)
                /\ SearchNode(q, j) /\ Live(q, j)
                /\ NodeAt(q, j)' = NodeAt(q, j)
    <2>1. Edit(k, i, e)
      BY <1>4, <1>5 DEF Edit
    <2> QED  BY <2>1, SearchAfterEdit DEF IndexInv
  <1>10. ASSUME NEW q \in Key \ {0}, NEW j \in Positions(q)',
                SearchNode(q, j)', Live(q, j)'
        PROVE  \/ NodeAt(q, j)'.offset.slot = indexs'
               \/ /\ q # k
                  /\ \E p \in Positions(q) :
                       /\ SearchNode(q, p) /\ Live(q, p)
                       /\ NodeAt(q, j)'.offset.slot = NodeAt(q, p).offset.slot
    <2>1. \/ NodeAt(q, j)' = e
          \/ /\ q # k /\ j \in Positions(q)
             /\ SearchNode(q, j) /\ Live(q, j)
             /\ NodeAt(q, j)' = NodeAt(q, j)
      <3>1. q \in Key
        OBVIOUS
      <3> QED  BY <1>10, <1>9, <3>1
    <2> QED  BY <1>4, <2>1
  <1>11. BufferAgrees'
    BY <1>1, <1>10, WriteAgrees
  <1> QED  BY <1>7, <1>8, <1>11 DEF IndexInv

LEMMA SyncDeleteKeepsPointer ==
  ASSUME DataPagePointer \in Nat, NEW o, SyncDelete(o)
  PROVE  DataPagePointer' \in Nat
  BY DEF SyncDelete, PageLogWrite, InfoRenew

LEMMA UpdateKeepsIndex ==
  ASSUME IndexInv, NEW k \in Key, NEW v \in Value, Update(k, v)
  PROVE  IndexInv'
  <1>1. PICK i \in Positions(k) :
          /\ SearchNode(k, i)
          /\ \/ ~IsNode(k, i) /\ UNCHANGED <<bufferVars, logVars, memVars, status>>
             \/ UpdateNode(k, v, i)
    BY DEF Update
  <1>2. DataPagePointer \in Nat /\ dict \in [Key -> Value \cup {NotFound}]
    BY DEF IndexInv, IndexTypeOK
  <1>3. CASE UNCHANGED <<bufferVars, logVars, memVars>>
    BY <1>2, <1>3, IndexUntouched DEF memVars, logVars
  <1>4. CASE Dead(k, i) /\ UNCHANGED <<logVars, status>> /\ Rewrite(k, v, i)
    BY <1>1, <1>2, <1>4, RewriteKeepsIndex DEF Dead, logVars
  <1>5. CASE Live(k, i) /\ SyncDelete(NodeAt(k, i).offset) /\ Rewrite(k, v, i)
    BY <1>1, <1>2, <1>5, SyncDeleteKeepsPointer, RewriteKeepsIndex DEF Live
  <1>6. CASE SyncDelete(NodeAt(k, i).offset) /\ UNCHANGED <<bufferVars, memVars>>
    BY <1>2, <1>6, SyncDeleteKeepsPointer, IndexUntouched DEF memVars
  <1> QED  BY <1>1, <1>3, <1>4, <1>5, <1>6 DEF UpdateNode

\* A node is marked, or was marked before, and its key is forgotten.
LEMMA ForgetKeepsIndex ==
  ASSUME IndexInv, NEW k \in Key, NEW i \in Positions(k), SearchNode(k, i),
         Forget(k), DataPagePointer' \in Nat, UNCHANGED bufferVars,
         \/ Dead(k, i) /\ UNCHANGED global
         \/ Live(k, i) /\ global' = [global EXCEPT ![ListOf(k)][i].flag = 0]
  PROVE  IndexInv'
  <1>1. /\ dict' = [dict EXCEPT ![k] = NotFound]
        /\ dict \in [Key -> Value \cup {NotFound}]
        /\ IndexTypeOK /\ OffsetTracksBuffer
    BY DEF Forget, IndexInv, IndexTypeOK
  <1>2. indexs' = indexs /\ offset' = offset /\ Pagedata' = Pagedata
    BY DEF bufferVars
  <1>3. IsNode(k, i)
    BY DEF Live, Dead
  <1> DEFINE e == [NodeAt(k, i) EXCEPT !.flag = 0]
  <1>4. NodeAt(k, i) \in Node
    BY <1>3, ListOfType, ElementOfSeq
       DEF Positions, IsNode, NodeAt, IndexInv, IndexTypeOK
  <1>5. /\ e \in Node /\ e.key = NodeAt(k, i).key /\ e.flag = 0
        /\ e.offset = NodeAt(k, i).offset
    BY <1>4 DEF Node
  <1>6. e.offset.slot \in Slot
    BY <1>1, <1>3, <1>5, ListOfType
       DEF Positions, IsNode, NodeAt, IndexTypeOK, OffsetTracksBuffer
  <1>7. global' = [global EXCEPT ![ListOf(k)][i] = e]
    <2>1. CASE Live(k, i) /\ global' = [global EXCEPT ![ListOf(k)][i].flag = 0]
      BY <2>1 DEF NodeAt
    <2>2. CASE Dead(k, i) /\ UNCHANGED global
      <3>1. e = NodeAt(k, i)
        BY <1>4, <2>2 DEF Dead, Node
      <3>2. global \in [List -> Seq(Node)] /\ ListOf(k) \in List
        BY <1>1, ListOfType DEF IndexTypeOK
      <3> HIDE DEF e
      <3>3. global[ListOf(k)] = [global[ListOf(k)] EXCEPT ![i] = e]
        BY <1>3, <3>1, <3>2 DEF NodeAt
      <3> QED  BY <2>2, <3>2, <3>3
    <2> QED  BY <2>1, <2>2
  <1> HIDE DEF e
  <1>8. /\ global' \in [List -> Seq(Node)]
        /\ \A l \in List : \A m \in DOMAIN global'[l] : global'[l][m].offset.slot \in Slot
    BY <1>3, <1>5, <1>6, <1>7, EditKeepsChains
  <1>9. IndexTypeOK' /\ OffsetTracksBuffer'
    BY <1>1, <1>2, <1>8 DEF IndexTypeOK, OffsetTracksBuffer
  <1>10. BufferAgrees'
    <2> SUFFICES ASSUME NEW q \in Key \ {0}, NEW j \in Positions(q)',
                        SearchNode(q, j)', Live(q, j)',
                        Pagedata[NodeAt(q, j)'.offset.slot].key = q
                 PROVE  Pagedata[NodeAt(q, j)'.offset.slot].val = dict'[q]
      BY <1>2 DEF BufferAgrees
    <2>1. \/ NodeAt(q, j)' = e
          \/ /\ q # k /\ j \in Positions(q)
             /\ SearchNode(q, j) /\ Live(q, j)
             /\ NodeAt(q, j)' = NodeAt(q, j)
      <3>1. Edit(k, i, e)
        BY <1>3, <1>5, <1>7 DEF Edit
      <3> QED  BY <1>1, <3>1, SearchAfterEdit
    <2>2. NodeAt(q, j)' # e
      BY <1>5 DEF Live
    <2>3. dict'[q] = dict[q]
      BY <1>1, <2>1, <2>2
    <2> QED  BY <2>1, <2>2, <2>3 DEF IndexInv, BufferAgrees
  <1> QED  BY <1>9, <1>10 DEF IndexInv

LEMMA DeleteKeepsIndex ==
  ASSUME IndexInv, NEW k \in Key, Delete(k)
  PROVE  IndexInv'
  <1>1. UNCHANGED bufferVars
    BY DEF Delete
  <1>2. DataPagePointer \in Nat /\ dict \in [Key -> Value \cup {NotFound}]
    BY DEF IndexInv, IndexTypeOK
  <1>3. PICK i \in Positions(k) :
          /\ SearchNode(k, i)
          /\ \/ UNCHANGED <<logVars, memVars>>
             \/ DeleteNode(k, i)
    BY DEF Delete
  <1>4. CASE UNCHANGED <<logVars, memVars>>
    BY <1>1, <1>2, <1>4, IndexUntouched DEF memVars, logVars
  <1>5. CASE Dead(k, i) /\ Forget(k) /\ UNCHANGED <<logVars, global, status>>
    BY <1>1, <1>2, <1>3, <1>5, ForgetKeepsIndex DEF logVars
  <1>6. CASE /\ Live(k, i) /\ SyncDelete(NodeAt(k, i).offset) /\ Forget(k)
             /\ global' = [global EXCEPT ![ListOf(k)][i].flag = 0]
    BY <1>1, <1>2, <1>3, <1>6, SyncDeleteKeepsPointer, ForgetKeepsIndex
  <1>7. CASE SyncDelete(NodeAt(k, i).offset) /\ UNCHANGED memVars
    BY <1>1, <1>2, <1>7, SyncDeleteKeepsPointer, IndexUntouched DEF memVars
  <1> QED  BY <1>3, <1>4, <1>5, <1>6, <1>7 DEF DeleteNode

-----------------------------------------------------------------------------
LEMMA InitEstablishesIndex == Init => IndexInv
  <1> SUFFICES ASSUME Init PROVE IndexInv
    OBVIOUS
  <1>1. IndexTypeOK
    <2>1. 0 \in Block /\ 0 \in 0 .. (SectorsPerChunk - 1) /\ 0 \in 0 .. PageCapacity
      BY DEF Block
    <2> QED  BY <2>1 DEF Init, StoreInit, IndexTypeOK, Offset, Entry, Slot
  <1>2. OffsetTracksBuffer
    BY DEF Init, StoreInit, OffsetTracksBuffer
  <1>3. BufferAgrees
    <2>1. \A k \in Key : \A i \in Positions(k) : ~IsNode(k, i)
      BY ListOfType DEF Init, Positions, IsNode
    <2> QED  BY <2>1 DEF BufferAgrees, Live
  <1> QED  BY <1>1, <1>2, <1>3 DEF IndexInv

LEMMA NextKeepsIndex == IndexInv /\ [Next]_vars => IndexInv'
  <1> SUFFICES ASSUME IndexInv, [Next]_vars PROVE IndexInv'
    OBVIOUS
  <1>1. DataPagePointer \in Nat /\ dict \in [Key -> Value \cup {NotFound}]
    BY DEF IndexInv, IndexTypeOK
  <1>2. CASE UNCHANGED vars
    BY <1>1, <1>2, IndexUntouched DEF vars, storeVars, memVars, logVars
  <1>3. ASSUME NEW k \in Key, NEW v \in Value, InsertNode(k, v)
        PROVE  IndexInv'
    BY <1>3, InsertKeepsIndex
  <1>4. ASSUME NEW k \in Key, NEW v \in Value, Update(k, v)
        PROVE  IndexInv'
    BY <1>4, UpdateKeepsIndex
  <1>5. ASSUME NEW k \in Key, Search(k)
        PROVE  IndexInv'
    BY <1>1, <1>5, IndexUntouched DEF Search, memVars, logVars
  <1>6. ASSUME NEW k \in Key, Delete(k)
        PROVE  IndexInv'
    BY <1>6, DeleteKeepsIndex
  <1> QED  BY <1>2, <1>3, <1>4, <1>5, <1>6 DEF Next

\* The slot of the last offset is the fill of the write buffer, although one is
\* reset by masks and the other by assignment, and no node names a slot beyond the
\* buffer (syncstore.cpp:17-44).
THEOREM OffsetStaysInStep == Spec => []OffsetTracksBuffer
  <1>1. IndexInv => OffsetTracksBuffer
    BY DEF IndexInv
  <1> QED  BY <1>1, InitEstablishesIndex, NextKeepsIndex, PTL DEF Spec

\* Whatever was inserted, updated and deleted in whatever order, the slot that
\* the first node for a key names holds that key's last value or an entry of
\* another key (MemTier.cpp:110-331, syncstore.cpp:17-44).
THEOREM BufferAgreesWithIndex == Spec => []BufferAgrees
  <1>1. IndexInv => BufferAgrees
    BY DEF IndexInv
  <1> QED  BY <1>1, InitEstablishesIndex, NextKeepsIndex, PTL DEF Spec

\* Search answers with the last value of its key, or does not find it
\* (MemTier.cpp:249-273): it never returns a stale or foreign value.
THEOREM SearchNeverLies == Spec => []NeverLies
  <1>1. IndexInv => NeverLies
    <2> SUFFICES ASSUME IndexInv, NEW k \in Key \ {0}, NEW i \in Positions(k),
                        SearchNode(k, i)
                 PROVE  Answer(k, i) \in {dict[k], NotFound}
      BY DEF NeverLies
    <2> DEFINE o == NodeAt(k, i).offset
               entry == SyncReadEntry(o)
    <2>1. CASE ~Live(k, i)
      BY <2>1 DEF Answer
    <2>2. CASE Live(k, i) /\ PageIdOf(o) = WBufferId
      <3>1. entry = Pagedata[o.slot]
        BY <2>2 DEF SyncReadEntry
      <3>2. entry.key = k => entry.val = dict[k]
        BY <2>2, <3>1 DEF IndexInv, BufferAgrees
      <3> QED  BY <2>2, <3>2 DEF Answer
    <2>3. CASE Live(k, i) /\ PageIdOf(o) # WBufferId
      <3>1. \E data : entry = EntryOnPage(data)
        BY <2>3 DEF SyncReadEntry
      <3>2. entry.key \in {0, NoKey}
        BY <3>1 DEF EntryOnPage
      <3>3. entry.key # k
        BY <3>2 DEF NoKey
      <3> QED  BY <2>3, <3>3 DEF Answer
    <2> QED  BY <2>1, <2>2, <2>3
  <1> QED  BY <1>1, InitEstablishesIndex, NextKeepsIndex, PTL DEF Spec

-----------------------------------------------------------------------------
(* The order of the chains.                                                *)

InOrder(chain) ==
  \A m, n \in DOMAIN chain : m < n => chain[m].key <= chain[n].key

LEMMA InsertKeepsOrder ==
  ASSUME NEW chain \in Seq(Node), NEW k \in Nat, NEW i, StopsAt(chain, k, i),
         NEW e \in Node, e.key = k, InOrder(chain)
  PROVE  InOrder(InsertAt(chain, i, e))
  <1> DEFINE longer == InsertAt(chain, i, e)
  <1>1. i \in 1 .. (Len(chain) + 1)
    BY DEF StopsAt
  <1>2. /\ longer \in Seq(Node)
        /\ Len(longer) = Len(chain) + 1
        /\ \A m \in 1 .. (Len(chain) + 1) :
             longer[m] = IF m < i THEN chain[m] ELSE IF m = i THEN e ELSE chain[m - 1]
    <2> HIDE DEF longer
    <2>1. /\ InsertAt(chain, i, e) \in Seq(Node)
          /\ Len(InsertAt(chain, i, e)) = Len(chain) + 1
          /\ \A m \in 1 .. (Len(chain) + 1) : InsertAt(chain, i, e)[m] =
               IF m < i THEN chain[m] ELSE IF m = i THEN e ELSE chain[m - 1]
      BY <1>1, InsertAtProperties, SMTT(30)
    <2> QED  BY <2>1 DEF longer
  <1>3. \A m \in 1 .. Len(chain) : chain[m].key \in Nat
    BY ChainKeys
  <1>4. /\ \A m, n \in 1 .. Len(chain) : m < n => chain[m].key <= chain[n].key
        /\ \A m \in 1 .. (i - 1) : chain[m].key < k
        /\ i <= Len(chain) => chain[i].key >= k
    BY DEF InOrder, StopsAt
  <1> HIDE DEF longer
  <1>5. Len(chain) \in Nat /\ i \in Nat /\ k \in Nat
    BY <1>1
  <1>6. ASSUME NEW m \in 1 .. (Len(chain) + 1), NEW n \in 1 .. (Len(chain) + 1), m < n
        PROVE  longer[m].key <= longer[n].key
    <2>1. CASE n < i
      <3>1. /\ m \in 1 .. Len(chain) /\ n \in 1 .. Len(chain)
            /\ longer[m] = chain[m] /\ longer[n] = chain[n]
        BY <1>1, <1>2, <1>5, <1>6, <2>1
      <3> QED  BY <1>4, <1>6, <3>1
    <2>2. CASE n = i
      <3>1. /\ m \in 1 .. (i - 1) /\ m \in 1 .. Len(chain)
            /\ longer[m] = chain[m] /\ longer[n] = e
        BY <1>1, <1>2, <1>5, <1>6, <2>2
      <3>2. chain[m].key < k /\ chain[m].key \in Nat
        BY <1>3, <1>4, <3>1
      <3> QED  BY <1>5, <3>1, <3>2
    <2>3. CASE n > i
      <3>1. /\ n - 1 \in 1 .. Len(chain) /\ longer[n] = chain[n - 1]
            /\ i <= n - 1 /\ i \in 1 .. Len(chain)
        BY <1>1, <1>2, <1>5, <1>6, <2>3
      <3>2. chain[i].key <= chain[n - 1].key
        BY <1>3, <1>4, <3>1
      <3>3. k <= chain[n - 1].key
        BY <1>3, <1>4, <1>5, <3>1, <3>2
      <3>4. CASE m < i
        <4>1. m \in 1 .. Len(chain) /\ longer[m] = chain[m] /\ m < n - 1
          BY <1>1, <1>2, <1>5, <1>6, <3>1, <3>4
        <4> QED  BY <1>4, <3>1, <4>1
      <3>5. CASE m = i
        <4>1. longer[m] = e
          BY <1>2, <3>5
        <4> QED  BY <3>1, <3>3, <4>1
      <3>6. CASE m > i
        <4>1. m - 1 \in 1 .. Len(chain) /\ longer[m] = chain[m - 1] /\ m - 1 < n - 1
          BY <1>1, <1>2, <1>5, <1>6, <3>6
        <4> QED  BY <1>4, <3>1, <4>1
      <3> QED  BY <1>5, <3>4, <3>5, <3>6
    <2> QED  BY <1>5, <2>1, <2>2, <2>3
  <1>7. DOMAIN longer = 1 .. (Len(chain) + 1)
    BY <1>2
  <1> QED  BY <1>6, <1>7 DEF InOrder, longer

LEMMA EditKeepsOrder ==
  ASSUME IndexTypeOK, ChainsSorted, NEW k \in Key, NEW i, NEW e, Edit(k, i, e)
  PROVE  ChainsSorted'
  <1> DEFINE l == ListOf(k)
             chain == global[l]
             edited == [chain EXCEPT ![i] = e]
  <1>1. /\ l \in List /\ chain \in Seq(Node) /\ global \in [List -> Seq(Node)]
        /\ i \in DOMAIN chain /\ e.key = chain[i].key
        /\ global' = [global EXCEPT ![l] = edited]
    BY ListOfType DEF IndexTypeOK, Edit, Positions, IsNode, NodeAt
  <1>2. InOrder(chain)
    BY <1>1 DEF ChainsSorted, InOrder
  <1> HIDE DEF l, chain
  <1>3. DOMAIN edited = DOMAIN chain
        /\ \A m \in DOMAIN chain : edited[m].key = chain[m].key
    BY <1>1
  <1> HIDE DEF edited
  <1>4. InOrder(edited)
    BY <1>2, <1>3 DEF InOrder
  <1>5. global'[l] = edited /\ \A m \in List \ {l} : global'[m] = global[m]
    BY <1>1
  <1> QED  BY <1>4, <1>5 DEF ChainsSorted, InOrder

LEMMA NextKeepsOrder == IndexInv /\ ChainsSorted /\ [Next]_vars => ChainsSorted'
  <1> SUFFICES ASSUME IndexInv, ChainsSorted, [Next]_vars PROVE ChainsSorted'
    OBVIOUS
  <1>1. IndexTypeOK
    BY DEF IndexInv
  <1>2. CASE UNCHANGED global
    BY <1>2 DEF ChainsSorted
  <1>3. ASSUME NEW k \in Key, NEW i \in Positions(k), SearchNode(k, i), IsNode(k, i),
               NEW o \in Offset,
               global' = [global EXCEPT ![ListOf(k)][i].offset = o]
        PROVE  ChainsSorted'
    <2> DEFINE e == [NodeAt(k, i) EXCEPT !.offset = o]
    <2>1. NodeAt(k, i) \in Node
      BY <1>1, <1>3, ListOfType, ElementOfSeq DEF Positions, IsNode, NodeAt, IndexTypeOK
    <2>2. Edit(k, i, e)
      BY <1>3, <2>1 DEF Edit, NodeAt, Node
    <2> QED  BY <1>1, <2>2, EditKeepsOrder
  <1>4. ASSUME NEW k \in Key, NEW i \in Positions(k), SearchNode(k, i), IsNode(k, i),
               global' = [global EXCEPT ![ListOf(k)][i].flag = 0]
        PROVE  ChainsSorted'
    <2> DEFINE e == [NodeAt(k, i) EXCEPT !.flag = 0]
    <2>1. NodeAt(k, i) \in Node
      BY <1>1, <1>4, ListOfType, ElementOfSeq DEF Positions, IsNode, NodeAt, IndexTypeOK
    <2>2. Edit(k, i, e)
      BY <1>4, <2>1 DEF Edit, NodeAt, Node
    <2> QED  BY <1>1, <2>2, EditKeepsOrder
  <1>5. ASSUME NEW k \in Key, NEW v \in Value, NEW dpp \in Nat, SyncWrite(k, v, dpp)
        PROVE  offset' \in Offset
    BY <1>5, SyncWriteEffect
  <1>6. DataPagePointer \in Nat
    BY <1>1 DEF IndexTypeOK
  <1>7. ASSUME NEW k \in Key, NEW v \in Value, InsertNode(k, v)
        PROVE  ChainsSorted'
    <2>1. CASE UNCHANGED global
      BY <1>2, <2>1
    <2>2. ASSUME SyncWrite(k, v, DataPagePointer), NEW i, SearchNode(k, i),
                 global' = [global EXCEPT ![ListOf(k)] =
                   InsertAt(@, i, [key |-> k, flag |-> 1, offset |-> offset'])]
          PROVE  ChainsSorted'
      <3> DEFINE l == ListOf(k)
                 e == [key |-> k, flag |-> 1, offset |-> offset']
                 longer == InsertAt(global[l], i, e)
      <3>1. l \in List /\ global[l] \in Seq(Node) /\ global \in [List -> Seq(Node)]
        BY <1>1, ListOfType DEF IndexTypeOK
      <3>2. e \in Node /\ e.key = k
        BY <1>5, <1>6, <2>2 DEF Node
      <3>3. InOrder(global[l]) /\ StopsAt(global[l], k, i) /\ k \in Nat
        BY <2>2, <3>1 DEF ChainsSorted, InOrder, SearchNode
      <3>4. global' = [global EXCEPT ![l] = longer]
        BY <2>2
      <3> HIDE DEF l, e
      <3>5. InOrder(longer)
        BY <3>1, <3>2, <3>3, InsertKeepsOrder
      <3> HIDE DEF longer
      <3>6. global'[l] = longer /\ \A m \in List \ {l} : global'[m] = global[m]
        BY <3>1, <3>4
      <3> QED  BY <3>5, <3>6 DEF ChainsSorted, InOrder
    <2> QED  BY <1>7, <2>1, <2>2 DEF InsertNode
  <1>8. ASSUME NEW k \in Key, NEW v \in Value, Update(k, v)
        PROVE  ChainsSorted'
    <2>1. PICK i \in Positions(k) :
            SearchNode(k, i) /\ (UNCHANGED memVars \/ UpdateNode(k, v, i))
      BY <1>8 DEF Update
    <2>2. CASE UNCHANGED memVars
      BY <1>2, <2>2 DEF memVars
    <2>3. CASE Dead(k, i) /\ UNCHANGED logVars /\ Rewrite(k, v, i)
      <3>1. offset' \in Offset /\ IsNode(k, i)
        BY <1>5, <1>6, <2>3 DEF Rewrite, logVars, Dead
      <3> QED  BY <1>3, <2>1, <2>3, <3>1 DEF Rewrite
    <2>4. CASE Live(k, i) /\ SyncDelete(NodeAt(k, i).offset) /\ Rewrite(k, v, i)
      <3>1. offset' \in Offset /\ IsNode(k, i)
        BY <1>5, <1>6, <2>4, SyncDeleteKeepsPointer DEF Rewrite, Live
      <3> QED  BY <1>3, <2>1, <2>4, <3>1 DEF Rewrite
    <2> QED  BY <2>1, <2>2, <2>3, <2>4 DEF UpdateNode
  <1>9. ASSUME NEW k \in Key, Delete(k)
        PROVE  ChainsSorted'
    <2>1. PICK i \in Positions(k) :
            SearchNode(k, i) /\ (UNCHANGED memVars \/ DeleteNode(k, i))
      BY <1>9 DEF Delete
    <2> QED  BY <1>2, <1>4, <2>1 DEF DeleteNode, Live, memVars
  <1>10. ASSUME NEW k \in Key, Search(k)
         PROVE  ChainsSorted'
    BY <1>2, <1>10 DEF Search, memVars
  <1> QED  BY <1>2, <1>7, <1>8, <1>9, <1>10 DEF Next, vars, memVars

\* The chains stay sorted by key (MemTier.cpp:110-163), which is what makes the
\* walks of SearchNode stop at the first node of a key, if it has any.
THEOREM ChainsStaySorted == Spec => []ChainsSorted
  <1>1. Init => ChainsSorted
    BY DEF Init, ChainsSorted
  <1>2. IndexInv /\ ChainsSorted /\ [Next]_vars => (IndexInv /\ ChainsSorted)'
    BY NextKeepsIndex, NextKeepsOrder
  <1> QED  BY <1>1, <1>2, InitEstablishesIndex, PTL DEF Spec

-----------------------------------------------------------------------------
(* The deletion log: no record is lost or doubled, and the pages and       *)
(* pointers of the log stay where they belong.                             *)


LogTypeOK ==
  /\ DataPagePointer \in Nat
  /\ BufferLog \in [Block -> Seq(Offset)]
  /\ chunkusage \in [Block -> 0 .. SectorsPerChunk]
  /\ ChunkLog \in [Block -> Seq(0 .. SectorsPerChunk)]
  /\ deletions \in [Block -> Nat]
  /\ status \in {"running", "exited", "aborted", "crashed"}

\* SyncDelete empties a log buffer in the step that fills it.
LogsNeverFull ==
  status = "running" => \A b \in Block : Len(BufferLog[b]) < LogCapacity

LogInv == LogTypeOK /\ LogLayout /\ DeletionsLogged /\ LogsNeverFull

\* Within chunk 0 the division that finds the chunk of a pointer gives 0.
LEMMA ChunkOfPointer ==
  ASSUME NEW p \in Nat, p < SectorsPerChunk
  PROVE  p \div SectorsPerChunk = 0
  OBVIOUS

\* One more page: the product moves on by its factor.
LEMMA NextMultiple == \A w, n \in Nat : w * (n + 1) = w * n + w
  OBVIOUS

\* A failed log write ends the process and changes nothing else of the log.
LEMMA FailedWriteKeepsLog ==
  ASSUME LogInv, NEW b \in Block,
         deletions' = [deletions EXCEPT ![b] = @ + 1],
         status' = IF LogFits(b) THEN "exited" ELSE "aborted",
         UNCHANGED <<ChunkLog, DataPagePointer, chunkusage, BufferLog>>
  PROVE  LogInv'
  <1>1. LogTypeOK'
    BY DEF LogInv, LogTypeOK
  <1>2. LogLayout'
    BY DEF LogInv, LogLayout
  <1>3. status' # "running"
    OBVIOUS
  <1> QED  BY <1>1, <1>2, <1>3 DEF LogInv, DeletionsLogged, LogsNeverFull

\* A record is added to a log buffer that it does not fill.
LEMMA AppendKeepsLog ==
  ASSUME LogInv, status = "running", NEW o \in Offset, NEW b \in Block,
         Len(Append(BufferLog[b], o)) < LogCapacity,
         deletions' = [deletions EXCEPT ![b] = @ + 1],
         BufferLog' = [BufferLog EXCEPT ![b] = Append(BufferLog[b], o)],
         UNCHANGED <<ChunkLog, DataPagePointer, chunkusage, status>>
  PROVE  LogInv'
  <1>1. /\ BufferLog[b] \in Seq(Offset) /\ BufferLog \in [Block -> Seq(Offset)]
        /\ deletions \in [Block -> Nat]
        /\ \A c \in Block : Len(ChunkLog[c]) \in Nat /\ Len(BufferLog[c]) \in Nat
    BY DEF LogInv, LogTypeOK
  <1>2. /\ Append(BufferLog[b], o) \in Seq(Offset)
        /\ Len(Append(BufferLog[b], o)) = Len(BufferLog[b]) + 1
    BY <1>1
  <1>3. /\ BufferLog' \in [Block -> Seq(Offset)]
        /\ deletions' \in [Block -> Nat]
        /\ \A c \in Block : Len(BufferLog'[c]) =
             IF c = b THEN Len(BufferLog[c]) + 1 ELSE Len(BufferLog[c])
        /\ \A c \in Block : deletions'[c] =
             IF c = b THEN deletions[c] + 1 ELSE deletions[c]
    BY <1>1, <1>2
  <1>4. LogTypeOK'
    BY <1>3 DEF LogInv, LogTypeOK
  <1>5. LogLayout'
    BY DEF LogInv, LogLayout
  <1>6. DeletionsLogged'
    <2>1. \A c \in Block :
            deletions[c] = Len(BufferLog[c]) + LogCapacity * Len(ChunkLog[c])
      BY DEF LogInv, DeletionsLogged
    <2>2. ASSUME NEW c \in Block
          PROVE  deletions'[c] = Len(BufferLog'[c]) + LogCapacity * Len(ChunkLog'[c])
      <3> DEFINE written == LogCapacity * Len(ChunkLog[c])
      <3>1. written \in Nat /\ LogCapacity * Len(ChunkLog'[c]) = written
        BY <1>1
      <3>2. deletions[c] = Len(BufferLog[c]) + written
        BY <2>1
      <3> HIDE DEF written
      <3>3. deletions'[c] = Len(BufferLog'[c]) + written
        BY <1>1, <1>3, <3>1, <3>2
      <3> QED  BY <3>1, <3>3
    <2> QED  BY <2>2 DEF DeletionsLogged
  <1>7. LogsNeverFull'
    BY <1>1, <1>2, <1>3 DEF LogInv, LogsNeverFull
  <1> QED  BY <1>4, <1>5, <1>6, <1>7 DEF LogInv

\* A record fills a log buffer, which goes to the next page of its block.
LEMMA WriteKeepsLog ==
  ASSUME LogInv, status = "running", NEW o \in Offset, NEW b \in Block,
         Len(Append(BufferLog[b], o)) >= LogCapacity,
         deletions' = [deletions EXCEPT ![b] = @ + 1],
         LogFits(b), InfoRenew(b),
         ChunkLog' = [ChunkLog EXCEPT ![b] = Append(@, chunkusage[b])],
         BufferLog' = [BufferLog EXCEPT ![b] = << >>],
         UNCHANGED status
  PROVE  LogInv'
  <1>1. /\ BufferLog \in [Block -> Seq(Offset)]
        /\ ChunkLog \in [Block -> Seq(0 .. SectorsPerChunk)]
        /\ chunkusage \in [Block -> 0 .. SectorsPerChunk]
        /\ deletions \in [Block -> Nat] /\ DataPagePointer \in Nat
        /\ \A c \in Block : Len(ChunkLog[c]) \in Nat /\ Len(BufferLog[c]) \in Nat
    BY DEF LogInv, LogTypeOK
  <1>2. /\ chunkusage' = [chunkusage EXCEPT ![b] = @ + ws_min]
        /\ DataPagePointer' = IF b = DataPagePointer \div SectorsPerChunk
                                THEN DataPagePointer + ws_min ELSE DataPagePointer
        /\ chunkusage[b] <= SectorsPerChunk - ws_min
    BY DEF InfoRenew, LogFits
  <1> DEFINE log == ChunkLog[b]
             more == Append(log, chunkusage[b])
  <1>3. /\ log \in Seq(0 .. SectorsPerChunk) /\ chunkusage[b] \in 0 .. SectorsPerChunk
        /\ Len(BufferLog[b]) \in Nat
    BY <1>1
  <1>4. ChunkLog' = [ChunkLog EXCEPT ![b] = more]
    OBVIOUS
  <1> HIDE DEF log
  <1>5. /\ more \in Seq(0 .. SectorsPerChunk) /\ Len(more) = Len(log) + 1
        /\ \A i \in 1 .. Len(log) : more[i] = log[i]
        /\ more[Len(log) + 1] = chunkusage[b]
        /\ Len(log) \in Nat
    BY <1>3
  <1> HIDE DEF more
  <1>6. LogTypeOK'
    <2>1. chunkusage[b] + ws_min \in 0 .. SectorsPerChunk
      BY <1>2, <1>3
    <2>2. << >> \in Seq(Offset)
      OBVIOUS
    <2>3. chunkusage' \in [Block -> 0 .. SectorsPerChunk]
      BY <1>1, <1>2, <2>1
    <2>4. ChunkLog' \in [Block -> Seq(0 .. SectorsPerChunk)]
      BY <1>1, <1>4, <1>5
    <2>5. BufferLog' \in [Block -> Seq(Offset)]
      BY <1>1, <2>2
    <2>6. deletions' \in [Block -> Nat] /\ DataPagePointer' \in Nat
      BY <1>1, <1>2
    <2> QED  BY <2>3, <2>4, <2>5, <2>6 DEF LogInv, LogTypeOK
  <1>7. LogLayout'
    <2>1. /\ chunkusage[b] = ws_min * Len(log)
          /\ \A i \in 1 .. Len(log) : log[i] = ws_min * (i - 1)
      BY <1>3 DEF LogInv, LogLayout, log
    <2>2. ASSUME NEW c \in Block
          PROVE  /\ chunkusage'[c] = ws_min * Len(ChunkLog'[c])
                 /\ \A i \in DOMAIN ChunkLog'[c] : ChunkLog'[c][i] = ws_min * (i - 1)
      <3>1. CASE c # b
        <4>1. chunkusage'[c] = chunkusage[c] /\ ChunkLog'[c] = ChunkLog[c]
          BY <1>1, <1>2, <1>4, <3>1
        <4> QED  BY <4>1 DEF LogInv, LogLayout
      <3>2. CASE c = b
        <4>1. chunkusage'[c] = chunkusage[b] + ws_min /\ ChunkLog'[c] = more
          BY <1>1, <1>2, <1>4, <3>2
        <4>2. ws_min * (Len(log) + 1) = ws_min * Len(log) + ws_min
          BY <1>5, NextMultiple
        <4>3. chunkusage'[c] = ws_min * Len(more)
          BY <1>5, <2>1, <4>1, <4>2
        <4>4. ASSUME NEW i \in 1 .. (Len(log) + 1)
              PROVE  more[i] = ws_min * (i - 1)
          <5>1. CASE i = Len(log) + 1
            <6>1. i - 1 = Len(log)
              BY <1>5, <5>1
            <6> QED  BY <1>5, <2>1, <5>1, <6>1
          <5>2. CASE i \in 1 .. Len(log)
            BY <1>5, <2>1, <5>2
          <5> QED  BY <1>5, <5>1, <5>2
        <4>5. DOMAIN more = 1 .. (Len(log) + 1)
          BY <1>5
        <4> QED  BY <4>1, <4>3, <4>4, <4>5
      <3> QED  BY <3>1, <3>2
    <2>3. DataPagePointer' < SectorsPerChunk => DataPagePointer' = chunkusage'[0]
      <3> SUFFICES ASSUME DataPagePointer' < SectorsPerChunk
                   PROVE  DataPagePointer' = chunkusage'[0]
        OBVIOUS
      <3>1. DataPagePointer < SectorsPerChunk
        BY <1>1, <1>2
      <3>2. DataPagePointer = chunkusage[0] /\ DataPagePointer \div SectorsPerChunk = 0
        BY <1>1, <3>1, ChunkOfPointer DEF LogInv, LogLayout
      <3>3. 0 \in Block
        BY DEF Block
      <3> QED  BY <1>1, <1>2, <3>2, <3>3
    <2> QED  BY <2>2, <2>3 DEF LogLayout
  <1>8. DeletionsLogged' /\ LogsNeverFull'
    <2>1. \A c \in Block :
            deletions[c] = Len(BufferLog[c]) + LogCapacity * Len(ChunkLog[c])
      BY DEF LogInv, DeletionsLogged
    <2>2. Len(BufferLog[b]) + 1 = LogCapacity
      <3>1. Len(Append(BufferLog[b], o)) = Len(BufferLog[b]) + 1
        BY <1>1
      <3>2. Len(BufferLog[b]) < LogCapacity
        BY DEF LogInv, LogsNeverFull
      <3>3. Len(BufferLog[b]) + 1 >= LogCapacity
        BY <3>1
      <3> HIDE DEF LogInv
      <3> QED  BY <1>3, <3>2, <3>3
    <2>3. ASSUME NEW c \in Block
          PROVE  /\ deletions'[c] = Len(BufferLog'[c]) + LogCapacity * Len(ChunkLog'[c])
                 /\ Len(BufferLog'[c]) < LogCapacity
      <3>1. CASE c # b
        <4>1. /\ deletions'[c] = deletions[c] /\ BufferLog'[c] = BufferLog[c]
              /\ ChunkLog'[c] = ChunkLog[c]
          BY <1>1, <1>4, <3>1
        <4> QED  BY <2>1, <4>1 DEF LogInv, LogsNeverFull
      <3>2. CASE c = b
        <4>1. /\ deletions'[c] = deletions[b] + 1
              /\ Len(BufferLog'[c]) = 0
              /\ ChunkLog'[c] = more
          BY <1>1, <1>4, <3>2
        <4>2. deletions[b] = Len(BufferLog[b]) + LogCapacity * Len(log)
          BY <2>1 DEF log
        <4>3. LogCapacity * (Len(log) + 1) = LogCapacity * Len(log) + LogCapacity
          BY <1>5, NextMultiple
        <4> DEFINE written == LogCapacity * Len(log)
        <4>4. written \in Nat
          BY <1>5
        <4>5. deletions[b] = Len(BufferLog[b]) + written
          BY <4>2
        <4>6. LogCapacity * Len(ChunkLog'[c]) = written + LogCapacity
          BY <1>5, <4>1, <4>3
        <4> HIDE DEF written
        <4>7. \A n, w, m \in Nat : n + 1 = m => (n + w) + 1 = 0 + (w + m)
          OBVIOUS
        <4>8. (Len(BufferLog[b]) + written) + 1 = 0 + (written + LogCapacity)
          BY <1>3, <2>2, <4>4, <4>7
        <4>9. deletions'[c] = Len(BufferLog'[c]) + LogCapacity * Len(ChunkLog'[c])
          BY <4>1, <4>5, <4>6, <4>8
        <4>10. Len(BufferLog'[c]) < LogCapacity
          BY <4>1
        <4> QED  BY <4>9, <4>10
      <3> QED  BY <3>1, <3>2
    <2> QED  BY <2>3 DEF DeletionsLogged, LogsNeverFull
  <1> QED  BY <1>6, <1>7, <1>8 DEF LogInv

LEMMA SyncDeleteKeepsLog ==
  ASSUME LogInv, status = "running", NEW o \in Offset, SyncDelete(o)
  PROVE  LogInv'
  <1> DEFINE b == o.block
  <1>1. b \in Block
    BY DEF Offset
  <1>2. deletions' = [deletions EXCEPT ![b] = @ + 1]
    BY DEF SyncDelete
  <1>3. CASE /\ Len(Append(BufferLog[b], o)) < LogCapacity
             /\ BufferLog' = [BufferLog EXCEPT ![b] = Append(BufferLog[b], o)]
             /\ UNCHANGED <<ChunkLog, DataPagePointer, chunkusage, status>>
    BY <1>1, <1>2, <1>3, AppendKeepsLog
  <1>4. CASE Len(Append(BufferLog[b], o)) >= LogCapacity /\ PageLogWrite(b)
    <2>1. CASE /\ LogFits(b) /\ InfoRenew(b)
               /\ ChunkLog' = [ChunkLog EXCEPT ![b] = Append(@, chunkusage[b])]
               /\ BufferLog' = [BufferLog EXCEPT ![b] = << >>]
               /\ UNCHANGED status
      BY <1>1, <1>2, <1>4, <2>1, WriteKeepsLog
    <2>2. CASE /\ status' = IF LogFits(b) THEN "exited" ELSE "aborted"
               /\ UNCHANGED <<ChunkLog, DataPagePointer, chunkusage, BufferLog>>
      BY <1>1, <1>2, <2>2, FailedWriteKeepsLog
    <2> QED  BY <1>4, <2>1, <2>2 DEF PageLogWrite
  <1> QED  BY <1>3, <1>4 DEF SyncDelete

\* Steps that leave the log alone; they may end the process.
LEMMA LogUntouched ==
  ASSUME LogInv, UNCHANGED logVars,
         status' \in {status, "exited", "crashed"}
  PROVE  LogInv'
  <1>1. /\ DataPagePointer' = DataPagePointer /\ BufferLog' = BufferLog
        /\ chunkusage' = chunkusage /\ ChunkLog' = ChunkLog /\ deletions' = deletions
        /\ (status' = "running" => status = "running")
    BY DEF logVars
  <1>2. LogTypeOK'
    BY <1>1 DEF LogInv, LogTypeOK
  <1>3. LogLayout'
    BY <1>1 DEF LogInv, LogLayout
  <1>4. DeletionsLogged' /\ LogsNeverFull'
    BY <1>1 DEF LogInv, DeletionsLogged, LogsNeverFull
  <1> QED  BY <1>2, <1>3, <1>4 DEF LogInv

\* The offsets handed to SyncDelete come from the nodes of the chains.
LEMMA NodeOffset ==
  ASSUME IndexInv, NEW k \in Key, NEW i \in Positions(k), IsNode(k, i)
  PROVE  NodeAt(k, i).offset \in Offset
  <1>1. NodeAt(k, i) \in Node
    BY ListOfType, ElementOfSeq DEF Positions, IsNode, NodeAt, IndexInv, IndexTypeOK
  <1> QED  BY <1>1 DEF Node

LEMMA UpdateKeepsLog ==
  ASSUME IndexInv, LogInv, NEW k \in Key, NEW v \in Value, Update(k, v)
  PROVE  LogInv'
  <1>1. PICK i \in Positions(k) :
          \/ UNCHANGED <<bufferVars, logVars, memVars, status>>
          \/ UpdateNode(k, v, i)
    BY DEF Update
  <1>2. CASE UNCHANGED <<logVars, status>>
    BY <1>2, LogUntouched
  <1>3. CASE Live(k, i) /\ SyncDelete(NodeAt(k, i).offset)
    <2>1. IsNode(k, i) /\ status = "running"
      BY <1>3 DEF Live, Update
    <2> QED  BY <1>3, <2>1, NodeOffset, SyncDeleteKeepsLog
  <1> QED  BY <1>1, <1>2, <1>3 DEF UpdateNode

LEMMA DeleteKeepsLog ==
  ASSUME IndexInv, LogInv, NEW k \in Key, Delete(k)
  PROVE  LogInv'
  <1>1. PICK i \in Positions(k) :
          \/ status' = "crashed" /\ UNCHANGED <<logVars, memVars>>
          \/ DeleteNode(k, i)
    BY DEF Delete
  <1>2. CASE UNCHANGED logVars /\ status' \in {status, "crashed"}
    BY <1>2, LogUntouched
  <1>3. CASE Live(k, i) /\ SyncDelete(NodeAt(k, i).offset)
    <2>1. IsNode(k, i) /\ status = "running"
      BY <1>3 DEF Live, Delete
    <2> QED  BY <1>3, <2>1, NodeOffset, SyncDeleteKeepsLog
  <1> QED  BY <1>1, <1>2, <1>3 DEF DeleteNode

LEMMA InitEstablishesLog == Init => LogInv
  <1> SUFFICES ASSUME Init PROVE LogInv
    OBVIOUS
  <1>1. 0 \in Block /\ 0 \in 0 .. SectorsPerChunk /\ ws_min * 0 = 0 /\ LogCapacity * 0 = 0
    BY DEF Block
  <1>2. /\ DataPagePointer = 0 /\ BufferLog = [b \in Block |-> << >>]
        /\ chunkusage = [b \in Block |-> 0] /\ ChunkLog = [b \in Block |-> << >>]
        /\ deletions = [b \in Block |-> 0] /\ status = "running"
    BY DEF Init, StoreInit
  <1>3. LogTypeOK
    BY <1>1, <1>2 DEF LogTypeOK
  <1>4. LogLayout
    BY <1>1, <1>2 DEF LogLayout
  <1>5. DeletionsLogged /\ LogsNeverFull
    BY <1>1, <1>2 DEF DeletionsLogged, LogsNeverFull
  <1> QED  BY <1>3, <1>4, <1>5 DEF LogInv

LEMMA NextKeepsLog == IndexInv /\ LogInv /\ [Next]_vars => LogInv'
  <1> SUFFICES ASSUME IndexInv, LogInv, [Next]_vars PROVE LogInv'
    OBVIOUS
  <1>1. CASE UNCHANGED vars
    BY <1>1, LogUntouched DEF vars, storeVars
  <1>2. ASSUME NEW k \in Key, NEW v \in Value, InsertNode(k, v)
        PROVE  LogInv'
    BY <1>2, LogUntouched DEF InsertNode
  <1>3. ASSUME NEW k \in Key, NEW v \in Value, Update(k, v)
        PROVE  LogInv'
    BY <1>3, UpdateKeepsLog
  <1>4. ASSUME NEW k \in Key, Search(k)
        PROVE  LogInv'
    <2>1. UNCHANGED logVars /\ status' \in {status, "exited"}
      BY <1>4 DEF Search, SyncRead
    <2> QED  BY <2>1, LogUntouched
  <1>5. ASSUME NEW k \in Key, Delete(k)
        PROVE  LogInv'
    BY <1>5, DeleteKeepsLog
  <1> QED  BY <1>1, <1>2, <1>3, <1>4, <1>5 DEF Next

\* Log pages are written one after the other, where chunkusage and the data
\* pointer say (writer.cpp:33-56, 96-132).
THEOREM LogIsContiguous == Spec => []LogLayout
  <1>1. Init => IndexInv /\ LogInv
    BY InitEstablishesIndex, InitEstablishesLog
  <1>2. IndexInv /\ LogInv /\ [Next]_vars => (IndexInv /\ LogInv)'
    BY NextKeepsIndex, NextKeepsLog
  <1>3. IndexInv /\ LogInv => LogLayout
    BY DEF LogInv
  <1> QED  BY <1>1, <1>2, <1>3, PTL DEF Spec

\* While the process runs, every call of SyncDelete has left exactly one record
\* (syncstore.cpp:46-70).
THEOREM LogIsComplete == Spec => []DeletionsLogged
  <1>1. Init => IndexInv /\ LogInv
    BY InitEstablishesIndex, InitEstablishesLog
  <1>2. IndexInv /\ LogInv /\ [Next]_vars => (IndexInv /\ LogInv)'
    BY NextKeepsIndex, NextKeepsLog
  <1>3. IndexInv /\ LogInv => DeletionsLogged
    BY DEF LogInv
  <1> QED  BY <1>1, <1>2, <1>3, PTL DEF Spec

-----------------------------------------------------------------------------
LEMMA NextKeepsBufferId ==
  IndexInv /\ WBufferId \in Nat /\ [Next]_vars => WBufferId' \in Nat
  <1> SUFFICES ASSUME IndexInv, WBufferId \in Nat, [Next]_vars
               PROVE  WBufferId' \in Nat
    OBVIOUS
  <1>1. DataPagePointer \in Nat
    BY DEF IndexInv, IndexTypeOK
  <1>2. ASSUME NEW k \in Key, NEW v \in Value, NEW dpp \in Nat, SyncWrite(k, v, dpp)
        PROVE  WBufferId' \in Nat
    BY <1>2 DEF SyncWrite
  <1>3. CASE UNCHANGED vars
    BY <1>3 DEF vars, storeVars, bufferVars
  <1>4. ASSUME NEW k \in Key, NEW v \in Value, InsertNode(k, v)
        PROVE  WBufferId' \in Nat
    BY <1>1, <1>2, <1>4 DEF InsertNode, bufferVars
  <1>5. ASSUME NEW k \in Key, NEW v \in Value, Update(k, v)
        PROVE  WBufferId' \in Nat
    <2>1. PICK i \in Positions(k) :
            UNCHANGED bufferVars \/ UpdateNode(k, v, i)
      BY <1>5 DEF Update
    <2>2. DataPagePointer' \in Nat \/ UNCHANGED bufferVars
      BY <1>1, <2>1, SyncDeleteKeepsPointer DEF UpdateNode, logVars
    <2>3. UNCHANGED bufferVars \/ SyncWrite(k, v, DataPagePointer')
      BY <2>1 DEF UpdateNode, Rewrite
    <2> QED  BY <1>2, <2>2, <2>3 DEF bufferVars
  <1>6. ASSUME NEW k \in Key, Search(k) \/ Delete(k)
        PROVE  WBufferId' \in Nat
    BY <1>6 DEF Search, Delete, bufferVars
  <1> QED  BY <1>3, <1>4, <1>5, <1>6 DEF Next

\* The state of the tree and of its store keeps its types: no index leaves the
\* write buffer, no usage its chunk, no offset its fields.
THEOREM TypesAreKept == Spec => []TypeOK
  <1>1. Init => IndexInv /\ LogInv /\ WBufferId \in Nat
    BY InitEstablishesIndex, InitEstablishesLog DEF Init, StoreInit
  <1>2. IndexInv /\ LogInv /\ WBufferId \in Nat /\ [Next]_vars
          => (IndexInv /\ LogInv /\ WBufferId \in Nat)'
    BY NextKeepsIndex, NextKeepsLog, NextKeepsBufferId
  <1>3. IndexInv /\ LogInv /\ WBufferId \in Nat => TypeOK
    BY DEF IndexInv, IndexTypeOK, LogInv, LogTypeOK, TypeOK
  <1> QED  BY <1>1, <1>2, <1>3, PTL DEF Spec
=============================================================================
