------------------------------ MODULE LRUCache ------------------------------
(***************************************************************************)
(* The page cache of the store tier (LRU/lru.h, LRU/lru.cpp): a doubly     *)
(* linked list of read nodes, most recently used first, and a hash map     *)
(* from page numbers to iterators into that list.                          *)
(*                                                                         *)
(* A ReadNode is never written to after it has been pushed, so an iterator *)
(* is represented by the node it points to.  An iterator dangles when the  *)
(* list no longer holds its node.  The map is keyed by int while a page    *)
(* number has 64 bits (lru.h:34): Narrow is that conversion.               *)
(***************************************************************************)
EXTENDS Integers, Sequences, SequencesExt

CONSTANTS
  Page,          \* the page numbers callers use (PageType)
  Data,          \* what a page read from the device can hold
  IntRange,      \* the number of values of the map's key type (2^32)
  MaxCapacity    \* bound on the capacities ClearaReset may set

ASSUME PageAssumption ==
  /\ Page \subseteq Nat
  /\ IntRange \in Nat \ {0}
  /\ MaxCapacity \in Nat \ {0}

VARIABLES
  cache,         \* std::list<ReadNode>
  HashMap,       \* std::unordered_map<int, iterator>
  capacity       \* size_t capacity

lruVars == <<cache, HashMap, capacity>>

ReadNode == [PageId : Page, data : Data]

\* The conversion of a PageType to the map's key type.
Narrow(page) == page % IntRange

LRUInit(cap) ==
  /\ cache = << >>
  /\ HashMap = [x \in {} |-> << >>]
  /\ capacity = cap

-----------------------------------------------------------------------------
IsLRUPage(page) == Narrow(page) \in DOMAIN HashMap

\* cache.erase(it): only an iterator to a node of the list may be passed.
PositionOf(node) == {i \in DOMAIN cache : cache[i] = node}

\* The map after erasing the keys of "gone" and setting HashMap[page].
Remap(gone, page, node) ==
  [x \in (DOMAIN HashMap \ gone) \cup {Narrow(page)} |->
     IF x = Narrow(page) THEN node ELSE HashMap[x]]

\* push_front of node once position i has been erased.
MoveToFront(i, node) == <<node>> \o RemoveAt(cache, i)

\* Mutant of Get: a hit is answered without moving the page to the front.
GetInPlace(page) == IsLRUPage(page) /\ UNCHANGED lruVars

\* LRUCache::get of a cached page; the result is HashMap[Narrow(page)].data.
Get(page) ==
  /\ IsLRUPage(page)
  /\ LET node == HashMap[Narrow(page)] IN
       \E i \in PositionOf(node) :
          /\ cache' = MoveToFront(i, node)
          /\ HashMap' = Remap({}, page, node)
          /\ UNCHANGED capacity

\* LRUCache::get of any other page returns nullptr.
GetMiss(page) == ~IsLRUPage(page) /\ UNCHANGED lruVars

\* Mutant of PutNew: the list is compared with the capacity one step late.
PutNewLate(page, d) ==
  LET node == [PageId |-> page, data |-> d] IN
  /\ ~IsLRUPage(page)
  /\ \/ /\ Len(cache) > capacity
        /\ cache' = MoveToFront(Len(cache), node)
        /\ HashMap' = Remap({Narrow(cache[Len(cache)].PageId)}, page, node)
     \/ /\ Len(cache) <= capacity
        /\ cache' = <<node>> \o cache
        /\ HashMap' = Remap({}, page, node)
  /\ UNCHANGED capacity

\* LRUCache::put: a new page evicts the back of a full list; a page that is
\* already there is replaced and moved to the front.
PutNew(page, d) ==
  LET node == [PageId |-> page, data |-> d] IN
  /\ ~IsLRUPage(page)
  /\ \/ /\ Len(cache) = capacity
        /\ cache' = MoveToFront(Len(cache), node)
        /\ HashMap' = Remap({Narrow(cache[Len(cache)].PageId)}, page, node)
     \/ /\ Len(cache) # capacity
        /\ cache' = <<node>> \o cache
        /\ HashMap' = Remap({}, page, node)
  /\ UNCHANGED capacity

\* Mutant of PutAgain: the iterator still points to the erased node.
PutAgainKeepsIterator(page, d) ==
  LET node == [PageId |-> page, data |-> d] IN
  /\ IsLRUPage(page)
  /\ \E i \in PositionOf(HashMap[Narrow(page)]) : cache' = MoveToFront(i, node)
  /\ UNCHANGED <<HashMap, capacity>>

PutAgain(page, d) ==
  LET node == [PageId |-> page, data |-> d] IN
  /\ IsLRUPage(page)
  /\ \E i \in PositionOf(HashMap[Narrow(page)]) :
        cache' = MoveToFront(i, node)
  /\ HashMap' = Remap({}, page, node)
  /\ UNCHANGED capacity

Put(page, d) == PutNew(page, d) \/ PutAgain(page, d)

\* Mutant of ClearaReset: the new capacity is one too small.
ClearaResetShort(cap) ==
  /\ cache' = << >>
  /\ HashMap' = [x \in {} |-> << >>]
  /\ capacity' = cap - 1

\* LRUCache::ClearaReset
ClearaReset(cap) ==
  /\ cache' = << >>
  /\ HashMap' = [x \in {} |-> << >>]
  /\ capacity' = cap

LRUNext ==
  \/ \E page \in Page : Get(page) \/ GetMiss(page)
  \/ \E page \in Page, d \in Data : Put(page, d)
  \/ \E cap \in 1 .. MaxCapacity : ClearaReset(cap)

LRUSpec ==
  (\E cap \in 1 .. MaxCapacity : LRUInit(cap)) /\ [][LRUNext]_lruVars

-----------------------------------------------------------------------------
\* The state is well formed.
LRUTypeOK ==
  /\ cache \in Seq(ReadNode)
  /\ DOMAIN HashMap \subseteq 0 .. (IntRange - 1)
  /\ \A x \in DOMAIN HashMap : HashMap[x] \in ReadNode
  /\ capacity \in 1 .. MaxCapacity

\* Every key of the map leads to a node that is still in the list and that
\* carries this key: no call of erase gets an invalidated iterator.
IteratorsValid ==
  \A x \in DOMAIN HashMap :
    /\ \E i \in DOMAIN cache : cache[i] = HashMap[x]
    /\ Narrow(HashMap[x].PageId) = x

\* The other direction: every node of the list is the one its own key maps to,
\* so no node is unreachable while it takes up capacity.
NodesMapped ==
  \A i \in DOMAIN cache :
    /\ Narrow(cache[i].PageId) \in DOMAIN HashMap
    /\ HashMap[Narrow(cache[i].PageId)] = cache[i]

\* No page number, as the map sees it, is in the list twice.
KeysDistinct ==
  \A i, j \in DOMAIN cache :
    Narrow(cache[i].PageId) = Narrow(cache[j].PageId) => i = j

\* The list and the map, which get and put update in separate statements
\* (lru.cpp:12-15, 28-41), always describe the same set of cached pages.
MapMatchesList == IteratorsValid /\ NodesMapped /\ KeysDistinct

\* The cache never holds more pages than its capacity, whatever the order of
\* hits, misses and repeated puts: the test in lru.cpp:24 is for equality, so
\* one step beyond the capacity would never be undone.
WithinCapacity == Len(cache) <= capacity
=============================================================================
