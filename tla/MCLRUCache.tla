----------------------------- MODULE MCLRUCache -----------------------------
(***************************************************************************)
(* LRUCache for TLC, with the refinement mapping to RecencyCache.  The     *)
(* history variable "last" says which page was used last, so that a use    *)
(* that leaves no trace in the order of the list is seen.                  *)
(***************************************************************************)
EXTENDS LRUCache

CONSTANT NoPage
VARIABLE last

MCInit == last = NoPage /\ \E cap \in 1 .. MaxCapacity : LRUInit(cap)

MCNext ==
  \/ \E page \in Page : Get(page) /\ last' = page
  \/ \E page \in Page : GetMiss(page) /\ UNCHANGED last
  \/ \E page \in Page, d \in Data : Put(page, d) /\ last' = page
  \/ \E cap \in 1 .. MaxCapacity : ClearaReset(cap) /\ last' = NoPage

MCSpec == MCInit /\ [][MCNext]_<<lruVars, last>>

Recency == INSTANCE RecencyCache WITH
  held  <- [p \in {n.PageId : n \in ToSet(cache)} |->
              (CHOOSE n \in ToSet(cache) : n.PageId = p).data],
  newer <- {<<cache[pair[1]].PageId, cache[pair[2]].PageId>> :
              pair \in {ij \in (DOMAIN cache) \X (DOMAIN cache) : ij[1] < ij[2]}},
  limit <- capacity

\* The list and the map together behave as a least-recently-used cache: every
\* get and put moves its page to the front, and the page a full cache evicts is
\* the one used longest ago (lru.cpp:11-42).
ImplementsRecency == Recency!Spec

=============================================================================
