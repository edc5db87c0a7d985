---------------------------- MODULE TNCSkiplist ----------------------------
(***************************************************************************)
(* One skip list of the TNC tree (Ti-OCSSD/MemoryTier/Node.cpp and the     *)
(* walks of InsertNode and SearchNode in MemTier.cpp), with its levels and *)
(* pointers.  Module MemTier has of it the chain at the bottom, and of a   *)
(* node also the flag and the offset; here it is shown that the levels     *)
(* above change neither where a node is put nor which one is found.        *)
(***************************************************************************)
EXTENDS Integers, Sequences

CONSTANTS
  ListKey,
  MAX_LEVEL1,         \* 32: the levels of the head, and of a node at most
  MaxListNodes        \* bound on the nodes
ASSUME SkiplistAssumption ==
  ListKey \subseteq Nat /\ MAX_LEVEL1 \in Nat \ {0} /\ MaxListNodes \in Nat

VARIABLES
  tsl,                \* the nodes as they were made, the head first
  level,              \* levels in use
  node,               \* what SearchNode returned last
  liststatus          \* "running", or "undefined": beyond the end of forward

listvars == <<tsl, level, node, liststatus>>

Nullptr == 0
HeadNode == 1

TskiplistNodeCreat(k, maxLevel) ==
  [key |-> k, forward |-> [i \in 0 .. (maxLevel - 1) |-> Nullptr]]

\* LocalGeneration and TskiplistCreate.
ListInit ==
  /\ tsl = << TskiplistNodeCreat(0, MAX_LEVEL1) >>
  /\ level = 0
  /\ node = Nullptr
  /\ liststatus = "running"

-----------------------------------------------------------------------------
\* Mutant of Passes: the walk goes on to the last node of the key.
PassesEqual(next, k) == next # Nullptr /\ tsl[next].key <= k

\* The walk for k goes on to this node.
Passes(next, k) == next # Nullptr /\ tsl[next].key < k

\* The nodes that have level i.
OnLevel(i) == {n \in DOMAIN tsl : i \in DOMAIN tsl[n].forward}

\* Where the walk for k leaves level i when it comes to it at node n.
LastOn(i, k) ==
  LET last[n \in OnLevel(i)] ==
        LET next == tsl[n].forward[i] IN IF Passes(next, k) THEN last[next] ELSE n
  IN  last

\* The nodes where the walk for k leaves each level, from the top one down.
Walk(top, k) ==
  LET left[i \in 0 .. top] == LastOn(i, k)[IF i = top THEN HeadNode ELSE left[i + 1]]
  IN  left

RandomLevel == 1 .. MAX_LEVEL1

\* The new node is put behind update[i] on each of its v levels.
Link(k, v, update) ==
  LET new == Len(tsl) + 1
      linked == [n \in DOMAIN tsl |->
        [tsl[n] EXCEPT !.forward =
           [i \in DOMAIN @ |-> IF i < v /\ update[i] = n THEN new ELSE @[i]]]]
  IN  Append(linked, [key |-> k,
                      forward |-> [i \in 0 .. (v - 1) |-> tsl[update[i]].forward[i]]])

\* The walk starts at forward[level], one above the levels in use, which the head
\* does not have when all are.  It ends at a node below k, so the test for an equal
\* key holds for the head alone, whose key is 0.
InsertNode(k) ==
  /\ liststatus = "running"
  /\ IF level = MAX_LEVEL1
     THEN liststatus' = "undefined" /\ UNCHANGED <<tsl, level>>
     ELSE LET left == Walk(level, k) IN
          \/ tsl[left[0]].key = k /\ UNCHANGED <<tsl, level, liststatus>>
          \/ /\ tsl[left[0]].key # k
             /\ Len(tsl) <= MaxListNodes
             /\ \E v \in RandomLevel :
                  LET update == [i \in 0 .. (v - 1) |-> IF i >= level THEN HeadNode ELSE left[i]]
                  IN  /\ tsl' = Link(k, v, update)
                      /\ level' = IF v > level THEN v ELSE level
             /\ UNCHANGED liststatus
  /\ UNCHANGED node

\* Search, Update and Delete look for k from the top level in use.
SearchNode(k) ==
  /\ liststatus = "running"
  /\ node' = LET last == IF level = 0 THEN HeadNode ELSE Walk(level - 1, k)[0]
             IN  tsl[last].forward[0]
  /\ UNCHANGED <<tsl, level, liststatus>>

ListNext == \E k \in ListKey : InsertNode(k) \/ SearchNode(k)

ListSpec == ListInit /\ [][ListNext]_listvars

-----------------------------------------------------------------------------
\* The nodes along the bottom level.
Bottom ==
  LET From[n \in 0 .. Len(tsl)] ==
        IF n = Nullptr THEN << >>
        ELSE << [key |-> tsl[n].key, no |-> n - 1] >> \o From[tsl[n].forward[0]]
  IN  From[tsl[HeadNode].forward[0]]

Chain == INSTANCE SortedChain WITH
  ItemKey <- ListKey, MaxItems <- MaxListNodes,
  chain <- Bottom, result <- IF node = Nullptr THEN 0 ELSE node - 1

\* The skip list is a sorted chain: whatever levels the nodes have been given, and
\* with keys that are inserted again, a node goes in front of all those of its key
\* and a search finds the newest.
SkiplistIsSortedChain == Chain!ChainSpec

\* The state is well formed: a level links only nodes that have it.
ListTypeOK ==
  /\ level \in 0 .. MAX_LEVEL1
  /\ node \in 0 .. Len(tsl)
  /\ \A n \in DOMAIN tsl : \A i \in DOMAIN tsl[n].forward :
       LET next == tsl[n].forward[i] IN
       next # Nullptr => next \in DOMAIN tsl /\ i \in DOMAIN tsl[next].forward
  /\ liststatus \in {"running", "undefined"}
=============================================================================
