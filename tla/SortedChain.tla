---------------------------- MODULE SortedChain ----------------------------
(***************************************************************************)
(* What a skip list promises, without levels and pointers: a chain of      *)
(* items in the order of their keys, the newest first among those of one   *)
(* key, and a search that finds the first item of a key not below the one  *)
(* looked for.                                                             *)
(***************************************************************************)
EXTENDS Integers, SequencesExt

CONSTANTS ItemKey, MaxItems

VARIABLES
  chain,       \* items; no is the number of the item, in the order they came
  result       \* the number of the item found last, 0 for none

chainvars == <<chain, result>>

\* The place of the first item whose key is not below k, or that behind the last.
PlaceOf(k) ==
  CHOOSE i \in 1 .. (Len(chain) + 1) :
    /\ \A j \in 1 .. (i - 1) : chain[j].key < k
    /\ i \in DOMAIN chain => chain[i].key >= k

ChainInit == chain = << >> /\ result = 0

Add(k) ==
  /\ Len(chain) < MaxItems
  /\ chain' = InsertAt(chain, PlaceOf(k), [key |-> k, no |-> Len(chain) + 1])
  /\ UNCHANGED result

Find(k) ==
  /\ result' = IF PlaceOf(k) \in DOMAIN chain THEN chain[PlaceOf(k)].no ELSE 0
  /\ UNCHANGED chain

ChainNext == \E k \in ItemKey : Add(k) \/ Find(k)

ChainSpec == ChainInit /\ [][ChainNext]_chainvars
=============================================================================
