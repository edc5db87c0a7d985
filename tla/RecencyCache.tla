---------------------------- MODULE RecencyCache ----------------------------
(***************************************************************************)
(* What a least-recently-used cache promises, without lists, maps or       *)
(* iterators: a set of resident pages, what each holds, and the order in   *)
(* which they were last used.  A full cache gives up the one page that     *)
(* every other resident page was used after.                               *)
(***************************************************************************)
EXTENDS Naturals, FiniteSets

CONSTANTS Page, Data, MaxCapacity, NoPage

VARIABLES
  held,      \* the data of each resident page
  newer,     \* <<p, q>>: p was used more recently than q
  limit,     \* the number of pages the cache may hold
  last       \* the page that was asked for or given last

recencyVars == <<held, newer, limit, last>>

Resident == DOMAIN held

\* The order after page, one of "kept" or a new one, has been used.
UsedLast(page, kept) ==
  {pair \in newer : pair[1] \in kept \ {page} /\ pair[2] \in kept \ {page}}
    \cup {<<page, q>> : q \in kept \ {page}}

Holding(pages, page, d) ==
  [p \in pages \cup {page} |-> IF p = page THEN d ELSE held[p]]

Init ==
  /\ held = [p \in {} |-> {}]
  /\ newer = {}
  /\ limit \in 1 .. MaxCapacity
  /\ last = NoPage

Use(page) ==
  /\ page \in Resident
  /\ newer' = UsedLast(page, Resident)
  /\ last' = page
  /\ UNCHANGED <<held, limit>>

Load(page, d) ==
  /\ page \in Resident \/ Cardinality(Resident) < limit
  /\ held' = Holding(Resident, page, d)
  /\ newer' = UsedLast(page, Resident)
  /\ last' = page
  /\ UNCHANGED limit

Oldest(page) ==
  page \in Resident /\ \A q \in Resident \ {page} : <<q, page>> \in newer

Replace(victim, page, d) ==
  /\ page \notin Resident
  /\ Cardinality(Resident) = limit
  /\ Oldest(victim)
  /\ held' = Holding(Resident \ {victim}, page, d)
  /\ newer' = UsedLast(page, Resident \ {victim})
  /\ last' = page
  /\ UNCHANGED limit

Reset ==
  /\ held' = [p \in {} |-> {}]
  /\ newer' = {}
  /\ limit' \in 1 .. MaxCapacity
  /\ last' = NoPage

Next ==
  \/ \E page \in Page : Use(page)
  \/ \E page \in Page, d \in Data : Load(page, d)
  \/ \E victim \in Resident, page \in Page, d \in Data : Replace(victim, page, d)
  \/ Reset

Spec == Init /\ [][Next]_recencyVars
=============================================================================
