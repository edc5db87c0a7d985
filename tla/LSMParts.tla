------------------------------ MODULE LSMParts ------------------------------
(***************************************************************************)
(* What the two LSM trees share: LSM-Tree/ (on a device with an FTL) and   *)
(* LSMTree-NoFTL/ (which writes runs itself) hold the same buffer, level   *)
(* and merge code under different class names.  The definitions here are   *)
(* the pure part of it; each tree has its own runs, flush and PutValue.    *)
(*                                                                         *)
(* A deletion is an entry of the value 0.  A level has two runs, and the   *)
(* runs of a level have twice the room of those of the level above.        *)
(***************************************************************************)
EXTENDS Integers, FiniteSets, Sequences

CONSTANTS
  Key,
  Value,        \* live values; 0 is the deletion
  BufferSize,   \* MaxSize of the buffer, and of the first level's runs
  NumLevels     \* 7
ASSUME TreeAssumption ==
  /\ Key \subseteq Nat \ {0}
  /\ Value \subseteq Nat \ {0}
  /\ BufferSize \in Nat \ {0}
  /\ NumLevels \in Nat \ {0}

Deleted == 0
Level == 0 .. (NumLevels - 1)
AnyValue == Value \cup {Deleted}
EntryOf == [key : Key, val : AnyValue]

\* Level i, the (i+1)-th one that is made, has runs of this size.
RunSize(i) == BufferSize * 2^i

\* The buffer is a set of entries ordered by key: a function from the keys in it.
EmptyBuffer == [k \in {} |-> Deleted]

\* A set as a sequence: before holds the pairs of which the first one precedes.
Arranged(S, before) ==
  [n \in 1 .. Cardinality(S) |->
    CHOOSE x \in S : Cardinality({y \in S : <<y, x>> \in before}) = n - 1]

\* The entries of a buffer in the order GetEntries copies them.
GetEntries(buffer) ==
  LET keys == Arranged(DOMAIN buffer,
                       {pair \in (DOMAIN buffer) \X (DOMAIN buffer) : pair[1] < pair[2]})
  IN  [n \in DOMAIN keys |-> [key |-> keys[n], val |-> buffer[keys[n]]]]

\* A full buffer takes nothing, not even a new value of a key that is in it.
HasRoom(buffer) == Cardinality(DOMAIN buffer) < BufferSize
Put(buffer, k, v) ==
  [j \in DOMAIN buffer \cup {k} |-> IF j = k THEN v ELSE buffer[j]]

\* The merge queue gives the smaller key first and the larger value first among
\* the entries of one key; Contextpop1 gives all of them until the queue is empty.
Precedes(x, y) == \/ x.key < y.key
                  \/ x.key = y.key /\ x.val > y.val
\* The places i of entries that come out before the entry of place j does.
PoppedBefore(entries, i, j) ==
  \/ Precedes(entries[i], entries[j])
  \/ ~Precedes(entries[j], entries[i]) /\ i < j
Drain(entries) ==
  LET live == {i \in DOMAIN entries : entries[i].val # Deleted}
      places == Arranged(live, {pair \in live \X live :
                                  PoppedBefore(entries, pair[1], pair[2])})
  IN  [n \in DOMAIN places |-> entries[places[n]]]

\* A level is "full" as soon as both its runs hold something, and "empty" as
\* long as neither is full to the last entry; n1 and n2 are their sizes.
IsFull(n1, n2) == n1 # 0 /\ n2 # 0
IsEmpty(n1, n2, max) == n1 # max /\ n2 # max

\* Level::PutValue: of entries that are put one by one, the first run that is
\* not full takes as many as it has room for, and what finds no run is dropped.
Least(a, b) == IF a <= b THEN a ELSE b
\* (Mutant of ToFirst: it takes all of them.)
ToFirstAll(n1, max, entries) == entries
ToFirst(n1, max, entries) == SubSeq(entries, 1, Least(max - n1, Len(entries)))
\* (Mutant of ToSecond: the entry the first run refuses is not put again.)
ToSecondNext(n1, n2, max, entries) ==
  LET rest == SubSeq(entries, Least(max - n1, Len(entries)) + 2, Len(entries))
  IN  SubSeq(rest, 1, Least(max - n2, Len(rest)))
ToSecond(n1, n2, max, entries) ==
  LET rest == SubSeq(entries, Least(max - n1, Len(entries)) + 1, Len(entries))
  IN  SubSeq(rest, 1, Least(max - n2, Len(rest)))

-----------------------------------------------------------------------------
(* Lookups.                                                                *)

NullPointer == -1

BufferGet(buffer, k) == IF k \in DOMAIN buffer THEN buffer[k] ELSE NullPointer

KeysOf(entries) == {entries[i].key : i \in DOMAIN entries}

\* What a run that is searched in memory may answer.  One that has not the key
\* looks past the end of its entries and returns what it finds, as it compares
\* with the end of another vector: any value.
FoundIn(entries, k) ==
  IF k \notin KeysOf(entries) THEN AnyValue
  ELSE {entries[CHOOSE i \in DOMAIN entries :
                  entries[i].key = k /\ \A j \in 1 .. (i - 1) : entries[j].key # k].val}

\* Of runs searched one after the other, the first that does not return the null
\* pointer answers.
FirstAnswer(answers) ==
  LET given == {i \in DOMAIN answers : answers[i] # {NullPointer}}
  IN  IF given = {} THEN {NullPointer}
      ELSE answers[CHOOSE i \in given : \A j \in given : i <= j]
=============================================================================
