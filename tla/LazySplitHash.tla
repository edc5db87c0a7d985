--------------------------- MODULE LazySplitHash ---------------------------
(***************************************************************************)
(* The lazy-split hash (MultiHash/LazySplitHash/LSHash.cpp), one operation *)
(* a step.  What is built of it is the part before the first split: every  *)
(* Split ends in an assertion that the table has no bucket, which exits,   *)
(* and a lookup reads a page that no bucket has, which aborts.  So the     *)
(* table keeps its length, and a bucket keeps its entries in memory, as    *)
(* PageWrite is empty.  Nothing returns a value: an entry is its key.      *)
(***************************************************************************)
EXTENDS Integers, Sequences

CONSTANTS
  LSKey,
  TableBaseSize,      \* DEFAULT_TABLEBASESIZE, 4
  bmaxsize            \* entries of a page
ASSUME LazySplitAssumption ==
  LSKey \subseteq Nat /\ TableBaseSize \in Nat \ {0} /\ bmaxsize \in Nat \ {0}

VARIABLES
  bucketList,         \* the entries of each bucket, numbered from 0
  Allsize,
  lsstatus            \* "running", "exited" (assertion of Split), "aborted" (of a read)

lsvars == <<bucketList, Allsize, lsstatus>>

NewBucket == << >>

LSInit ==
  /\ bucketList = [b \in 0 .. (TableBaseSize - 1) |-> NewBucket]
  /\ Allsize = 0
  /\ lsstatus = "running"

GetBits(number) == CHOOSE b \in 0 .. number : number < 2^b /\ (b > 0 => number >= 2^(b - 1))

\* Mutant of BitHashfunc: the mask is a modulus.
BitHashfuncShort(number, bits) == number % (2^bits - 1)
\* The lowest bits of a number.
BitHashfunc(number, bits) == number % 2^bits

\* GetBits of the length is a bit too many when that is a power of two.
Masked(key) == BitHashfunc(key, GetBits(TableBaseSize))
BucketOf(key) ==
  IF Masked(key) < TableBaseSize THEN Masked(key)
  ELSE BitHashfunc(Masked(key), GetBits(Masked(key)) - 1)

\* IFCompute divides integers, so 0.9 is exceeded when the buckets are full on average.
OverThreshold(size) == size \div (TableBaseSize * bmaxsize) > 0

\* A bucket that has become full writes its page, which does nothing.
BucketInsert(bucket, key) == Append(bucket, key)

LSInsert(key) ==
  /\ lsstatus = "running"
  /\ Allsize' = Allsize + 1
  /\ IF OverThreshold(Allsize')
     THEN lsstatus' = "exited" /\ UNCHANGED bucketList
     ELSE /\ bucketList' = [bucketList EXCEPT ![BucketOf(key)] = BucketInsert(@, key)]
          /\ UNCHANGED lsstatus

\* Nothing sets the page of a bucket, and reading it asserts that there is one.
Unset == -1
LSBucketFromPage(page) == page = Unset /\ lsstatus' = "aborted"
BDataRead == LSBucketFromPage(Unset) /\ UNCHANGED <<bucketList, Allsize>>

\* A lookup or a deletion reads the first bucket on its way.
LSRetrieval == lsstatus = "running" /\ BDataRead

\* LSbucket::Update does nothing and returns 0.
LSUpdate == lsstatus = "running" /\ UNCHANGED lsvars

LSNext == (\E key \in LSKey : LSInsert(key)) \/ LSRetrieval \/ LSUpdate

LSSpec == LSInit /\ [][LSNext]_lsvars

-----------------------------------------------------------------------------
\* The numbers of entries in all the buckets up to b.
EntriesUpTo[b \in 0 .. (TableBaseSize - 1)] ==
  Len(bucketList[b]) + (IF b = 0 THEN 0 ELSE EntriesUpTo[b - 1])

\* The state is well formed, and as long as the table is in use Allsize counts the
\* entries in its buckets.
LSTypeOK ==
  /\ DOMAIN bucketList = 0 .. (TableBaseSize - 1)
  /\ \A b \in DOMAIN bucketList : \A i \in DOMAIN bucketList[b] : bucketList[b][i] \in LSKey
  /\ lsstatus \in {"running", "exited", "aborted"}
  /\ lsstatus # "exited" => Allsize = EntriesUpTo[TableBaseSize - 1]

\* Linear hashing's rule for a table of any length: with p the largest power of two
\* up to the length, a key is in bucket key mod 2p if there is one and key mod p if
\* not.  BucketOf takes one bit too many when the length is p and falls back to the
\* bits of the masked key, not of the table, yet every entry is where the rule says.
EntriesWhereDue ==
  LET p == CHOOSE p \in {2^i : i \in 0 .. TableBaseSize} :
             p <= TableBaseSize /\ TableBaseSize < 2 * p
  IN  \A b \in DOMAIN bucketList : \A i \in DOMAIN bucketList[b] :
        LET key == bucketList[b][i] IN
        b = IF key % (2 * p) < TableBaseSize THEN key % (2 * p) ELSE key % p
=============================================================================
