----------------------------- MODULE LinearHash -----------------------------
(***************************************************************************)
(* The linear hash index (MultiHash/LinearHash/LiHash.cpp): a table of     *)
(* buckets (LBucket) that is split bucket by bucket, and the pages full    *)
(* buckets are written to (SingleBucketWrite and PageUpdate of             *)
(* Backend/SSDWrite/writer.cpp, PageRead of Backend/SSDRead/reader.cpp).   *)
(*                                                                         *)
(* Buckets are split as they fill up; SplitFlag remembers which have been  *)
(* and are addressed by h2 = 2 * h1.  When all have, h1 is doubled.        *)
(* A split and a merge put the entries of a bucket in other ones, one by   *)
(* one: "todo" holds those still to be put, the next one first, and        *)
(* "then" the entry the caller of split inserts afterwards.                *)
(*                                                                         *)
(* Contents are functions from the keys to their values: two entries of    *)
(* one key in a bucket, which only come about after a mishap, are taken    *)
(* for one.  Page p starts at sector p * ws_min.  SplitFlag is a set, the  *)
(* indexes that are set; the code's array has 65535 places, more than      *)
(* MaxTable lets the model use.                                            *)
(***************************************************************************)
EXTENDS Integers, Sequences, FiniteSets

CONSTANTS
  Key, Value,
  Initialsize,      \* 4
  BucketMax,        \* the entries of a page
  PagesPerChunk,    \* 1024
  MaxPages,         \* bound: no insert starts when so many pages are written,
  MaxTable,         \* nor when the table has more buckets than this
  MaxSize           \* bound: no page is loaded that takes a bucket's size beyond
                    \* this, and no insert starts when one is
ASSUME LinearAssumption ==
  /\ Key \subseteq Nat \ {0}
  /\ Value \subseteq Nat \ {0}
  /\ Initialsize \in Nat \ {0}
  /\ BucketMax \in Nat /\ BucketMax >= 2
  /\ PagesPerChunk \in Nat \ {0}
  /\ MaxPages \in Nat /\ MaxTable \in Nat /\ MaxSize \in Nat

VARIABLES
  h1,
  SplitFlag,
  BucketTable,
  page,             \* device: what the pages before sectorpointer hold
  todo, to,         \* entries to be put in a bucket, and in which, or Rehash
  then,             \* what Insert puts in the table when split returns
  status,           \* "running", or how the process ended
  dict,             \* history: the value each key was last given, or 0
  strayed           \* history: one of the mishaps named below has happened

pending == <<todo, to, then>>
vars == <<h1, SplitFlag, BucketTable, page, pending, status, dict, strayed>>

NoPage == -1        \* UINT64_MAX
Rehash == -1        \* each entry goes where h2 says
h2 == 2 * h1
sectorpointer == Cardinality(DOMAIN page)
Nothing == [k \in {} |-> 0]
Blank == [k \in {0} |-> 0]

NewBucket == [size |-> 0, PageNum |-> NoPage, bucket |-> Nothing]

\* A table of n buckets, the first of which are those of "old".
Table(old, n) ==
  [b \in 0 .. (n - 1) |-> IF b \in DOMAIN old THEN old[b] ELSE NewBucket]

Init ==
  /\ h1 = Initialsize
  /\ SplitFlag = {}
  /\ BucketTable = Table(Nothing, Initialsize)
  /\ page = Nothing
  /\ todo = << >> /\ to = Rehash /\ then = << >>
  /\ status = "running"
  /\ dict = [k \in Key |-> 0]
  /\ strayed = FALSE

\* Where Insert, Search, Delete and Update look for k.
bucketno(k) == IF k % h1 \in SplitFlag THEN k % h2 ELSE k % h1

InTable(b) == b \in DOMAIN BucketTable
IsFull(b) == BucketTable[b].size >= BucketMax
InMemory(b) == DOMAIN BucketTable[b].bucket # {}
HasPage(b) == BucketTable[b].PageNum # NoPage

Set(entries, k, v) ==
  [x \in DOMAIN entries \cup {k} |-> IF x = k THEN v ELSE entries[x]]
Without(entries, k) == [x \in DOMAIN entries \ {k} |-> entries[x]]

\* Keys from the least on.
Ascending(keys) ==
  [i \in 1 .. Cardinality(keys) |->
     CHOOSE k \in keys : Cardinality({x \in keys : x < k}) = i - 1]

\* The entries in the order of their keys, as pages have them.
InOrder(entries) ==
  LET keys == IF entries = Blank THEN [i \in 1 .. BucketMax |-> 0]
              ELSE Ascending(DOMAIN entries) IN
  [i \in DOMAIN keys |-> [key |-> keys[i], val |-> entries[keys[i]]]]

Stop(how) ==
  /\ status' = how
  /\ UNCHANGED <<h1, SplitFlag, BucketTable, page, pending, strayed>>

-----------------------------------------------------------------------------
(* The device.                                                             *)

PageRead(p) == IF p \in DOMAIN page THEN page[p] ELSE Blank

\* PageUpdate: reads the chunk of p, erases it and writes it again.  A page whose
\* write fails stays blank; after a failing erase all writes fail.
PageUpdate(p, entries) ==
  LET chunk == {q \in DOMAIN page : q \div PagesPerChunk = p \div PagesPerChunk} IN
  \/ \E lost \in SUBSET chunk :
       /\ page' = [q \in DOMAIN page |-> IF q \in lost THEN Blank
                                         ELSE IF q = p THEN entries ELSE page[q]]
       /\ strayed' = (strayed \/ lost # {})
  \/ strayed' = TRUE /\ UNCHANGED page

\* SingleBucketWrite to a new page.  If the write fails, the page pointer stays.
PageAppend(entries) ==
  \/ page' = Set(page, sectorpointer, entries) /\ UNCHANGED strayed
  \/ strayed' = TRUE /\ UNCHANGED page

\* Mutant of BucketWrite: the page number is taken after the pointer has moved on.
BucketWriteNext(t, b, bk) ==
  \/ /\ bk.PageNum = NoPage
     /\ PageAppend(bk.bucket)
     /\ BucketTable' = [t EXCEPT ![b] =
          [bk EXCEPT !.PageNum = sectorpointer + 1, !.bucket = Nothing]]
  \/ /\ bk.PageNum # NoPage
     /\ PageUpdate(bk.PageNum, bk.bucket)
     /\ BucketTable' = [t EXCEPT ![b] = [bk EXCEPT !.bucket = Nothing]]

\* BucketWrite of bucket b of table t, which has become bk.
BucketWrite(t, b, bk) ==
  \/ /\ bk.PageNum = NoPage
     /\ PageAppend(bk.bucket)
     /\ BucketTable' = [t EXCEPT ![b] =
          [bk EXCEPT !.PageNum = sectorpointer, !.bucket = Nothing]]
  \/ /\ bk.PageNum # NoPage
     /\ PageUpdate(bk.PageNum, bk.bucket)
     /\ BucketTable' = [t EXCEPT ![b] = [bk EXCEPT !.bucket = Nothing]]

\* LBucket::Insert of entry e in bucket b of table t.  Mishap: the bucket was
\* full, and its page is out of sight behind the entry.
BucketInsert(t, b, e) ==
  LET more == [t[b] EXCEPT !.bucket = Set(@, e.key, e.val), !.size = @ + 1] IN
  \/ more.size = BucketMax /\ BucketWrite(t, b, more)
  \/ /\ more.size # BucketMax
     /\ BucketTable' = [t EXCEPT ![b] = more]
     /\ strayed' = (strayed \/ more.size > BucketMax)
     /\ UNCHANGED page

-----------------------------------------------------------------------------
(* Insert and split.                                                       *)

Quiet == status = "running" /\ todo = << >> /\ then = << >>

\* BucketErase() of bucket b: it keeps its page.
Erased(b) == [BucketTable EXCEPT ![b].size = 0]

\* split(b) up to its loop, called to make room for e.  It asserts that the size
\* is right (line 172) and that no entry is in memory (line 43); it may fail to
\* read the page.
split(b, e) ==
  \/ /\ BucketTable[b].size = BucketMax /\ ~InMemory(b)
     /\ todo' = InOrder(PageRead(BucketTable[b].PageNum))
     /\ to' = Rehash
     /\ then' = <<e>>
     /\ BucketTable' = Erased(b)
     /\ SplitFlag' = SplitFlag \cup {b}
     /\ UNCHANGED <<h1, page, status, strayed>>
  \/ BucketTable[b].size = BucketMax /\ ~InMemory(b) /\ Stop("exited")
  \/ (BucketTable[b].size # BucketMax \/ InMemory(b)) /\ Stop("aborted")

\* Insert(k, v).  Its callers insert no key that is in the table (LiHash.cpp:445,
\* 584); there is no test for it.
Insert(k, v) ==
  LET b == bucketno(k)
      e == [key |-> k, val |-> v] IN
  /\ Quiet /\ dict[k] = 0
  /\ sectorpointer < MaxPages /\ Cardinality(DOMAIN BucketTable) <= MaxTable
  /\ \A x \in DOMAIN BucketTable : BucketTable[x].size <= MaxSize
  /\ dict' = [dict EXCEPT ![k] = v]
  /\ \/ ~InTable(b) /\ Stop("undefined")
     \/ InTable(b) /\ IsFull(b) /\ split(b, e)
     \/ /\ InTable(b) /\ ~IsFull(b)
        /\ BucketInsert(BucketTable, b, e)
        /\ UNCHANGED <<h1, SplitFlag, pending, status>>

\* The table that has bucket b, or what one TableDouble makes of it.
Reaching(b) ==
  IF InTable(b) THEN BucketTable
  ELSE Table(BucketTable, Cardinality(DOMAIN BucketTable) + h1)

\* One turn of the loop in split, or of the one in Delete.
PutNext ==
  /\ status = "running" /\ todo # << >>
  /\ LET e == Head(todo)
         b == IF to = Rehash THEN e.key % h2 ELSE to IN
       \/ b \notin DOMAIN Reaching(b) /\ Stop("undefined")
       \/ /\ b \in DOMAIN Reaching(b)
          /\ BucketInsert(Reaching(b), b, e)
          /\ todo' = Tail(todo)
          /\ UNCHANGED <<h1, SplitFlag, to, then, status>>
  /\ UNCHANGED dict

\* Mutant of NextRound: the flags of the last round are kept.
NextRoundKeepsFlags ==
  \/ /\ 0 .. (h1 - 1) \subseteq SplitFlag
     /\ h1' = 2 * h1 /\ UNCHANGED SplitFlag
  \/ /\ ~(0 .. (h1 - 1) \subseteq SplitFlag)
     /\ UNCHANGED <<h1, SplitFlag>>

NextRound ==
  \/ /\ 0 .. (h1 - 1) \subseteq SplitFlag
     /\ h1' = 2 * h1 /\ SplitFlag' = {}
  \/ /\ ~(0 .. (h1 - 1) \subseteq SplitFlag)
     /\ UNCHANGED <<h1, SplitFlag>>

\* The end of split, and of the Insert that called it: the key goes where the h2
\* of the new round says.
SplitEnd ==
  /\ status = "running" /\ todo = << >> /\ then # << >>
  /\ NextRound
  /\ LET e == Head(then)
         b == e.key % h2' IN
       \/ /\ ~InTable(b)
          /\ status' = "undefined"
          /\ UNCHANGED <<BucketTable, page, then, strayed>>
       \/ /\ InTable(b)
          /\ BucketInsert(BucketTable, b, e)
          /\ then' = << >>
          /\ UNCHANGED status
  /\ UNCHANGED <<todo, to, dict>>

-----------------------------------------------------------------------------
(* Delete, Update and Search.                                              *)

\* Reading the page of a bucket that has none, or a failing read, exits.
LoadFails(b) == ~InMemory(b) /\ Stop("exited")

\* Mishap: a bucket that has been split and has no entry loads its old page.
LoadsOldPage(b) == ~InMemory(b) /\ BucketTable[b].size = 0

\* What ValueDelet works on; a page it has to load adds to the size.
Loaded(b) ==
  IF InMemory(b) THEN BucketTable[b]
  ELSE [BucketTable[b] EXCEPT !.bucket = PageRead(BucketTable[b].PageNum),
                              !.size = @ + BucketMax]

\* Mutant of Left: the size goes down also if there was no such entry.
LeftByOne(b, k) == [Loaded(b) EXCEPT !.bucket = Without(@, k), !.size = @ - 1]

\* ValueDelet, for what is left of the bucket.
Left(b, k) ==
  LET bk == Loaded(b) IN
  IF k \in DOMAIN bk.bucket
  THEN [bk EXCEPT !.bucket = Without(@, k), !.size = @ - 1] ELSE bk

\* Mishap: no entry is left in memory before a page, which is seen instead.
Uncovers(bk) == DOMAIN bk.bucket = {} /\ bk.PageNum # NoPage

\* The two buckets Judge compares and Delete merges, for bucket b.
Lower(b) == IF b < h1 THEN b ELSE b - h1
Upper(b) == Lower(b) + h1

Judge(t, b) == t[Lower(b)].size + t[Upper(b)].size <= BucketMax

\* What is in memory, also of a full bucket, whose entries are on its page.
GetBucket(bk) == InOrder(bk.bucket)

\* BucketErase(flag): the bucket gives up its page, too.
BucketErase(t, b) == [t EXCEPT ![b] = NewBucket]

\* The merge of table t.  The entries of a full upper bucket are lost (a mishap).
Merge(t, b) ==
  /\ SplitFlag' = SplitFlag \ {Lower(b)}
  /\ todo' = GetBucket(t[Upper(b)])
  /\ to' = Lower(b)
  /\ BucketTable' = BucketErase(t, Upper(b))

Delete(k) ==
  LET b == bucketno(k)
      left == [BucketTable EXCEPT ![b] = Left(b, k)] IN
  /\ Quiet
  /\ dict' = [dict EXCEPT ![k] = 0]
  /\ \/ ~InTable(b) /\ Stop("undefined")
     \/ InTable(b) /\ LoadFails(b)
     \/ /\ InTable(b)
        /\ InMemory(b) \/ (HasPage(b) /\ BucketTable[b].size + BucketMax <= MaxSize)
        /\ \/ /\ b \notin SplitFlag
              /\ BucketTable' = left
              /\ strayed' = (strayed \/ LoadsOldPage(b) \/ Uncovers(left[b]))
              /\ UNCHANGED <<SplitFlag, todo, to, status>>
           \/ /\ b \in SplitFlag /\ ~InTable(Upper(b))
              /\ status' = "undefined"
              /\ UNCHANGED <<SplitFlag, BucketTable, todo, to, strayed>>
           \/ /\ b \in SplitFlag /\ InTable(Upper(b)) /\ ~Judge(left, b)
              /\ BucketTable' = left
              /\ strayed' = (strayed \/ LoadsOldPage(b) \/ Uncovers(left[b]))
              /\ UNCHANGED <<SplitFlag, todo, to, status>>
           \/ /\ b \in SplitFlag /\ InTable(Upper(b)) /\ Judge(left, b)
              /\ Merge(left, b)
              /\ strayed' = (strayed \/ LoadsOldPage(b) \/ Uncovers(left[b])
                               \/ left[Upper(b)].size = BucketMax)
              /\ UNCHANGED status
        /\ UNCHANGED <<h1, page, then>>

\* ValueUpdate of an entry in memory, or on the page, which is written again
\* whether it has the key or not.
ValueUpdate(b, k, v) ==
  LET bk == BucketTable[b]
      loaded == PageRead(bk.PageNum) IN
  \/ /\ InMemory(b) /\ k \in DOMAIN bk.bucket
     /\ BucketTable' = [BucketTable EXCEPT ![b].bucket[k] = v]
     /\ UNCHANGED <<page, strayed>>
  \/ /\ ~InMemory(b) /\ HasPage(b)
     /\ BucketWrite(BucketTable, b,
          [bk EXCEPT !.bucket = IF k \in DOMAIN loaded THEN Set(loaded, k, v) ELSE loaded])

\* A bucket in memory without the key exits.
Update(k, v) ==
  LET b == bucketno(k) IN
  /\ Quiet
  /\ dict' = [dict EXCEPT ![k] = IF @ = 0 THEN 0 ELSE v]
  /\ \/ ~InTable(b) /\ Stop("undefined")
     \/ InTable(b) /\ LoadFails(b)
     \/ InTable(b) /\ InMemory(b) /\ k \notin DOMAIN BucketTable[b].bucket /\ Stop("exited")
     \/ /\ InTable(b) /\ ValueUpdate(b, k, v)
        /\ UNCHANGED <<h1, SplitFlag, pending, status>>

\* Search(k) changes nothing, unless it goes beyond the table or its read fails.
Search(k) ==
  LET b == bucketno(k) IN
  /\ Quiet
  /\ \/ ~InTable(b) /\ Stop("undefined")
     \/ InTable(b) /\ ~InMemory(b) /\ HasPage(b) /\ Stop("exited")
  /\ UNCHANGED dict

\* Mutant of Seen: the page is looked at even if there are entries in memory.
SeenOnPage(b) ==
  IF HasPage(b) THEN PageRead(BucketTable[b].PageNum) ELSE BucketTable[b].bucket

\* The entries BucketRetrival looks through in bucket b.
Seen(b) ==
  IF InMemory(b) \/ ~HasPage(b) THEN BucketTable[b].bucket
  ELSE PageRead(BucketTable[b].PageNum)

\* The value of the entry found; 0 if there is none.
Lookup(k) ==
  IF k \in DOMAIN Seen(bucketno(k)) THEN Seen(bucketno(k))[k] ELSE 0

\* The workloads of LHashPort call the operations one after the other; here in any
\* order.
Next ==
  \/ \E k \in Key, v \in Value : Insert(k, v) \/ Update(k, v)
  \/ \E k \in Key : Delete(k) \/ Search(k)
  \/ PutNext
  \/ SplitEnd

Spec == Init /\ [][Next]_vars

-----------------------------------------------------------------------------
\* The state is well formed.
TypeOK ==
  /\ h1 \in Nat \ {0}
  /\ SplitFlag \subseteq 0 .. (h2 - 1)
  /\ DOMAIN BucketTable = 0 .. (Cardinality(DOMAIN BucketTable) - 1)
  /\ \A b \in DOMAIN BucketTable :
       /\ BucketTable[b].size \in Nat
       /\ BucketTable[b].PageNum \in Nat \cup {NoPage}
  /\ DOMAIN page = 0 .. (sectorpointer - 1)
  /\ status \in {"running", "exited", "aborted", "undefined"}

\* The keys of the entries bucket b is said to have: those in memory, or, if it
\* is full, those on its page.
KeysOf(b) ==
  IF ~InMemory(b) /\ IsFull(b) THEN DOMAIN PageRead(BucketTable[b].PageNum)
  ELSE DOMAIN BucketTable[b].bucket

\* Every entry is where its key is looked for, through all splits and merges,
\* within a round and from one round to the next, also while a split or merge
\* is half done, before a mishap (LiHash.cpp:266-308, 389-413).
EntriesInPlace ==
  ~strayed => \A b \in DOMAIN BucketTable : \A k \in KeysOf(b) : bucketno(k) = b

\* Before a mishap, Search finds the value a key was last given, in memory or on a
\* page, and in spite of the pages buckets keep when they are split; and it finds
\* none for a key that was never inserted or was deleted.
LookupIsLastValue ==
  Quiet /\ ~strayed =>
    \A k \in Key : InTable(bucketno(k)) => Lookup(k) = dict[k]

\* Two buckets never share a page, and a bucket's page has been written, although
\* splits keep the page with one half and merges give one up, before a mishap.
PagesNotShared ==
  ~strayed =>
    /\ \A b \in DOMAIN BucketTable : HasPage(b) => BucketTable[b].PageNum \in DOMAIN page
    /\ \A b, c \in DOMAIN BucketTable :
         b # c /\ HasPage(b) => BucketTable[b].PageNum # BucketTable[c].PageNum

\* LiHash.cpp:172 and 43: the assertions of GetBucketRead and BucketErase.
AssertionsHold == status # "aborted"
=============================================================================
