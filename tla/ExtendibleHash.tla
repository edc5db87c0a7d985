--------------------------- MODULE ExtendibleHash ---------------------------
(***************************************************************************)
(* The extendible hash index (MultiHash/ExtendibleHash): Directory, its    *)
(* buckets (ExBucket), and the page they keep on the device                *)
(* (SingleBucketWrite and PageUpdate of Backend/SSDWrite/writer.cpp,       *)
(* EBucketRead of Backend/SSDRead/reader.cpp).                             *)
(*                                                                         *)
(* A bucket collects entries in memory; when it is full it goes to its     *)
(* page and the memory copy is dropped.  A full bucket that gets one more  *)
(* entry is split: its entries are inserted again, one after the other,    *)
(* and each of them may split again.  The recursion is unfolded: "todo"    *)
(* holds the insertions still to be made, the next one first.              *)
(*                                                                         *)
(* Values and pages are functions from the keys they hold to the values;   *)
(* what is split is always in key order.  Page p starts at sector          *)
(* p * ws_min.  Failing writes are ignored by the code, failing reads end  *)
(* the process.  Every load of a page adds bucket_size to the int size of  *)
(* the bucket; MaxSize keeps the model far from its overflow.              *)
(***************************************************************************)
EXTENDS Integers, Sequences, FiniteSets, FiniteSetsExt

CONSTANTS
  Key, Value,
  InitialDepth,     \* initial_global_depth, 2
  bucket_size,      \* the entries of a page
  PagesPerChunk,    \* 1024
  MaxPages,         \* bound: no insert starts when so many pages are written,
  MaxDepth,         \* nor when the directory is deeper than this
  MaxSize           \* bound: no page is loaded that takes a bucket's size beyond

ASSUME HashAssumption ==
  /\ Key \subseteq Nat \ {0}
  /\ Value \subseteq Nat \ {0}
  /\ InitialDepth \in Nat \ {0}
  /\ bucket_size \in Nat /\ bucket_size >= 2
  /\ PagesPerChunk \in Nat \ {0}
  /\ MaxPages \in Nat /\ MaxDepth \in Nat
  /\ MaxSize \in Nat /\ MaxSize >= bucket_size

VARIABLES
  global_depth,
  buckets,          \* the directory: from indexes to (pointers to) buckets
  bucket,           \* the bucket behind each pointer
  page,             \* device: what the pages before sectorpointer hold
  todo,             \* insertions to be made, besides the caller's next call
  status,           \* "running", or how the process ended
  dict,             \* history: the value each key was last given, or 0
  strayed           \* history: a bucket met with one of the mishaps named below

vars == <<global_depth, buckets, bucket, page, todo, status, dict, strayed>>

NoPage == -1        \* UINT64_MAX
Nothing == [k \in {} |-> 0]
Blank == [k \in {0} |-> 0]
sectorpointer == Cardinality(DOMAIN page)

NewBucket(depth) == [depth |-> depth, size |-> 0, PageNum |-> NoPage, values |-> Nothing]

Init ==
  /\ global_depth = InitialDepth
  /\ buckets = [i \in 0 .. (2^InitialDepth - 1) |-> i]
  /\ bucket = [b \in 0 .. (2^InitialDepth - 1) |-> NewBucket(InitialDepth)]
  /\ page = Nothing
  /\ todo = << >>
  /\ status = "running"
  /\ dict = [k \in Key |-> 0]
  /\ strayed = FALSE

hash(k) == k % 2^global_depth
BucketOf(k) == buckets[hash(k)]

\* The index that differs from n in bit depth - 1.
pairIndex(n, depth) ==
  IF (n \div 2^(depth - 1)) % 2 = 0 THEN n + 2^(depth - 1) ELSE n - 2^(depth - 1)

IsFull(b) == bucket[b].size >= bucket_size
InMemory(b) == DOMAIN bucket[b].values # {}

Set(values, k, v) ==
  [x \in DOMAIN values \cup {k} |-> IF x = k THEN v ELSE values[x]]
Without(values, k) == [x \in DOMAIN values \ {k} |-> values[x]]

PageRead(p) == IF p \in DOMAIN page THEN page[p] ELSE Blank

-----------------------------------------------------------------------------
(* The device.                                                             *)

\* PageUpdate(p, entries): reads the chunk of p, erases it and writes it again.
\* A page whose write fails stays blank; after a failing erase all writes fail.
PageUpdate(p, entries) ==
  LET chunk == {q \in DOMAIN page : q \div PagesPerChunk = p \div PagesPerChunk} IN
  \/ \E lost \in SUBSET chunk :
       /\ page' = [q \in DOMAIN page |-> IF q \in lost THEN Blank
                                         ELSE IF q = p THEN entries ELSE page[q]]
       /\ strayed' = (strayed \/ lost # {})
  \/ strayed' = TRUE /\ UNCHANGED page

\* SingleBucketWrite to a new page.  If the write fails, the page pointer stays.
PageAppend(entries) ==
  \/ page' = Set(page, sectorpointer, entries) /\ UNCHANGED strayed
  \/ strayed' = TRUE /\ UNCHANGED page

\* Mutant of PageWrite: the page number is taken after the pointer has moved on.
PageWriteNext(b, bk) ==
  \/ /\ bk.PageNum = NoPage
     /\ PageAppend(bk.values)
     /\ bucket' = [bucket EXCEPT ![b] =
          [bk EXCEPT !.PageNum = sectorpointer + 1, !.values = Nothing]]
  \/ /\ bk.PageNum # NoPage
     /\ PageUpdate(bk.PageNum, bk.values)
     /\ bucket' = [bucket EXCEPT ![b] = [bk EXCEPT !.values = Nothing]]

\* ExBucket::PageWrite of bucket b, which has become bk.
PageWrite(b, bk) ==
  \/ /\ bk.PageNum = NoPage
     /\ PageAppend(bk.values)
     /\ bucket' = [bucket EXCEPT ![b] =
          [bk EXCEPT !.PageNum = sectorpointer, !.values = Nothing]]
  \/ /\ bk.PageNum # NoPage
     /\ PageUpdate(bk.PageNum, bk.values)
     /\ bucket' = [bucket EXCEPT ![b] = [bk EXCEPT !.values = Nothing]]

-----------------------------------------------------------------------------
(* Directory::insert and split.                                            *)

\* ExBucket::Insert of entry e in bucket b.
BucketInsert(b, e) ==
  LET bk == bucket[b] IN
  \/ /\ e.key \in DOMAIN bk.values
     /\ bucket' = [bucket EXCEPT ![b].values[e.key] = e.val]
     /\ UNCHANGED <<page, strayed>>
  \/ LET more == [bk EXCEPT !.values = Set(bk.values, e.key, e.val), !.size = @ + 1] IN
     /\ e.key \notin DOMAIN bk.values
     /\ \/ /\ more.size < bucket_size
           /\ bucket' = [bucket EXCEPT ![b] = more]
           /\ UNCHANGED <<page, strayed>>
        \/ more.size >= bucket_size /\ PageWrite(b, more)

\* Keys in the order a std::map has them in.
InOrder(keys) ==
  [i \in 1 .. Cardinality(keys) |->
     CHOOSE k \in keys : Cardinality({x \in keys : x < k}) = i - 1]

\* ExBucket::GetData; a page that is blank has as many zeros as any has entries.
GetData(b) ==
  LET values == IF bucket[b].PageNum # NoPage /\ ~InMemory(b)
                THEN PageRead(bucket[b].PageNum) ELSE bucket[b].values
      keys == IF values = Blank THEN [i \in 1 .. bucket_size |-> 0]
              ELSE InOrder(DOMAIN values)
  IN [i \in DOMAIN keys |-> [key |-> keys[i], val |-> values[keys[i]]]]

\* The directory after grow(), if depth needs it.
Grown(depth) ==
  IF depth > global_depth
  THEN [i \in 0 .. (2^depth - 1) |-> buckets[i % 2^global_depth]]
  ELSE buckets

\* Mutant of Repoint: the other entries of the new bucket keep the old one.
RepointOne(dir, pair, depth, new) == [dir EXCEPT ![pair] = new]

\* The directory with the new bucket behind index "pair" and all its aliases.
Repoint(dir, pair, depth, new) ==
  [i \in DOMAIN dir |-> IF i % 2^depth = pair % 2^depth THEN new ELSE dir[i]]

\* Mutants of Cleared: the size, or the entries, are kept.
ClearedKeepsSize(b, depth) == [bucket[b] EXCEPT !.depth = depth, !.values = Nothing]
ClearedKeepsValues(b, depth) == [bucket[b] EXCEPT !.depth = depth, !.size = 0]

\* increaseDepth and Allclear: the bucket forgets its entries, not its page.
Cleared(b, depth) ==
  [bucket[b] EXCEPT !.depth = depth, !.size = 0, !.values = Nothing]

split(n) ==
  LET b == buckets[n]
      depth == bucket[b].depth + 1
      new == Min((0 .. Cardinality(DOMAIN bucket)) \ DOMAIN bucket) IN
  /\ buckets' = Repoint(Grown(depth), pairIndex(n, depth), depth, new)
  /\ global_depth' = IF depth > global_depth THEN depth ELSE global_depth
  /\ bucket' = [x \in DOMAIN bucket \cup {new} |->
                  IF x = new THEN NewBucket(depth)
                  ELSE IF x = b THEN Cleared(b, depth) ELSE bucket[x]]
  /\ todo' = GetData(b) \o todo
  /\ UNCHANGED <<page, strayed>>

\* One call of Directory::insert, up to the calls it makes.
InsertStep ==
  /\ status = "running" /\ todo # << >>
  /\ LET e == Head(todo) IN
       \/ /\ IsFull(BucketOf(e.key))
          /\ split(hash(e.key))
       \/ /\ ~IsFull(BucketOf(e.key))
          /\ BucketInsert(BucketOf(e.key), e)
          /\ todo' = Tail(todo)
          /\ UNCHANGED <<global_depth, buckets>>
  /\ UNCHANGED <<status, dict>>

\* A caller's insert(k, v).
insert(k, v) ==
  /\ status = "running" /\ todo = << >>
  /\ sectorpointer < MaxPages /\ global_depth <= MaxDepth
  /\ todo' = <<[key |-> k, val |-> v]>>
  /\ dict' = [dict EXCEPT ![k] = v]
  /\ UNCHANGED <<global_depth, buckets, bucket, page, status, strayed>>

-----------------------------------------------------------------------------
(* remove, update and search.                                              *)

\* What Remove and Update work on: the entries in memory, or else those on the
\* page, which are loaded.  The size is then wrong by a whole bucket.
Loaded(b) ==
  IF InMemory(b) THEN bucket[b]
  ELSE [bucket[b] EXCEPT !.values = PageRead(bucket[b].PageNum),
                         !.size = @ + bucket_size]

\* There is no page to load for a bucket that was never written, and a read may
\* fail: both end the process.
LoadFails(b) ==
  /\ ~InMemory(b)
  /\ status' = "exited"
  /\ UNCHANGED <<global_depth, buckets, bucket, page, strayed>>

LoadWorks(b) ==
  /\ \/ InMemory(b)
     \/ bucket[b].PageNum # NoPage /\ bucket[b].size + bucket_size <= MaxSize
  /\ UNCHANGED status

\* Mishap: a bucket that has been split and has got no entry since loads its
\* page, which holds what it had before.
LoadsOldPage(b) == ~InMemory(b) /\ bucket[b].size = 0

\* ExBucket::Remove, for what is left of the bucket.
Left(b, k) ==
  LET bk == Loaded(b) IN
  IF k \in DOMAIN bk.values
  THEN [bk EXCEPT !.values = Without(@, k), !.size = @ - 1] ELSE bk

\* Mishap: an entry is removed from a bucket that has a page.  It stays there.
RemovesBesidePage(b, k) == bucket[b].PageNum # NoPage /\ k \in DOMAIN Loaded(b).values

\* Mutant of Joins: the buckets are joined whatever their depths are.
JoinsAnyway(n, left) == left.size = 0 /\ left.depth > 1

\* The bucket behind index n, which is left empty, goes into its pair.
Joins(n, left) ==
  /\ left.size = 0 /\ left.depth > 1
  /\ bucket[buckets[pairIndex(n, left.depth)]].depth = left.depth

merge(n, depth) ==
  LET pair == buckets[pairIndex(n, depth)] IN
  /\ buckets' = Repoint(buckets, n, depth, pair)
  /\ bucket' = [x \in DOMAIN bucket \ {buckets[n]} |->
                  IF x = pair THEN [bucket[x] EXCEPT !.depth = @ - 1] ELSE bucket[x]]

remove(k) ==
  LET b == BucketOf(k) IN
  /\ status = "running" /\ todo = << >>
  /\ dict' = [dict EXCEPT ![k] = 0]
  /\ \/ LoadFails(b)
     \/ /\ LoadWorks(b)
        /\ \/ /\ Joins(hash(k), Left(b, k))
              /\ merge(hash(k), bucket[b].depth)
           \/ /\ ~Joins(hash(k), Left(b, k))
              /\ bucket' = [bucket EXCEPT ![b] = Left(b, k)]
              /\ UNCHANGED buckets
        /\ strayed' = (strayed \/ LoadsOldPage(b) \/ RemovesBesidePage(b, k))
        /\ UNCHANGED <<global_depth, page>>
  /\ UNCHANGED todo

\* ExBucket::Update with the value v; an entry that had to be loaded is written
\* back at once, and entries loaded in vain stay in memory.
Change(b, k, v) ==
  LET bk == Loaded(b)
      changed == [bk EXCEPT !.values = Set(bk.values, k, v)] IN
  \/ /\ k \notin DOMAIN bk.values
     /\ bucket' = [bucket EXCEPT ![b] = bk]
     /\ strayed' = (strayed \/ LoadsOldPage(b))
     /\ UNCHANGED page
  \/ /\ k \in DOMAIN bk.values /\ InMemory(b)
     /\ bucket' = [bucket EXCEPT ![b] = changed]
     /\ UNCHANGED <<page, strayed>>
  \/ /\ k \in DOMAIN bk.values /\ ~InMemory(b)
     /\ PageWrite(b, changed)

update(k, v) ==
  LET b == BucketOf(k) IN
  /\ status = "running" /\ todo = << >>
  /\ dict' = [dict EXCEPT ![k] = IF @ = 0 THEN 0 ELSE v]
  /\ \/ LoadFails(b)
     \/ LoadWorks(b) /\ Change(b, k, v) /\ UNCHANGED <<global_depth, buckets>>
  /\ UNCHANGED todo

\* Search for k: it changes nothing, but asserts that a bucket without entries
\* in memory has a page (ExBucket.cpp:124), and its read may fail.
search(k) ==
  LET b == BucketOf(k) IN
  /\ status = "running" /\ todo = << >>
  /\ ~InMemory(b)
  /\ status' = IF bucket[b].PageNum = NoPage THEN "aborted" ELSE "exited"
  /\ UNCHANGED <<global_depth, buckets, bucket, page, todo, dict, strayed>>

\* Mutant of Found: the page is looked at even if there are entries in memory.
FoundOnPage(k) ==
  LET bk == bucket[BucketOf(k)] IN
  IF bk.PageNum # NoPage THEN PageRead(bk.PageNum) ELSE bk.values

\* The entries Search looks through for k.
Found(k) ==
  LET b == BucketOf(k) IN
  IF InMemory(b) \/ bucket[b].PageNum = NoPage THEN bucket[b].values
  ELSE PageRead(bucket[b].PageNum)

\* The value of the entry Search returns; 0 if it finds none.
Lookup(k) == IF k \in DOMAIN Found(k) THEN Found(k)[k] ELSE 0

\* The workloads of EXHashing1 call the operations one after the other; here in any
\* order.
Next ==
  \/ \E k \in Key, v \in Value : insert(k, v) \/ update(k, v)
  \/ \E k \in Key : remove(k) \/ search(k)
  \/ InsertStep

Spec == Init /\ [][Next]_vars

-----------------------------------------------------------------------------
Quiet == status = "running" /\ todo = << >>

\* The state is well formed.
TypeOK ==
  /\ global_depth \in Nat
  /\ buckets \in [0 .. (2^global_depth - 1) -> DOMAIN bucket]
  /\ \A b \in DOMAIN bucket :
       /\ bucket[b].depth \in 1 .. global_depth
       /\ bucket[b].size \in 0 .. MaxSize
       /\ bucket[b].PageNum \in Nat \cup {NoPage}
  /\ DOMAIN page = 0 .. (sectorpointer - 1)
  /\ status \in {"running", "exited", "aborted"}

\* Two indexes lead to one bucket exactly if they agree in its depth's low bits,
\* whatever splits, doublings of the directory and merges came before; and no
\* bucket is out of reach (ExHash.cpp:67-130).
DirectoryConsistent ==
  /\ {buckets[i] : i \in DOMAIN buckets} = DOMAIN bucket
  /\ \A i, j \in DOMAIN buckets :
       buckets[i] = buckets[j] <=>
         i % 2^bucket[buckets[i]].depth = j % 2^bucket[buckets[i]].depth

\* Entries in memory are in the bucket their key leads to: no split, merge or
\* load of a page leaves a foreign entry behind, before a mishap.
EntriesInPlace ==
  ~strayed => \A b \in DOMAIN bucket : \A k \in DOMAIN bucket[b].values : BucketOf(k) = b

\* Before a mishap, a search finds the value a key was last given, in memory or
\* on a page, through all splits and in spite of pages kept from before a
\* split; and it finds none for a key that was never inserted or was removed.
LookupIsLastValue ==
  Quiet /\ ~strayed => \A k \in Key : Lookup(k) = dict[k]

\* Two buckets never share a page, and a bucket's page has been written: splits
\* keep the page with one of the two halves, merges delete the bucket with it.
PagesNotShared ==
  ~strayed =>
    /\ \A b \in DOMAIN bucket : bucket[b].PageNum \in DOMAIN page \cup {NoPage}
    /\ \A b, c \in DOMAIN bucket :
         b # c /\ bucket[b].PageNum # NoPage => bucket[b].PageNum # bucket[c].PageNum

\* The recursion of insert and split ends as soon as the keys are told apart: the
\* directory never gets a level that no two keys need (ExHash.cpp:67-109, 152-167).
SplitsEnd ==
  ~strayed /\ global_depth > InitialDepth =>
    \E k, l \in Key : k # l /\ k % 2^(global_depth - 1) = l % 2^(global_depth - 1)

\* ExBucket.cpp:124, the assertion of Search.
SearchFindsPage == status # "aborted"
=============================================================================
