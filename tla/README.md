# REXIO: a TLA+ verification project

REXIO is a set of key-value indexes that write to an open-channel SSD through
`liblightnvm`. This directory models its indexes, the page store below them and
the processes around them in TLA+, checks the models with TLC on small
instances, and proves with TLAPS, for every value of the constants, the safety of the
TNC tree, of its page cache (with the refinement of what a cache promises) and of its
processes, of the extendible, the linear and the lazy-split hash, of both LSM trees, of the page store,
of the skip list (with the refinement of what it promises) and of the parallel writer. Every
invariant and action property a run checks is also proved; what stays with TLC is liveness.

## The system

`src/src/main.cpp` opens the device (`GlobalInitialize`), sets up the write
pointers and starts one index. At this commit it starts the TNC tree
(`TiOCSInit`); the calls of the other indexes are commented out next to it
(main.cpp:169-179). All indexes share the backend, which addresses the device
by sector numbers: a chunk of 4096 sectors takes its pages (4 sectors) in
order, each once, until it is erased as a whole.

| Component | State | Operations | Interacts with |
|---|---|---|---|
| TNC tree, memory tier (`MemTier.cpp`) | table of skip lists of nodes (key, flag, offset) | `InsertNode`, `Search`, `Update`, `Delete` | calls the store tier |
| TNC tree, store tier (`syncstore.cpp`) | one write buffer, its fill, the last offset; a log buffer per block | `SyncWrite`, `SyncRead`, `SyncDelete` | page cache, log writer, page reader |
| LRU page cache (`LRU/`) | list of pages, map of iterators, capacity | `get`, `put`, `ClearaReset` | filled by `SyncRead` |
| Log writer, page reader (`writer.cpp`, `reader.cpp`) | data pointer, chunk usage | `PageLogWrite`, `InfoRenew`, `SinglePageRead` | device |
| Parallel writer (`parallel_writer.cpp`) | a write pointer per channel, buffers, threads | `parallel_coordinator`, `parallel_write_into_pu` | device; called by the NoFTL tree |
| Extendible hash (`ExHash.cpp`, `ExBucket.cpp`) | directory, buckets, a page per full bucket | `insert`, `remove`, `update`, `search` | bucket writer, device |
| Linear hash (`LiHash.cpp`) | table of buckets, split flags, `h1`, a page per full bucket | `Insert`, `Delete`, `Update`, `Search` | bucket writer, device |
| Lazy split hash (`LSHash.cpp`) | table of buckets, `Allsize` | insert, search, update, delete | page reader |
| LSM tree (`LSM-Tree/`) | memory buffer, levels of two runs that stay in memory | `PutValue`, `UpdateValue`, `DeleteValue`, `GetValue`, `FlushInto` | |
| NoFTL LSM tree (`LSMTree-NoFTL/`) | memory buffer, levels of two runs that go to the device when full | the same | parallel writer |
| WriteDisk (`WriteDisk.cpp`) | sector pointer, chunk usage | `PointerRenew`, `erasechunk`, `CompenstaeFun` | called by the bucket writers of the hashes |
| Bucket writers (`writer.cpp`, `reader.cpp`) | | `SingleBucketWrite`, `PageUpdate`, `SinglePageRead` | WriteDisk, device |
| Skip lists of the TNC tree (`Node.cpp`, `MemTier.cpp`) | nodes with forward pointers, levels in use | `InsertNode`, `SearchNode`, `RandomLevel` | the chains of the memory tier |
| Processes of the TNC tree (`TiOCS.cpp`) | a System V message queue | fork, send, receive, end, start again | |
| Start-up (`main.cpp`) | write pointers of the channels | `GlobalInitialize`, the choice of an index | starts one index |

The hard behaviours, each listed with its line under "hazards" in
`PROJECT.json`: bit fields of offsets that drift from the pointers they are
made of; nodes that outlive the buffer slot they name; two structures (list and
map, usage and pointer, directory and depths) kept in step by separate
statements; threads that share counters and buffers with their coordinator;
recursive splits; pages kept by a bucket whose entries have moved; flushes that
cascade through levels and read runs back; a pointer that starts over on a device
that is still in use; messages of two directions, and of earlier runs of the
program, on one queue; failing device commands.

## The modules

| Module | Models | Remarks |
|---|---|---|
| `LRUCache` | the page cache | an iterator is the node it points to; it dangles when the node is not in the list |
| `RecencyCache` | what an LRU cache promises | abstract; no list, no map |
| `StoreTier` | store tier, log writer, page reader | extends `LRUCache`; operators on primed variables, composed by the memory tier |
| `MemTier` | memory tier | extends `StoreTier`; `Spec` is the whole TNC tree |
| `ParallelWriter` | coordinator, its threads and the device | a step per statement that others can see |
| `ExtendibleHash` | directory, buckets, their pages | recursion unfolded into a worklist |
| `LinearHash` | table, split flags, buckets, their pages | splits and merges move one entry a step |
| `LSMParts` | buffer, merge, levels and lookups that both LSM trees have | pure definitions |
| `LSMTree` | the LSM tree | extends `LSMParts` |
| `NoFTLKV` | the NoFTL LSM tree | extends `LSMParts`; the coordinator is the outcomes of its calls |
| `LazySplitHash` | the lazy-split hash, as far as it runs | |
| `TiOCSProcesses` | parent, children and their queue | states fairness |
| `TNCSkiplist` | a skip list with its levels and pointers | refines `SortedChain` |
| `SortedChain` | what a skip list promises | abstract; no levels, no pointers |
| `FlashStore` | bucket writers on `WriteDisk`'s pointers and erasure | pages are the unit |
| `Main` | start-up and the choice of an index | composes the modules above from `LSMParts` on |
| `MCLRUCache`, `MCMemTier`, `MCLinearHash` | instances for TLC | `MCLRUCache` holds the refinement mapping, `MCLinearHash` the bounds of its run |
| `BasicLemmas` | inserting in and removing from sequences; the least of some numbers; remainders and powers of two; finite sets of entries and their keys in order | facts the proofs share |
| `LRUCacheProofs`, `MemTierProofs`, `ParallelWriterProofs`, `ExtendibleHashProofs`, `LinearHashProofs`, `LSMTreeProofs` | theorems about the module of that name; `LSMTreeProofs` has both LSM trees | |
| `MainProofs` | theorems about the parts of `Main`: lazy-split hash, skip list, page store, processes; and about `Main` | extends `LSMTreeProofs` |

### The TNC tree (`MemTier`, `StoreTier`, `LRUCache`)

The code is sequential, so each of the four operations is one action, made of
the operators for the calls it makes: `Update` is `SearchNode`, then
`SyncDelete` (and in it `PageLogWrite` and `InfoRenew`), then `SyncWrite` with
the data pointer `SyncDelete` may have moved. `status` is how the process
ended: by an assertion (`aborted`), a failing command (`exited`) or the null
pointer `Delete` follows for a key beyond the end of a chain (`crashed`).

An offset is the record of its three bit fields. The write buffer is refilled
when it is full but never written (the call is commented out,
syncstore.cpp:34), and the block field advances only when the data pointer is
at the start of a chunk; both are modelled as they are, so an old node may name
a slot that now holds another entry. `SyncReadEntry` is what a read returns, from the buffer, the
cache or the device. A page that was never written reads as zeros: this is
what the emulated device does.

A chain is the bottom level of its skip list. That the upper levels and
`RandomLevel` only shorten walks is what `TNCSkiplist` shows. `dict` (the last
value given to a key) and `deletions` are history variables.

### The parallel writer

`pc` is where the coordinator is: filling buffers, creating threads, joining
them, or advancing the pointer. A thread checks its buffer and writes, loads
and stores the global counter (two steps, no lock), and verifies. Slots beyond
the batch, when the number of threads does not divide it, are started as the
code starts them. The device is external: it takes the pages of a chunk in
order and may fail. `channel_width` in `GlobalInitialize` and in the coordinator
differ; the model has both. The coordinator exits unless the keys of a run are
1, 2, 3 and so on (parallel_writer.cpp:214-221): the runs of the model are those.
Of the read mode only the pages it computes are modelled (`PageReadFor`).

`RoomOf` is the number of pages a channel has before it meets the next channel or the end of its
LUNs. Both properties of the pages hold as far as that: beyond it the modulus takes the pointer into
pages of other channels, and once it has left the rows of its channel the reader, which goes a LUN at
a time, and the writer, which goes `max_os_threads`, can part (with 3 channels, 2 LUNs of 14 chunks of a
sector and runs of 2 and 8 pages they do, a few pages past the last one of a channel).

### The extendible hash

`insert` splits a full bucket and inserts its entries again, which may split
again. The model keeps the calls still to be made in `todo`; an
`InsertStep` is one call of `Directory::insert`. Buckets, pages and the
directory follow the code: a split leaves the page with the old bucket, `Update`
writes a page it has loaded back through the read-erase-write of its chunk,
`Remove` does not. `strayed` is set by four mishaps after which the
contents are not what was stored: a write that fails (not reported), a load of a
page from before a split, a removal beside the page. Properties about contents
hold up to the first mishap, those about the directory always.

### The linear hash

A bucket that is full is split: its page is read, its entries are put where
`key % h2` says, and the caller's entry after them. The model keeps the entries
still to be put in `todo` (a merge fills it too), so that the invariants are also
checked between two of them. `SplitEnd` is the end of `split` and the rest of the
`Insert` that called it. When every bucket of a round has been split, `h1` doubles
and the flags are cleared.

`status` becomes `undefined` where the code indexes `BucketTable` beyond its end:
the table is made longer when a split moves an entry to a bucket that does not
exist, not when the key inserted after the split needs one. `strayed` is set by the
mishaps named at the actions: failing writes, a page from before a split loaded by a
deletion, a deletion that empties a bucket before its page, an overfull bucket
that hides its page, the merge of a bucket whose entries are on its page.

### The skip list (`TNCSkiplist`, `SortedChain`)

`tsl` has the nodes in the order they were made, the head first; a pointer is the
number of a node. `InsertNode` walks from one level above those in use, `SearchNode`
from the highest one in use, and the height of a node is any that `RandomLevel` can
draw. The refinement maps the bottom level to the chain of `SortedChain` and the
node a search returned to its item. The test for an equal key, made on the node
*before* the place, holds for the head alone: a key that is inserted again gets a node in
front of its older ones, a key 0 none at the start of a list. When all levels are in use an insertion looks at
`forward[MAX_LEVEL1]`, which no node has: `liststatus` becomes `undefined` (with 32 levels
a draw of that height has a probability of 2^-31).

### The LSM tree (`LSMParts`, `LSMTree`)

The buffer is a function from the keys in it, a run a sequence of entries, a level two
runs. A put in a full buffer is one action: `FlushInto`, which recurses down to
the first level that is not "full", the merge of each level above into the next, and the
buffer's own way into the first level. "Full" and "empty" are what the code
computes: a level is full as soon as both its runs hold something, empty as long as
neither is full to the last entry. The code that writes a run to pages and
reads it back is commented out, so `SingleRunRead` returns no entry, and every
merge drops what the levels had. This is why nothing ever gets below the first level, and
why the run `MCFlushedEntries` finds a key lost after two flushes. What does hold is
that a flush keeps what is in the buffer, and that a lookup finds what a run
holds, whatever fences and key bounds say. `GetValue` is a set: a run that has not
the key dereferences the end of its entries and may return any value.

### The LSM tree without an FTL (`NoFTLKV`)

The same tree, but a run that becomes full is written by the parallel coordinator
and read back for a merge. A step of the tree is one operation; the writer's
threads are in `ParallelWriter`. Here a call of the coordinator is its outcome: it exits
unless the keys of the run are 1, 2, 3 and so on without a deletion, and a read exits, as
its threads read into buffers that were never allocated, or returns what a run on the
device holds. The run's own `run_param` leads to its pages only once it has been
written; before, to any run's. In consequence at most one run is ever on the device
(`OneRunOnDevice`). A lookup never reads it: a run searches its
entries in memory, also when it has none there any more, and then answers with
whatever is behind the end of an empty vector.

### The lazy-split hash (`LazySplitHash`)

What is built works up to the first split: `Split` ends in an assertion that exits, a lookup
or a deletion reads a page no bucket has and aborts, `Update` does nothing. The
model has the table until then, and the two ends. Its bit arithmetic
(`GetBits`, `BitHashfunc`, the fallback in `Insert`) is modelled by what it computes.

### The processes (`TiOCSProcesses`)

`at` says where the parent and the child of each run of the program are. A
message has no content the code looks at, so the queue is a number; the kernel hands a
message to the process that has waited longest (`waiters`). Sending to a waiter
is one step, as it is in the kernel. The parent may end at any moment (the benchmark
calls `exit`, TiOCS.cpp:70, before the lines that remove the queue and wait for
the child); children go on, and the program can be started again on the queue it left.
`other_function`, the exchange of three messages, is called by no code at this
commit: the model lets the parent call it whenever it is idle.

### The page store of the hashes (`FlashStore`)

`sectorpointer` and `chunkusage` are the code's, counted in pages; `chunk` is what the
device has, which takes pages in order only and erases only full chunks. A bucket
is written at the pointer the first time (`PageAppend`) and in place later
(`PageUpdate`: read the chunk, fill it up and erase it, write it again). The two
overloads for the linear and the extendible hash differ in the type of an entry
alone. At the end of the device the pointer starts over and some chunks are erased, with
whatever they hold; `wrapped` and `refused` say how far properties can reach. Commands
fail on `MaxFaults` chunks at most: a failed read ends the process, any
other goes unnoticed, as in the code. A chunk whose count is off is not filled up, since the device refuses
the first page of the filling, and then not erased either. `PageUpdate` writes as many pages as are counted, from
the first of the chunk on: should a chunk be counted beyond its size, the rest goes to the chunks behind it
(`Part`, `Rewritten`). `faulted` has the chunks on which a command has failed, and those that were
written to that way. That it takes a failed command on a chunk past the erased ones and a new start of the pointer to
get there is `UpdatesStayInChunk`. That is proved, but not part of a run: the pointer has to come back to a chunk past the erased
ones, for which `MCMain`'s page store is too small (with 1 value of `Data`, `LastPage` 5, 9 buckets and
faults on 2 chunks TLC finds the case, and the property holds).

### Start-up (`Main`)

`main` sets up the device, or exits, and calls one index. Which one is a comment in
main.cpp away ("select different indexes", main.cpp:167), so `Main` chooses any and lets it run; the
state of the others stays the initial one. `bench_testing`, the part of `TiOCSInit`
that works on the index, is a choice of its own, and `EXHashing1` stands for `LHashPort` too.
The TNC tree, the two big hashes and the parallel writer have runs of their own.

## What TLC checks

| Run | Instance | Shows |
|---|---|---|
| `MCLRUCache` | 4 pages, 2 contents, capacities up to 3 | list and map agree; refinement of `RecencyCache` |
| `MCIndex` | 1 chain, keys 0, 1, 3, 2 values, pages of 2 entries, chunks of 2 pages, 2 blocks | chains sorted, buffer and offset in step, answers right or none |
| `MCLog` | 2 chains, log pages of 2 records, chunks of 2 pages | no deletion record lost, log layout |
| `MCUnflushed` | as `MCIndex` | violated: an unflushed value is not returned |
| `MCLogAssertion` | as `MCLog` | violated: the log assertion fails when a chunk is full |
| `MCParallelWriter` | 2 channels, 2 LUNs of 6 chunks of 2 pages, 2 threads, runs of 3, 4, 8 pages, 24 pages in all | buffers outlive threads, own LUNs, no page refused before the channel is full, runs readable, calls return |
| `MCMain` | see below | LSM tree: deep levels unused, nothing of the buffer lost, no false "not found"; NoFTL tree: one run on the device, live keys kept; lazy-split hash: entries where linear hashing puts them; processes: messages in flight, every exchange ends; skip list: refines `SortedChain`; page store: usage, contents, refusals |
| `MCFlushedEntries` | the LSM tree alone, as in `MCMain` | violated: a merge loses the entries of the level it reads |
| `MCExtendibleHash` | 3 keys equal modulo 2 (two of them modulo 4), 2 values, pages of 2 entries, up to 2 pages before an insert | directory, contents, pages, end of splits |
| `MCSearchAssertion` | as `MCExtendibleHash` | violated: search of an empty bucket aborts |
| `MCLinearHash` | keys 1 to 8, pages of 3 entries, up to 8 buckets, one key with two values | entries in place, lookups, pages, through two rounds of splits and through merges |
| `MCLinearAssertion` | 4 keys, pages of 2 entries | violated: the size of a bucket is wrong after a deletion, and its split aborts |

Bounds. Keys are chosen to collide: in `MCIndex` key 0 is the key of a chain's
head, in `MCExtendibleHash` 1 and 5 need two splits to part. Pages of two entries
and chunks of two pages let buffers refill, block numbers wrap and chunks fill
within a few operations. `MaxNodes` bounds a chain, `MaxPages` what is written,
`MaxDepth` the directory, `MaxSize` the size counter of a bucket (it grows with
every load, in the code to the overflow of an int). A run of the parallel
writer of 3 pages leaves a thread beyond the batch, one of 8 takes two batches,
and 24 pages carry a pointer across the end of its channel.
`MCLinearHash` needs three entries to a page: with two, no merge has an entry to
move that is not on a page. With eight keys a second round begins. It does not
go on from a mishap, and gives only key 7, which moves in every round, a second value.

`MCMain`: keys 1 to 3 with 2 values, buffers of 2 entries, 3 levels and fences at 2
entries let both trees flush again and again, with runs partly and entirely full; a
third level is where a cascade would first skip one. The lazy-split hash has a table of 4,
the code's own size, for which `GetBits` is one too many, and keys with 1 to 3 bits. Three runs of
the program leave two children beside the third parent, and three rounds are the code's.
Skip-list keys 0 to 3 (0 is the head's), 3 levels and 4 nodes give every shape in
which a walk changes level, duplicates and the overrun of the last level included. The device has
one chunk of 2 pages and a half one, the way the code's last page pointer lies in the middle of
a chunk; one chunk is erased at the end, commands fail on one of the two, and 6 buckets fill the
device twice.

Deadlock is not checked where the system may stop: after a crash, an abort or an
exit, or when the bounds are reached. Fairness is assumed where processes or threads
run side by side: for `ParallelWriter`, weak fairness of the coordinator and of each
thread, since all are threads the operating system schedules and none of their
steps but `pthread_join` blocks; for `TiOCSProcesses`, weak fairness of a child's
answer and of each process's `msgrcv`, since the kernel schedules processes,
serves waiters in their order, and nothing kills a child. Nothing is assumed of
the parent's sends, of its end or of a restart: a parent need never start an exchange. In `Main` this
fairness is that of `TiOCSInit`; it makes `ExchangeEnds` hold, which fails without it.

## What is proved

Every theorem holds for all values of the constants that satisfy the assumptions named in the
modules: `PageAssumption` (the cache), `StoreAssumption` and `MemAssumption` (TNC tree),
`TreeAssumption` and `FenceAssumption` (LSM trees), `LazySplitAssumption`, `ProcessesAssumption`,
`FlashAssumption`, `GeometryAssumption` (parallel writer; a chunk is a whole number of pages),
`HashAssumption` (`MaxSize` leaves room for a full bucket) and `LinearAssumption`. The bounds of the models (`MaxNodes`,
`MaxPages`, `MaxBuckets`, ...) are constants too, so no theorem depends on them. Three hypotheses are
stated with their theorems: that page numbers fit the key type of the cache's map
(`LRURefinesRecency`; int has 32 bits, lru.h:34, and the device far fewer pages); that the buffer of the LSM tree without an FTL takes more than one entry
(the code's is 64 pages; with one entry a second run could begin with the key 1); and `StripesFit` for the
two theorems on the pages of the parallel writer. That one says that a channel's LUNs are a whole number of
stripes (`max_os_threads` is 2 in main.cpp:123, and parallel units come in even numbers: with an odd one a
stripe would reach into the next channel) and that the last channel starts within the first LUN: the
start of a channel is `GlobalInitialize`'s own multiple of a chunk per unit of the device, so this says a LUN has more chunks
than the channels before the last have units, times their number. Where that fails a channel starts
inside another's rows and `RoomOf` is no measure of its room. The geometry of `MCParallelWriter` satisfies both.

Each proof has an inductive invariant, named below, that `Init` establishes and each action keeps,
with a lemma per action or call; the theorem is what it implies.

### Page cache (`LRUCacheProofs`)

* `LRUTypesAreKept`, `LRUCacheCorrect` (`MapMatchesList`, `WithinCapacity`): `LRUInv`. Moving a node is
  an erasure and a push; `BasicLemmas` says which nodes remain.
* `LRURefinesRecency`: if page numbers are below `IntRange`, the list implements `RecencyCache` step by step. The abstract order is
  who comes before whom in the list (`NewerIn`), the abstract contents what it holds (`HeldIn`);
  that each page is in it once (`PagesDistinct`) makes an eviction from the end that of the oldest.

### TNC tree (`MemTierProofs`)

* `OffsetStaysInStep`, `BufferAgreesWithIndex`: `IndexInv` (`IndexTypeOK`, `OffsetTracksBuffer`,
  `BufferAgrees`). The first node of a key names a slot that holds the key's last value or another
  key's entry; a reused slot does no harm since the newest entry overwrites it and carries its key.
* `SearchNeverLies`: an answer is taken from the buffer, or there is none.
* `ChainsStaySorted`: inserting where a search stops keeps a chain in order.
* `LogIsContiguous`, `LogIsComplete`: `LogInv` (`LogTypeOK`, `LogLayout`, `DeletionsLogged` and
  `LogsNeverFull`: a log buffer is never full between operations). A log page adds
  `LogCapacity` records to the device and empties the buffer.
* `TypesAreKept`: the rest of `TypeOK`.

### Parallel writer (`ParallelWriterProofs`)

* `WriterTypesAreKept`, `BuffersAreKept`, `LUNsAreNotShared`: `WriterInv`. Besides the types it has the
  order in which addresses follow each other (`StripeInOrder`), which buffers are filled where the
  coordinator is (`BuffersFilled`), and that pointers are whole numbers of pages
  (`PointersWhole`). Two threads that run at once have addresses of one stripe, so different LUNs.
* `RunsAreRecovered` (`RunIsRecoverable`): `RunInv`. The `n`-th page of a channel has a place of its own, in closed
  form (`Place`), and the pointer is the place of the first page not yet used (`PointersPlaced`): a step of a whole
  stripe and `PointerStep`'s wrap agree since a channel is a whole number of stripes. The pages of the current run are at
  consecutive places from `call.start` on (`PagesPlaced`), counting those of the stripe that is being written
  (`Wrote`); that no stripe ends beyond the batch comes from the buffers, none of which holds a page that is not in
  the run (`BuffersInRun`), so that a thread on a slot too many cannot write. The reader's recursive walk
  has a solution (`WayExists`) and goes through the same places (`ReaderFollows`).
* `PagesAreAccepted` (`RefusedOnlyWhenFull`): `DeviceInv`. While every channel has room the device holds exactly the
  places used so far (`DeviceHolds`). Places of one channel or of two are different pages
  (`PlacesDiffer`: the rows of a channel end where those of the next begin), so a page to be written is not there
  yet, and unless it is the first of its chunk the page before it is that of the row before (`PageBefore`), which is there.

### Extendible hash (`ExtendibleHashProofs`)

* `HashTypesAreKept`, `DirectoryStaysConsistent`: `HashInv` (`HashTypes`, `Consistent`): two indexes lead to one
  bucket exactly if they agree in the low bits the bucket's depth counts. A doubling, a split
  and a merge each keep it by what `BasicLemmas` says of remainders by powers of two.
* `EntriesStayInPlace`, `PagesStayOwn`, `SplitsComeToAnEnd`, `LookupsAreRight`: `ContentsInv`. Up to the first mishap
  the last value of a key is in the memory of its bucket, on its page, or still to be put
  (`Held`, `TodoOK`). The hard part is a page kept from before a split (`OldOK`): it still has keys that now
  belong to the sibling. Those that lead to the bucket are either taken from it or waiting to be put
  back, the others are covered by the sibling (`Covers`), and no two buckets name one page
  (`OwnPages`). `SplitsNeeded` says that a directory got its depth from two keys that agree in all
  the bits before; `Answers` that what a search would return is the last value.

### Linear hash (`LinearHashProofs`)

* `LinearTypesAreKept`: `LinTypes`, which has the table and the pages as functions on an interval and says that a
  bucket counts at least what it has in memory and a page holds at most `BucketMax` entries.
* `LinearEntriesInPlace`, `LinearPagesNotShared`, `LinearLookupsAreRight`: `ContentsInv`, for the states before the
  first mishap. What is stored (`StoredIn`) is as in the extendible hash: entries in memory, filling a page, or loaded
  from one (`Held`); on a page from before a split no key that still leads there, unless it waits (`OldOK`); a page
  per bucket. While operations run (`Running`) it adds the shape of a table in mid-split: one half or both halves
  of the round are there (`Tabled`), the other half of a bucket that has not been split is new (`UppersNew`), and
  one that was emptied by its split is not merged, as its other half is full (`Emptied`). The last two
  need counting: until the entry that made a bucket split is put, its two halves and the entries
  that wait are a full page (`SplitFor`). `TodoOK` says where the waiting entries go, `AnswersIn` that
  each bucket answers with the last value. A new round (`h1` doubled, flags cleared) leads every
  key where it led before (`NextRoundLeads`), so nothing moves.

### LSM trees (`LSMTreeProofs`)

* Shared by both: `GetEntries` gives the buffer once and in order; a merge (`Drain`) gives the live
  entries it was fed, all of them, sorted (`DrainProperties`, from `ArrangedProperties`: a finite
  set arranged by a strict order); the two runs of a level take what there is room for
  (`RoomForAll`).
* `LSMTypesAreKept`, `DeepLevelsStayEmpty`, `FlushesLoseNothing`, `LookupsMissNothing`: `LSMInv`, which bounds buffer and
  first level and has the levels below empty. If the second level is empty, the walk of
  `FlushInto` ends there at the latest (`DepthIsSmall`), what is read for the merge is nothing
  (`MergeOfNothing`), and the levels below stay empty (`FlushMovesNothing`). With one level alone, a
  full one is flushed past the end, which the property leaves open.
* `KVTypesAreKept`, `RunsStayAlone`, `LiveKeysAreKept`: `KVInv`. The first level is empty or has one run
  on the device and less than a run in memory (`FirstRuns`), and a live key that is not in the buffer is in
  one of the two. The first flush writes the buffer (`FirstFlush`). A later one merges it with the
  run on the device; what follows the first run cannot fill the second, as it would have to begin
  with the key 1 (`LaterFlush`). Once the second run has entries, the level is "full": a
  read can then only return the run on the device, twice, and the next level's run is not
  accepted, so the process exits (`FullLevelIsTheEnd`). As no run but the first is written, and its keys are
  1, 2, 3 and so on, a tree the process survives never grows.

### The other parts of `Main` (`MainProofs`)

* `EntriesStayWhereDue`: `BucketOf` is linear hashing's rule for every table length (`BucketIsDue`), although
  `GetBits` is a bit too many for a power of two and the fallback masks by the key's own bits.
* `UsageIsExact`, `BucketsReadBack`, `RefusalsComeLate`, `UpdatesNeverSpillEarly`: `FlashInv` (`FlashState`, `UsageTracksDevice`,
  `PagesReadBack`, and three that make them inductive: chunks fill in the order of the pointer,
  `FilledInOrder`, without a fault it stops behind the erased chunks, `StopsBehindErased`, and what is counted
  is how far the pointer has got, also of the chunks commands have failed on, `CountedInOrder`: until it starts over, and
  for the erased chunks always). An update of a chunk nothing has failed on finds as many pages as it writes (`TempEntriesType`,
  `RewrittenType`), so it changes no other.
* `MessagesAreConserved`: `ProcInv`. A blocked process is in the line exactly once (`InLine`,
  `OnePlaceEach`), the children of runs to come do not exist (`NotForkedYet`), nobody waits while a message
  is queued. Each way a message moves changes one of the counts of `InFlight` by one.
* `LSTypesAreKept` (`LSTypeOK`): an insertion adds one to the sum over the buckets (`OneMoreEntry`).
* `ListTypesAreKept`, `SkiplistRefines` (`SkiplistIsSortedChain`): `SkipInv`. Every level leads from a node to a later
  one that has this level (`LinksAscend`), the order being by keys, of one key the newer node first (`Before`), and the
  bottom level leads through all nodes (`Through`). A walk on one level ends at the last node before the key
  (`LastOn`), which the level below goes on from (`Walk`, `WalkLeaves`): so the place on the bottom is the same
  whatever the levels of the nodes. Splicing a node in behind it keeps the levels in order
  (`LinkKeepsShape`) and puts its item where `SortedChain` does (`LinkAdds`).
* `MainKeepsAll`, `MainKeepsLiveKeys`, `MainTypesAreKept`: a step of `Main` is a step of one part and leaves the others alone (`RunsParts`),
  so all of this, and what is proved of the LSM trees, holds of `Main`'s own specification, the one
  `MCMain` checks.

### Only model-checked

`CallsReturn` (the coordinator does not wait forever) and `ExchangeEnds` (every exchange of messages ends):
liveness under fairness is beyond the prover.

The models' recursive functions (`PageReadFor` of `ParallelWriter`, `LastOn`, `Walk` and `Bottom` of
`TNCSkiplist`, `EntriesUpTo` of `LazySplitHash`) are functions on numbers or nodes, and the library's theorems on such definitions
take an operator, which the provers cannot instantiate. Where a theorem needs one, the proof unfolds it: a
solution is built on each initial part of the domain, with `NatSetInduction` (induction stated for
a set of numbers), and what the definition chooses is then a solution too. No module of the
project declares a `RECURSIVE` operator.

## Findings

Five runs show the code at odds with a comment or an assertion; see "findings"
in `PROJECT.json`: `UnflushedIsReturned` (MemTier.cpp:229), `LogAssertionHolds`
(writer.cpp:103), `FlushedEntriesStay` (run.cpp:76 against LsmTree.cpp:57),
`SearchFindsPage` (ExBucket.cpp:124) and `AssertionsHold` (LiHash.cpp:172). The
models also reach states nobody states anything about: in `LinearHash` an index
beyond the table, in both hash indexes contents that are lost after a mishap.

## What is not modelled, and the plan

Left out, with the reason:

* The page functions of `WriteDisk.cpp` that no built code calls: `BlockUpdate`, `PageUpdate` for single
  values and for lists of pages, `SingleValueWrite`, `MultiPageWrite`, `SinglePageWrite`.
* The thread pool, the worker pool and the spin lock: nothing creates one.
* The interleaving of the threads in the coordinator's read mode: their buffers are never
  allocated, so a read is one of its outcomes (`NoFTLKV`).
* The global counters of reads, writes and erasures are statistics. The load and the store of the
  threads' counter are steps of `ParallelWriter`; no property is about its value.
* The FIFO cache and the asynchronous store tier (compiled only under macros nothing defines), the
  Bloom filter (no run has one), the empty modules, output, the benchmark drivers beyond the operations they
  call, parsing of the device's geometry.

Some functions contain alternatives that are compiled out (`#ifdef SKIPlist`, `FastSkiplist`,
`FIFO`); their lines are within the ranges of the map, the models have what is built.

Every invariant, action property and refinement that a run checks has its theorem. What could still be
added is the read mode of the coordinator, thread by thread, once its buffers are allocated in the code, and
the behaviour of the two hash indexes beyond a mishap, which no line of the repository specifies.
