----------------------------- MODULE FlashStore -----------------------------
(***************************************************************************)
(* The page store the two hashes share: SingleBucketWrite and PageUpdate   *)
(* (Backend/SSDWrite/writer.cpp) on the pointers and the chunk erasure of  *)
(* Backend/IODisk/WriteDisk.cpp, one call a step.  A page, ws_min sectors, *)
(* is the unit here.  A bucket is written at the page pointer first and in *)
(* place from then on, by reading its chunk, erasing it and writing all of *)
(* it again.  What a bucket has is told apart by the Data of its last      *)
(* write only.                                                             *)
(*                                                                         *)
(* The device (external) takes a page only behind those that are in its    *)
(* chunk, and erases a chunk only when it is full, which is what           *)
(* CompenstaeFun is for.  A command may also fail, on MaxFaults chunks at  *)
(* most: a failed read ends the process, any other goes unnoticed.  After  *)
(* one a chunk may come to be counted as having more pages than it can     *)
(* hold: those beyond its end are pages of the chunks that follow it.      *)
(* MaxBuckets bounds the buckets.                                          *)
(***************************************************************************)
EXTENDS Integers, Sequences, FiniteSets

CONSTANTS
  Data,
  PagesPerChunk,      \* 4096 sectors, 4 a page
  LastPage,           \* 923648 sectors: 225 chunks and a half
  ErasedChunks,       \* 150
  MaxBuckets, MaxFaults
ASSUME FlashAssumption ==
  /\ PagesPerChunk \in Nat \ {0} /\ LastPage \in Nat \ {0} /\ ErasedChunks \in Nat \ {0}
  /\ ErasedChunks * PagesPerChunk < LastPage
  /\ MaxBuckets \in Nat /\ MaxFaults \in Nat

VARIABLES
  sectorpointer,      \* in pages
  chunkusage,         \* the pages written to each chunk, as counted
  chunk,              \* those the device has: what bucket, and which data of it
  bucketpages,        \* of each bucket its PageNum and its data
  wrapped,            \* history: the pointer has started over
  refused,            \* history: a page at the pointer was refused, without a fault
  faulted,            \* the chunks a command on which has failed, or to which pages
                      \* of the chunk before have been written
  flashstatus         \* "running", or "exited": a read has failed

flashvars == <<sectorpointer, chunkusage, chunk, bucketpages, wrapped, refused,
               faulted, flashstatus>>

Chunk == 0 .. ((LastPage - 1) \div PagesPerChunk)
ChunkOf(page) == page \div PagesPerChunk
OffsetOf(page) == page % PagesPerChunk

FlashInit ==
  /\ sectorpointer = 0
  /\ chunkusage = [c \in Chunk |-> 0]
  /\ chunk = [c \in Chunk |-> << >>]
  /\ bucketpages = << >>
  /\ wrapped = FALSE /\ refused = FALSE
  /\ faulted = {}
  /\ flashstatus = "running"

-----------------------------------------------------------------------------
\* Compensation fills a chunk from its usage on; the first page is refused unless
\* the device has as many.
Blank == <<0, 0>>                  \* a page of no bucket
Padding(n) == [i \in 1 .. n |-> Blank]
FillRefused(c) == chunkusage[c] # Len(chunk[c])
CompenstaeFun(c) ==
  IF FillRefused(c) THEN chunk[c] ELSE chunk[c] \o Padding(PagesPerChunk - chunkusage[c])

\* Mutant of erasechunk: a chunk that is not full is not filled up before.
EraseUnfilled(c) == IF Len(chunk[c]) = PagesPerChunk THEN << >> ELSE chunk[c]

\* What the chunk has after the erasure, which there is none of when the chunk had to be
\* filled up and this was refused.
erasechunk(c) ==
  LET short == chunkusage[c] < PagesPerChunk
      filled == IF short THEN CompenstaeFun(c) ELSE chunk[c]
  IN  IF Len(filled) = PagesPerChunk /\ ~(short /\ FillRefused(c)) THEN << >> ELSE filled

\* What it may have when one of the commands fails: some of the filling.
EraseFails(c) ==
  {chunk[c] \o Padding(n) :
     n \in 0 .. (IF FillRefused(c) THEN 0 ELSE PagesPerChunk - Len(chunk[c]))}

\* Mutant of Rewrite: the last page is left out.
RewriteShort(held, pages) == held \o SubSeq(pages, Len(held) + 1, Len(pages) - 1)

\* Pages are written from the first of a chunk on, which holds some already: the
\* device takes those that come behind these.
Rewrite(held, pages) == held \o SubSeq(pages, Len(held) + 1, Len(pages))

MayFail(c) == Cardinality(faulted \cup {c}) <= MaxFaults

-----------------------------------------------------------------------------
\* Mutant of Renewed: at the end of the device the chunks that are erased keep
\* their usage.
RenewedUsageKept(device, erased) ==
  /\ sectorpointer' = IF sectorpointer + 1 < LastPage THEN sectorpointer + 1 ELSE 0
  /\ wrapped' = (wrapped \/ sectorpointer + 1 >= LastPage)
  /\ chunkusage' = [chunkusage EXCEPT ![ChunkOf(sectorpointer)] = @ + 1]
  /\ chunk' = [c \in Chunk |-> IF c \in DOMAIN erased THEN erased[c] ELSE device[c]]

\* The pointers after a page has been written, which left this on the device: at its
\* end, some chunks are counted as empty, and erased has what they do have then.
Renewed(device, erased) ==
  /\ sectorpointer' = IF sectorpointer + 1 < LastPage THEN sectorpointer + 1 ELSE 0
  /\ wrapped' = (wrapped \/ sectorpointer + 1 >= LastPage)
  /\ chunkusage' = [c \in Chunk |->
       IF c \in DOMAIN erased THEN 0
       ELSE IF c = ChunkOf(sectorpointer) THEN chunkusage[c] + 1 ELSE chunkusage[c]]
  /\ chunk' = [c \in Chunk |-> IF c \in DOMAIN erased THEN erased[c] ELSE device[c]]

\* One of the erasures may fail.
PointerRenew(device) ==
  LET none == [c \in {} |-> << >>]
      all == [c \in 0 .. (ErasedChunks - 1) |-> erasechunk(c)]
  IN  IF sectorpointer + 1 < LastPage THEN Renewed(device, none) /\ UNCHANGED faulted
      ELSE \/ Renewed(device, all) /\ UNCHANGED faulted
           \/ \E bad \in DOMAIN all :
                /\ MayFail(bad)
                /\ faulted' = faulted \cup {bad}
                /\ \E left \in EraseFails(bad) : Renewed(device, [all EXCEPT ![bad] = left])

\* SingleBucketWrite of a bucket that has no page: it gets the one at the pointer
\* also when the device has not taken it.
GetsPage(d) ==
  /\ flashstatus = "running"
  /\ Len(bucketpages) < MaxBuckets
  /\ bucketpages' = Append(bucketpages, [PageNum |-> sectorpointer, data |-> d])
  /\ UNCHANGED flashstatus

Accepts(page) == OffsetOf(page) = Len(chunk[ChunkOf(page)])

PageAppend(d) ==
  LET c == ChunkOf(sectorpointer)
      written == <<Len(bucketpages) + 1, d>>
  IN  /\ GetsPage(d)
      /\ \/ /\ Accepts(sectorpointer)
            /\ PointerRenew([chunk EXCEPT ![c] = Append(@, written)])
            /\ UNCHANGED refused
         \/ /\ ~Accepts(sectorpointer)
            /\ refused' = (refused \/ c \notin faulted)
            /\ UNCHANGED <<sectorpointer, chunkusage, chunk, wrapped, faulted>>

PageAppendFails(d) ==
  /\ GetsPage(d)
  /\ MayFail(ChunkOf(sectorpointer))
  /\ faulted' = faulted \cup {ChunkOf(sectorpointer)}
  /\ UNCHANGED <<sectorpointer, chunkusage, chunk, wrapped, refused>>

-----------------------------------------------------------------------------
\* What PageUpdate has when it writes the chunk of bucket b again: the pages it has read,
\* from the first of the chunk on as many as count as used, and the new one.
TempEntries(b, d) ==
  LET c == ChunkOf(bucketpages[b].PageNum)
      PageAt(p) ==
        IF ChunkOf(p) \in Chunk /\ OffsetOf(p) < Len(chunk[ChunkOf(p)])
        THEN chunk[ChunkOf(p)][OffsetOf(p) + 1] ELSE Blank
  IN  [i \in 1 .. chunkusage[c] |->
        IF i = OffsetOf(bucketpages[b].PageNum) + 1 THEN <<b, d>>
        ELSE PageAt(PagesPerChunk * c + i - 1)]

\* Those of the pages that lie in the k-th chunk behind the one they begin with.
Part(pages, k) ==
  LET end == PagesPerChunk * (k + 1)
  IN  SubSeq(pages, PagesPerChunk * k + 1, IF end < Len(pages) THEN end ELSE Len(pages))

\* What the chunks have when pages are written from the first one of c on, which holds
\* what the erasure has left.
Rewritten(c, left, pages) ==
  [e \in Chunk |->
    IF e < c THEN chunk[e]
    ELSE Rewrite(IF e = c THEN left ELSE chunk[e], Part(pages, e - c))]

\* Bucket b is written again, after which the chunks have this; a command on the
\* failed ones has failed.
WritesChunk(b, d, device, failed) ==
  /\ flashstatus = "running"
  /\ chunk' = device
  /\ faulted' = faulted \cup failed \cup
       {e \in Chunk \ {ChunkOf(bucketpages[b].PageNum)} : device[e] # chunk[e]}
  /\ bucketpages' = [bucketpages EXCEPT ![b].data = d]
  /\ UNCHANGED <<sectorpointer, chunkusage, wrapped, refused, flashstatus>>

PageUpdate(b, d) ==
  LET c == ChunkOf(bucketpages[b].PageNum)
  IN  WritesChunk(b, d, Rewritten(c, erasechunk(c), TempEntries(b, d)), {})

\* The erasure fails, or one of the writes to chunk e, which is then refused those
\* behind.
PageUpdateFails(b, d) ==
  LET c == ChunkOf(bucketpages[b].PageNum)
      device == Rewritten(c, erasechunk(c), TempEntries(b, d))
  IN  \/ /\ MayFail(c)
         /\ \E left \in EraseFails(c) :
              WritesChunk(b, d, Rewritten(c, left, TempEntries(b, d)), {c})
      \/ \E e \in Chunk :
           /\ MayFail(e)
           /\ \E n \in Len(IF e = c THEN erasechunk(c) ELSE chunk[e]) .. (Len(device[e]) - 1) :
                WritesChunk(b, d, [device EXCEPT ![e] = SubSeq(@, 1, n)], {e})

\* A page that cannot be read, for an update or a lookup, ends the process.
ReadFails ==
  /\ flashstatus = "running"
  /\ flashstatus' = "exited"
  /\ \E b \in DOMAIN bucketpages :
       /\ MayFail(ChunkOf(bucketpages[b].PageNum))
       /\ faulted' = faulted \cup {ChunkOf(bucketpages[b].PageNum)}
  /\ UNCHANGED <<sectorpointer, chunkusage, chunk, bucketpages, wrapped, refused>>

FlashNext ==
  \/ \E d \in Data : PageAppend(d) \/ PageAppendFails(d)
  \/ \E b \in DOMAIN bucketpages, d \in Data : PageUpdate(b, d) \/ PageUpdateFails(b, d)
  \/ ReadFails

FlashSpec == FlashInit /\ [][FlashNext]_flashvars

-----------------------------------------------------------------------------
\* The state is well formed.
FlashTypeOK ==
  /\ sectorpointer \in 0 .. (LastPage - 1)
  /\ \A c \in Chunk : chunkusage[c] \in Nat /\ Len(chunk[c]) <= PagesPerChunk
  /\ faulted \subseteq Chunk
  /\ \A b \in DOMAIN bucketpages : bucketpages[b].PageNum \in 0 .. (LastPage - 1)
  /\ flashstatus \in {"running", "exited"}

\* Unless a command on it (or one before) has failed, a chunk has as many pages as are counted,
\* through updates and also after the pointer has started over: erasechunk knows
\* where to fill a chunk up, and PageUpdate what to write again.
UsageTracksDevice ==
  \A c \in Chunk \ faulted : chunkusage[c] = Len(chunk[c])

\* A bucket is read back as it was last written, and from a page of its own, as long
\* as the pointer has not started over or, beyond the chunks that are erased then,
\* as long as no page has been refused; chunks with a failed command, and those it
\* has made others write to, apart.
PagesReadBack ==
  \A b \in DOMAIN bucketpages :
    LET page == bucketpages[b].PageNum
        c == ChunkOf(page)
    IN  c \notin faulted /\ (~wrapped \/ (c >= ErasedChunks /\ ~refused)) =>
          /\ OffsetOf(page) < Len(chunk[c])
          /\ chunk[c][OffsetOf(page) + 1] = <<b, bucketpages[b].data>>

\* Without a failed command the device refuses a page only when the pointer has
\* started over and has passed the chunks that were erased: all of these are used
\* again before, each from its start.
RefusedOnlyPastErased ==
  refused /\ faulted = {} => wrapped /\ sectorpointer >= ErasedChunks * PagesPerChunk

\* A chunk may come to be counted as having more pages than it can hold, and its updates
\* then write into the chunks behind it (writer.cpp:204-208, 338-342).  This takes a
\* command that has failed on it, and a chunk that is not among those erased when the
\* pointer starts over, which it has done: until then, failures or not, what is counted
\* is how far the pointer has got.
UpdatesStayInChunk ==
  \A c \in Chunk :
    chunkusage[c] > PagesPerChunk => wrapped /\ c >= ErasedChunks /\ c \in faulted
=============================================================================
