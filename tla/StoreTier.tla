----------------------------- MODULE StoreTier -----------------------------
(***************************************************************************)
(* The store tier of the TNC tree (Ti-OCSSD/StoreTier/syncstore.cpp) with  *)
(* the part of the backend it calls: PageLogWrite and InfoRenew            *)
(* (Backend/SSDWrite/writer.cpp) and TNCEntryRead (Backend/SSDRead).       *)
(*                                                                         *)
(* SyncWrite collects entries in one page-sized write buffer and names     *)
(* each by a 32-bit offset; SyncDelete collects the offsets of dead        *)
(* entries in one log buffer per block and writes a full one to the next   *)
(* free page of that block; SyncRead answers from the write buffer, the    *)
(* page cache or the device.  The code is sequential: an operation is one  *)
(* atomic step, composed from these operators by the memory tier.          *)
(*                                                                         *)
(* An offset is the record of its three bit fields: block (bits 24-31),    *)
(* page (12-23) and slot (0-11).  SyncWrite only changes it field by       *)
(* field; the block field wraps at its width.                              *)
(***************************************************************************)
EXTENDS LRUCache

CONSTANTS
  Key,              \* SKey
  Value,            \* SValue
  PageCapacity,     \* entries per page: CalculatePageCapacity(sizeof(TNCEntry))
  LogCapacity,      \* deleted offsets per log page: 4 bytes of it each
  SectorsPerChunk,  \* 4096, which is also geo->l.nsectr
  ws_min,           \* sectors a page takes
  NumBlocks         \* 2^8, the range of an offset's block field

ASSUME StoreAssumption ==
  /\ Key \subseteq Nat
  /\ Value \subseteq Nat
  /\ PageCapacity \in Nat \ {0}
  /\ LogCapacity \in Nat \ {0}
  /\ ws_min \in Nat \ {0}
  /\ SectorsPerChunk \in Nat \ {0}
  /\ NumBlocks \in Nat \ {0}
  /\ Data = {"blank", "log"}

VARIABLES
  indexs,           \* entries in the write buffer
  offset,           \* the offset SyncWrite returned last
  Pagedata,         \* the write buffer
  WBufferId,        \* the page the write buffer stands for
  DataPagePointer,  \* the page the next data page would go to
  BufferLog,        \* deleted offsets of each block not yet on the device
  chunkusage,       \* written sectors of each block
  ChunkLog,         \* first sectors of the log pages of each block
  status,           \* "running", or how the process ended
  deletions         \* history: how often SyncDelete ran for each block

bufferVars == <<indexs, offset, Pagedata, WBufferId>>
logVars == <<DataPagePointer, BufferLog, chunkusage, ChunkLog, deletions>>
storeVars == <<bufferVars, logVars, lruVars, status>>

Block == 0 .. (NumBlocks - 1)
Slot == 1 .. PageCapacity
Offset == [block : Block, page : 0 .. (SectorsPerChunk - 1), slot : 0 .. PageCapacity]
Entry == [key : Nat, val : Nat]

StoreInit ==
  /\ indexs = 0
  /\ offset = [block |-> 0, page |-> 0, slot |-> 0]
  /\ Pagedata = [s \in Slot |-> [key |-> 0, val |-> 0]]
  /\ WBufferId = 0
  /\ DataPagePointer = 0
  /\ BufferLog = [b \in Block |-> << >>]
  /\ chunkusage = [b \in Block |-> 0]
  /\ ChunkLog = [b \in Block |-> << >>]
  /\ deletions = [b \in Block |-> 0]
  /\ status = "running"
  /\ LRUInit(MaxCapacity)

-----------------------------------------------------------------------------
\* The offset after the write buffer was found full while the data pointer is
\* dpp.  The buffer is not written: the call of SinglePageWrite is commented
\* out, and the block moves on only when dpp is at the start of a chunk.
Rewound(dpp) ==
  [block |-> (offset.block + (IF dpp % SectorsPerChunk = 0 THEN 1 ELSE 0)) % NumBlocks,
   page  |-> dpp % SectorsPerChunk,
   slot  |-> 0]

\* Mutant of Append2Buffer: the offset is not moved on (syncstore.cpp:41).
AppendKeepsOffset(k, v, base, pos) ==
  /\ Pagedata' = [Pagedata EXCEPT ![pos] = [key |-> k, val |-> v]]
  /\ indexs' = pos
  /\ offset' = base

\* SyncWrite(k, v); it returns offset'.
Append2Buffer(k, v, base, pos) ==
  /\ Pagedata' = [Pagedata EXCEPT ![pos] = [key |-> k, val |-> v]]
  /\ indexs' = pos
  /\ offset' = [base EXCEPT !.slot = base.slot + 1]

\* Mutant of SyncWrite: the buffer is found full one entry late.
SyncWriteLate(k, v, dpp) ==
  \/ /\ indexs <= PageCapacity
     /\ Append2Buffer(k, v, offset, indexs + 1)
     /\ UNCHANGED WBufferId
  \/ /\ indexs > PageCapacity
     /\ Append2Buffer(k, v, Rewound(dpp), 1)
     /\ WBufferId' = dpp

SyncWrite(k, v, dpp) ==
  \/ /\ indexs < PageCapacity
     /\ Append2Buffer(k, v, offset, indexs + 1)
     /\ UNCHANGED WBufferId
  \/ /\ indexs >= PageCapacity
     /\ Append2Buffer(k, v, Rewound(dpp), 1)
     /\ WBufferId' = dpp

\* Mutant of InfoRenew: the usage counts pages instead of sectors.
InfoRenewByPage(b) ==
  /\ DataPagePointer' =
       IF b = DataPagePointer \div SectorsPerChunk THEN DataPagePointer + ws_min
                                                   ELSE DataPagePointer
  /\ chunkusage' = [chunkusage EXCEPT ![b] = @ + 1]

\* InfoRenew(scale, LogPointer, true) after a log page of block b went out.
InfoRenew(b) ==
  /\ DataPagePointer' =
       IF b = DataPagePointer \div SectorsPerChunk THEN DataPagePointer + ws_min
                                                   ELSE DataPagePointer
  /\ chunkusage' = [chunkusage EXCEPT ![b] = @ + ws_min]

\* PageLogWrite(b): the assertion, the write and its failure, which exits.
LogFits(b) == chunkusage[b] <= SectorsPerChunk - ws_min

PageLogWrite(b) ==
  \/ /\ LogFits(b)
     /\ ChunkLog' = [ChunkLog EXCEPT ![b] = Append(@, chunkusage[b])]
     /\ InfoRenew(b)
     /\ BufferLog' = [BufferLog EXCEPT ![b] = << >>]
     /\ UNCHANGED status
  \/ /\ status' = IF LogFits(b) THEN "exited" ELSE "aborted"
     /\ UNCHANGED <<ChunkLog, DataPagePointer, chunkusage, BufferLog>>

\* Mutant of SyncDelete: a log buffer is found full one record late.
SyncDeleteLate(o) ==
  LET b == o.block
      log == Append(BufferLog[b], o) IN
  /\ deletions' = [deletions EXCEPT ![b] = @ + 1]
  /\ \/ /\ Len(log) <= LogCapacity
        /\ BufferLog' = [BufferLog EXCEPT ![b] = log]
        /\ UNCHANGED <<ChunkLog, DataPagePointer, chunkusage, status>>
     \/ /\ Len(log) > LogCapacity
        /\ PageLogWrite(b)

\* SyncDelete(o)
SyncDelete(o) ==
  LET b == o.block
      log == Append(BufferLog[b], o) IN
  /\ deletions' = [deletions EXCEPT ![b] = @ + 1]
  /\ \/ /\ Len(log) < LogCapacity
        /\ BufferLog' = [BufferLog EXCEPT ![b] = log]
        /\ UNCHANGED <<ChunkLog, DataPagePointer, chunkusage, status>>
     \/ /\ Len(log) >= LogCapacity
        /\ PageLogWrite(b)

-----------------------------------------------------------------------------
\* The sector an offset is looked for at, as SyncRead computes it.
PageIdOf(o) == o.block * SectorsPerChunk + o.page

\* A log page is the only kind of page this tier writes.
Written(page) ==
  LET b == page \div SectorsPerChunk IN
  \E i \in DOMAIN ChunkLog[b] : ChunkLog[b][i] = page % SectorsPerChunk

DeviceData(page) == IF Written(page) THEN "log" ELSE "blank"

\* The entry an unpacked page holds at any position.  A blank page reads as
\* zeros.  The bytes of a log page, read as entries, have a key of at least
\* 2^32, as every slot is at least 1: no key in use.  Only the key is copied
\* (syncstore.cpp:101, 108), so the value is 0.
NoKey == -1
EntryOnPage(data) == [key |-> IF data = "blank" THEN 0 ELSE NoKey, val |-> 0]

\* SyncRead: what it returns, and what it does to the page cache.  A failing
\* read of the device ends the process (reader.cpp:24-29).
SyncReadEntry(o) ==
  LET page == PageIdOf(o) IN
  IF page = WBufferId THEN Pagedata[o.slot]
  ELSE IF IsLRUPage(page) THEN EntryOnPage(HashMap[Narrow(page)].data)
  ELSE EntryOnPage(DeviceData(page))

SyncRead(o) ==
  LET page == PageIdOf(o) IN
  \/ page = WBufferId /\ UNCHANGED <<lruVars, status>>
  \/ page # WBufferId /\ Get(page) /\ UNCHANGED status
  \/ /\ page # WBufferId
     /\ ~IsLRUPage(page)
     /\ \/ PutNew(page, DeviceData(page)) /\ UNCHANGED status
        \/ status' = "exited" /\ UNCHANGED lruVars
=============================================================================
