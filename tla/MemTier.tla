------------------------------ MODULE MemTier ------------------------------
(***************************************************************************)
(* The TNC tree: the memory tier (Ti-OCSSD/MemoryTier/MemTier.cpp), a hash *)
(* table of sorted chains of nodes, on top of the store tier.              *)
(*                                                                         *)
(* A chain is the bottom level of its skip list, without the head.  The    *)
(* upper levels only shorten the walk to the first node whose key is not   *)
(* below the one looked for, and RandomLevel decides nothing else.         *)
(***************************************************************************)
EXTENDS StoreTier

CONSTANTS
  NumLists,      \* 2^Globaldepth, the size of the table
  MaxNodes,      \* bound on the nodes of a chain
  NotFound       \* UINT64_MAX, what Search answers for a key it cannot find

ASSUME MemAssumption ==
  /\ NumLists \in Nat \ {0}
  /\ MaxNodes \in Nat
  /\ NotFound \notin Nat

VARIABLES
  global,        \* the chains
  dict           \* history: the value each key was last given, if any

memVars == <<global, dict>>
vars == <<storeVars, memVars>>

List == 0 .. (NumLists - 1)
Node == [key : Key, flag : {0, 1}, offset : Offset]

\* global[hashkey & (1 << Globaldepth) - 1]
ListOf(k) == k % NumLists

\* ExtendHashTableInitialize
Init ==
  /\ StoreInit
  /\ global = [l \in List |-> << >>]
  /\ dict = [k \in Key |-> NotFound]

\* Mutant of StopsAt: the walk leaves out the bottom level, so that it may stop
\* at any node before the right one.
StopsShort(chain, k, i) ==
  /\ i \in 1 .. (Len(chain) + 1)
  /\ \A j \in 1 .. (i - 1) : chain[j].key < k

\* The walk along a chain for k stops at position i: the first node whose key
\* is not below k, or one past the end (nullptr).
StopsAt(chain, k, i) ==
  /\ i \in 1 .. (Len(chain) + 1)
  /\ \A j \in 1 .. (i - 1) : chain[j].key < k
  /\ i <= Len(chain) => chain[i].key >= k

\* SearchNode(Head, k) returns the node at position i.
SearchNode(k, i) == StopsAt(global[ListOf(k)], k, i)

IsNode(k, i) == i <= Len(global[ListOf(k)])
NodeAt(k, i) == global[ListOf(k)][i]
Live(k, i) == IsNode(k, i) /\ NodeAt(k, i).flag = 1
Dead(k, i) == IsNode(k, i) /\ NodeAt(k, i).flag = 0

Positions(k) == 1 .. (Len(global[ListOf(k)]) + 1)

-----------------------------------------------------------------------------
\* InsertNode(k, v).  The walk ends at the last node below k, so the test for
\* an equal key (MemTier.cpp:128) never succeeds, except on the head, whose
\* key is 0: inserting key 0 does nothing.  Any other key gets a new node in
\* front of the nodes it may already have.
InsertNode(k, v) ==
  /\ status = "running"
  /\ dict' = [dict EXCEPT ![k] = v]
  /\ \/ k = 0 /\ UNCHANGED <<bufferVars, global>>
     \/ /\ k # 0
        /\ Len(global[ListOf(k)]) < MaxNodes
        /\ SyncWrite(k, v, DataPagePointer)
        /\ \E i \in Positions(k) :
             /\ SearchNode(k, i)
             /\ global' = [global EXCEPT ![ListOf(k)] =
                  InsertAt(@, i, [key |-> k, flag |-> 1, offset |-> offset'])]
  /\ UNCHANGED <<logVars, lruVars, status>>

\* Mutant of Answer: the key of the entry is not compared.
AnswerUnchecked(k, i) ==
  IF ~Live(k, i) THEN NotFound ELSE SyncReadEntry(NodeAt(k, i).offset).val

\* Search(k): the answer, and the step.
Answer(k, i) ==
  IF ~Live(k, i) THEN NotFound
  ELSE LET entry == SyncReadEntry(NodeAt(k, i).offset) IN
       IF entry.key = k THEN entry.val ELSE NotFound

Search(k) ==
  /\ status = "running"
  /\ \E i \in Positions(k) :
       /\ SearchNode(k, i)
       /\ \/ ~Live(k, i) /\ UNCHANGED <<lruVars, status>>
          \/ Live(k, i) /\ SyncRead(NodeAt(k, i).offset)
  /\ UNCHANGED <<bufferVars, logVars, memVars>>

\* Mutant of Rewrite: the node is not pointed to its new entry.
RewriteKeepsOffset(k, v, i) ==
  /\ SyncWrite(k, v, DataPagePointer')
  /\ UNCHANGED global
  /\ dict' = [dict EXCEPT ![k] = v]

\* The new entry of Update, for the node found at position i.
Rewrite(k, v, i) ==
  /\ SyncWrite(k, v, DataPagePointer')
  /\ global' = [global EXCEPT ![ListOf(k)][i].offset = offset']
  /\ dict' = [dict EXCEPT ![k] = v]

\* Update(k, v): logs the old entry as deleted, then writes the new one and
\* points the node it found to it, whatever that node's key and flag are.
UpdateNode(k, v, i) ==
  \/ Dead(k, i) /\ UNCHANGED <<logVars, status>> /\ Rewrite(k, v, i)
  \/ /\ Live(k, i)
     /\ SyncDelete(NodeAt(k, i).offset)
     /\ \/ status' = "running" /\ Rewrite(k, v, i)
        \/ status' # "running" /\ UNCHANGED <<bufferVars, memVars>>

Update(k, v) ==
  /\ status = "running"
  /\ \E i \in Positions(k) :
       /\ SearchNode(k, i)
       /\ \/ ~IsNode(k, i) /\ UNCHANGED <<bufferVars, logVars, memVars, status>>
          \/ UpdateNode(k, v, i)
  /\ UNCHANGED lruVars

\* DeleteValue on the node found at position i, whatever its key is.
Forget(k) == dict' = [dict EXCEPT ![k] = NotFound]

DeleteNode(k, i) ==
  \/ Dead(k, i) /\ Forget(k) /\ UNCHANGED <<logVars, global, status>>
  \/ /\ Live(k, i)
     /\ SyncDelete(NodeAt(k, i).offset)
     /\ \/ /\ status' = "running"
           /\ global' = [global EXCEPT ![ListOf(k)][i].flag = 0]
           /\ Forget(k)
        \/ status' # "running" /\ UNCHANGED memVars

\* Delete(k): there is no test for nullptr before the node is read.
Delete(k) ==
  /\ status = "running"
  /\ \E i \in Positions(k) :
       /\ SearchNode(k, i)
       /\ \/ ~IsNode(k, i) /\ status' = "crashed" /\ UNCHANGED <<logVars, memVars>>
          \/ DeleteNode(k, i)
  /\ UNCHANGED <<bufferVars, lruVars>>

\* The workloads of bench_testing insert and search; here all operations, in any order.
Next ==
  \/ \E k \in Key, v \in Value : InsertNode(k, v) \/ Update(k, v)
  \/ \E k \in Key : Search(k) \/ Delete(k)

Spec == Init /\ [][Next]_vars

-----------------------------------------------------------------------------
\* The state is well formed.
TypeOK ==
  /\ indexs \in 0 .. PageCapacity
  /\ offset \in Offset
  /\ Pagedata \in [Slot -> Entry]
  /\ WBufferId \in Nat /\ DataPagePointer \in Nat
  /\ BufferLog \in [Block -> Seq(Offset)]
  /\ chunkusage \in [Block -> 0 .. SectorsPerChunk]
  /\ ChunkLog \in [Block -> Seq(0 .. SectorsPerChunk)]
  /\ deletions \in [Block -> Nat]
  /\ status \in {"running", "exited", "aborted", "crashed"}
  /\ global \in [List -> Seq(Node)]
  /\ dict \in [Key -> Value \cup {NotFound}]

\* Search may fail to find a key, but it never answers with a value other than
\* the one the key was last given, and never for a deleted key: not through a
\* node of another key, not through a slot of the write buffer that has been
\* reused, not through an older node of the same key.  Key 0, the head's, is
\* not covered.
NeverLies ==
  \A k \in Key \ {0} : \A i \in Positions(k) :
    SearchNode(k, i) => Answer(k, i) \in {dict[k], NotFound}

\* Why it never lies: the entry in the slot that the first node for k names is,
\* if it is an entry of k at all, k's last one.
BufferAgrees ==
  \A k \in Key \ {0} : \A i \in Positions(k) :
    /\ SearchNode(k, i)
    /\ Live(k, i)
    /\ Pagedata[NodeAt(k, i).offset.slot].key = k
    => Pagedata[NodeAt(k, i).offset.slot].val = dict[k]

\* The chains stay sorted, with nodes of one key next to each other, whatever
\* inserts, updates and deletions were mixed; SearchNode relies on it.
ChainsSorted ==
  \A l \in List : \A i, j \in DOMAIN global[l] :
    i < j => global[l][i].key <= global[l][j].key

\* The slot field of the last offset and the fill of the write buffer move
\* together, although one is reset by masks and the other by assignment, and
\* a live node's slot holds an entry of the buffer.
OffsetTracksBuffer ==
  /\ offset.slot = indexs
  /\ \A l \in List : \A i \in DOMAIN global[l] : global[l][i].offset.slot \in Slot

\* Log pages lie one after the other from the start of each chunk, as the
\* device requires, and the usage of a chunk and (while it is in chunk 0) the
\* data pointer, kept by different statements, are where they end.
LogLayout ==
  /\ \A b \in Block :
       /\ chunkusage[b] = ws_min * Len(ChunkLog[b])
       /\ \A i \in DOMAIN ChunkLog[b] : ChunkLog[b][i] = ws_min * (i - 1)
  /\ DataPagePointer < SectorsPerChunk => DataPagePointer = chunkusage[0]

\* No deletion record is lost or written twice while the process runs: those
\* on the device and those in the buffer add up to the calls of SyncDelete.
DeletionsLogged ==
  status = "running" =>
    \A b \in Block :
      deletions[b] = Len(BufferLog[b]) + LogCapacity * Len(ChunkLog[b])

\* MemTier.cpp:228-229: "return value if data is not flushed into physical
\* page".  An entry that is still in the write buffer, in the slot a live node
\* of its key names, and that is the key's last value, is returned.
UnflushedIsReturned ==
  \A k \in Key : \A i \in Positions(k) :
    /\ SearchNode(k, i)
    /\ IsNode(k, i)
    /\ NodeAt(k, i).key = k
    /\ NodeAt(k, i).flag = 1
    /\ Pagedata[NodeAt(k, i).offset.slot] = [key |-> k, val |-> dict[k]]
    => Answer(k, i) = dict[k]

\* writer.cpp:103: the assertion on the page a log page is written to.
LogAssertionHolds == status # "aborted"
=============================================================================
