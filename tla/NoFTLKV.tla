------------------------------ MODULE NoFTLKV ------------------------------
(***************************************************************************)
(* The LSM tree without an FTL (LSMTree-NoFTL/StorageManager.cpp with its  *)
(* memory_buffer, NoFTLKVLevel, NoFTLRun and merge_context), one operation *)
(* a step.  A run that is full is written by the parallel coordinator      *)
(* (module ParallelWriter) and read back by it for a merge.                *)
(*                                                                         *)
(* The coordinator stops the process unless a run it writes has the keys   *)
(* 1, 2, 3, ... and no deletion.  In read mode its threads read into       *)
(* buffers nobody allocated and stop the process unless they find 1, 2, 3, *)
(* ... there: a read ends the process or returns what a run on the device  *)
(* holds - the run's own, if it has ever been written, or any, as the      *)
(* start page of one that has not is not set.                              *)
(***************************************************************************)
EXTENDS LSMParts

VARIABLES
  kvbuffer,
  KVLevels,           \* of each level its two runs
  kvstatus,           \* "running" or "exited"
  kvgiven             \* history: the value each key was last given

kvvars == <<kvbuffer, KVLevels, kvstatus, kvgiven>>

\* A run: its size, the entries in memory, and those last written to the device
\* for it, which run_param leads to, or << >> if it has never been full.
NewRun == [size |-> 0, Rundata |-> << >>, page |-> << >>]
Reset(run) == [size |-> 0, Rundata |-> << >>, page |-> run.page]
NewLevel == << NewRun, NewRun >>
ResetLevel(level) == << Reset(level[1]), Reset(level[2]) >>

NewMemoryBuffer == EmptyBuffer

KVInit ==
  /\ kvbuffer = NewMemoryBuffer
  /\ KVLevels = [i \in Level |-> NewLevel]
  /\ kvstatus = "running"
  /\ kvgiven = EmptyBuffer

\* memory_buffer and merge_context are Buffer and MergeContext under other names.
KVGetEntries(buffer) == GetEntries(buffer)
KVBufferGet(buffer, k) == BufferGet(buffer, k)
KVMerged(entries) == Drain(entries)

-----------------------------------------------------------------------------
\* Mutant of Accepted: the keys of a run are not looked at.
AcceptedAnyKeys(entries) == \A i \in DOMAIN entries : entries[i].val # Deleted

\* What the coordinator writes without stopping the process.
Accepted(entries) ==
  \A i \in DOMAIN entries : entries[i].key = i /\ entries[i].val # Deleted

\* A run after entries have been put in it: RunDataWrite moves them to the device
\* as the last one fills it.
Grown(run, max, entries) ==
  LET data == run.Rundata \o entries IN
  IF run.size < max /\ run.size + Len(entries) = max
  THEN [size |-> max, Rundata |-> << >>, page |-> data]
  ELSE [size |-> run.size + Len(entries), Rundata |-> data, page |-> run.page]

KVLevelPut(level, max, entries) ==
  << Grown(level[1], max, ToFirst(level[1].size, max, entries)),
     Grown(level[2], max, ToSecond(level[1].size, level[2].size, max, entries)) >>

KVLevelFull(level) == IsFull(level[1].size, level[2].size)
KVLevelEmpty(level, max) == IsEmpty(level[1].size, level[2].size, max)

\* What reading each run may return: nothing of an empty run, which is not read.
OnDevice == {KVLevels[i][r].page : i \in Level, r \in {1, 2}}
ReadOf(i, r) ==
  LET run == KVLevels[i][r] IN
  IF run.size = 0 THEN {<< >>}
  ELSE IF run.page # << >> THEN {run.page}
  ELSE {entries \in OnDevice : Len(entries) = RunSize(i)}

-----------------------------------------------------------------------------
\* The levels to be flushed, as FlushInto recurses: those before this one.
KVDepth ==
  CHOOSE d \in 0 .. NumLevels :
    /\ \A i \in 0 .. (d - 1) : KVLevelFull(KVLevels[i])
    /\ d = NumLevels \/ ~KVLevelFull(KVLevels[d])

\* read[i] is what the runs of level i gave.  FlushInto merges each level before
\* KVDepth into the next, of which only the level at KVDepth still has entries.
KVFlushInto(read) ==
  [i \in Level |->
    IF KVDepth = 0 \/ i > KVDepth THEN KVLevels[i]
    ELSE IF i = 0 THEN ResetLevel(KVLevels[0])
    ELSE KVLevelPut(ResetLevel(KVLevels[i]), RunSize(i),
                    KVMerged(read[i - 1] \o (IF i = KVDepth THEN read[i] ELSE << >>)))]

\* Mutant of KVBufferInto: the first level is not read before it is reset.
KVBufferIntoAlone(level, read) ==
  IF KVLevelEmpty(level, RunSize(0))
  THEN KVLevelPut(level, RunSize(0), KVGetEntries(kvbuffer))
  ELSE KVLevelPut(ResetLevel(level), RunSize(0), KVMerged(KVGetEntries(kvbuffer)))

\* The buffer follows, behind the entries of the first level or merged with them.
KVBufferInto(level, read) ==
  IF KVLevelEmpty(level, RunSize(0))
  THEN KVLevelPut(level, RunSize(0), KVGetEntries(kvbuffer))
  ELSE KVLevelPut(ResetLevel(level), RunSize(0), KVMerged(KVGetEntries(kvbuffer) \o read[0]))

\* The levels that are read: those a flush goes through or, without one, the first
\* when it is not empty.
LevelsRead ==
  IF KVDepth > 0 THEN 0 .. KVDepth
  ELSE IF KVLevelEmpty(KVLevels[0], RunSize(0)) THEN {} ELSE {0}

\* The levels once they and the buffer are flushed, if this is what the runs gave.
LevelsAfter(reads) ==
  LET read == [i \in LevelsRead |-> reads[i][1] \o reads[i][2]]
      flushed == KVFlushInto(read)
  IN  [flushed EXCEPT ![0] = KVBufferInto(flushed[0], read)]

\* A run that is full now and was not before, or has other entries, was written.
WritesAccepted(levels) ==
  \A i \in Level, r \in {1, 2} :
    levels[i][r].page # KVLevels[i][r].page => Accepted(levels[i][r].page)

Exit ==
  /\ kvstatus' = "exited"
  /\ UNCHANGED <<kvbuffer, KVLevels, kvgiven>>

KVPutInBuffer(k, v) ==
  /\ kvstatus = "running" /\ HasRoom(kvbuffer)
  /\ kvbuffer' = Put(kvbuffer, k, v)
  /\ kvgiven' = Put(kvgiven, k, v)
  /\ UNCHANGED <<KVLevels, kvstatus>>

\* A read fails, or what it returns fails the threads' check.
KVReadFails ==
  /\ kvstatus = "running" /\ ~HasRoom(kvbuffer)
  /\ LevelsRead # {}
  /\ Exit

KVPutAfterFlush(k, v) ==
  /\ kvstatus = "running" /\ ~HasRoom(kvbuffer)
  /\ KVDepth < NumLevels
  /\ \E reads \in [LevelsRead -> [{1, 2} -> UNION {ReadOf(i, r) : i \in LevelsRead, r \in {1, 2}}]] :
       /\ \A i \in LevelsRead, r \in {1, 2} : reads[i][r] \in ReadOf(i, r)
       /\ IF WritesAccepted(LevelsAfter(reads))
          THEN /\ KVLevels' = LevelsAfter(reads)
               /\ kvbuffer' = Put(EmptyBuffer, k, v)
               /\ kvgiven' = Put(kvgiven, k, v)
               /\ UNCHANGED kvstatus
          ELSE Exit

KVPutValue(k, v) == KVPutInBuffer(k, v) \/ KVPutAfterFlush(k, v) \/ KVReadFails
KVUpdateValue(k, v) == KVPutValue(k, v)
KVDeleteValue(k) == KVPutValue(k, Deleted)

\* The workloads of NoFTLKVInit insert, update, delete and look up, in any order.
KVNext ==
  \E k \in Key : \/ \E v \in Value : KVPutValue(k, v) \/ KVUpdateValue(k, v)
                 \/ KVDeleteValue(k)

KVSpec == KVInit /\ [][KVNext]_kvvars

-----------------------------------------------------------------------------
(* What KVGetValue may return.  PagePointers stays empty, so a run searches  *)
(* its entries in memory, also when it has none there any more.              *)

\* A run has a fence, and the keys it holds bounds, from when it is full.
KVOutOfFences(run, max, k) ==
  run.size = max /\ ((\A j \in KeysOf(run.page) : k < j) \/ (\A j \in KeysOf(run.page) : k > j))

KVRunAnswers(run, max, k) ==
  IF run.size = 0 \/ KVOutOfFences(run, max, k) THEN {NullPointer} ELSE FoundIn(run.Rundata, k)

KVLevelAnswers(i, k) ==
  FirstAnswer([r \in {1, 2} |-> KVRunAnswers(KVLevels[i][r], RunSize(i), k)])

KVGetValue(k) ==
  IF KVBufferGet(kvbuffer, k) # NullPointer THEN {KVBufferGet(kvbuffer, k)}
  ELSE FirstAnswer([i \in 1 .. NumLevels |-> KVLevelAnswers(i - 1, k)])

-----------------------------------------------------------------------------
KVHolds(k, v) ==
  \E i \in Level, r \in {1, 2} :
    LET run == KVLevels[i][r]
        data == IF run.size = RunSize(i) THEN run.page ELSE run.Rundata
    IN  \E j \in DOMAIN data : data[j] = [key |-> k, val |-> v]

\* The state is well formed: a run is in memory until it is full and on the device
\* from then on.
KVTypeOK ==
  /\ DOMAIN kvbuffer \subseteq Key /\ Cardinality(DOMAIN kvbuffer) <= BufferSize
  /\ \A i \in Level, r \in {1, 2} :
       LET run == KVLevels[i][r] IN
       /\ run.size <= RunSize(i)
       /\ run.size < RunSize(i) => Len(run.Rundata) = run.size
       /\ run.size = RunSize(i) => run.Rundata = << >> /\ Len(run.page) = RunSize(i)
  /\ kvstatus \in {"running", "exited"}

\* Every run written must begin with the key 1, so the tree never has a second one
\* on the device: whatever is put, only the first run of the first level is ever
\* written, and no level below the first ever holds an entry.
OneRunOnDevice ==
  \A i \in Level, r \in {1, 2} :
    i # 0 \/ r # 1 => KVLevels[i][r].page = << >> /\ (i # 0 => KVLevels[i][r].size = 0)

\* A flush the process survives loses nothing: a key whose last value is live is in
\* the buffer or in a run with that value.  A lookup of it does not answer that it is
\* not there, although a run of which nothing is in memory is searched in memory; of
\* such a run it may answer any value.
LiveKeysKept ==
  \A k \in DOMAIN kvgiven :
    kvgiven[k] # Deleted =>
      /\ (k \in DOMAIN kvbuffer /\ kvbuffer[k] = kvgiven[k]) \/ KVHolds(k, kvgiven[k])
      /\ NullPointer \notin KVGetValue(k)
=============================================================================
