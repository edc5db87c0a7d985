------------------------------ MODULE LSMTree ------------------------------
(***************************************************************************)
(* The LSM tree on a device with an FTL (LSM-Tree/LsmTree.cpp and its      *)
(* Buffer, Level, Run and MergeContext), one operation a step.             *)
(*                                                                         *)
(* As built, a run keeps its entries in memory (Rundata): the write of a   *)
(* full page and the whole of SingleRunRead are commented out, so a run    *)
(* that is read for a merge gives no entry and its pages stay unset.  The  *)
(* size of a run is then the length of its Rundata, and Min/MaxKey and the *)
(* fence (set once, when Rundata has reached a page) follow from it.       *)
(***************************************************************************)
EXTENDS LSMParts

CONSTANT FenceAt      \* entries of a page: the run has a fence from then on
ASSUME FenceAssumption == FenceAt \in Nat \ {0}

VARIABLES
  lsmbuffer,
  Levels,             \* of each level its two runs, sequences of entries
  lsmstatus,          \* "running", or "undefined": flushed past the last level
  lsmgiven            \* history: the value each key was last given

lsmvars == <<lsmbuffer, Levels, lsmstatus, lsmgiven>>

EmptyRun == << >>
NoRuns == << EmptyRun, EmptyRun >>
\* The buffer when AllClear has emptied it.
AllClear == EmptyBuffer

LSMInit ==
  /\ lsmbuffer = EmptyBuffer
  /\ Levels = [i \in Level |-> NoRuns]
  /\ lsmstatus = "running"
  /\ lsmgiven = EmptyBuffer

SingleRunRead(run) == << >>

\* Mutant of LevelRead: the entries of a run are taken from memory.
LevelReadInMemory(level) == level[1] \o level[2]

LevelFull(level) == IsFull(Len(level[1]), Len(level[2]))
LevelEmpty(level, max) == IsEmpty(Len(level[1]), Len(level[2]), max)
LevelRead(level) == SingleRunRead(level[1]) \o SingleRunRead(level[2])
LevelPut(level, max, entries) ==
  << level[1] \o ToFirst(Len(level[1]), max, entries),
     level[2] \o ToSecond(Len(level[1]), Len(level[2]), max, entries) >>

-----------------------------------------------------------------------------
\* FlushInto calls itself for the next level when that is full: it goes down to
\* the first level that is not, whose number this is, or past the last one.
Depth(levels) ==
  CHOOSE d \in 0 .. NumLevels :
    /\ \A i \in 0 .. (d - 1) : LevelFull(levels[i])
    /\ d = NumLevels \/ ~LevelFull(levels[d])

\* Coming back up, each level above that one is merged into the next, which the
\* call before has reset, save for the lowest: this one is merged with its own.
FlushInto(levels) ==
  LET d == Depth(levels)
      Stays(i) == IF i = d THEN levels[i] ELSE NoRuns
  IN  [i \in Level |->
        IF d = 0 \/ i > d THEN levels[i]
        ELSE IF i = 0 THEN NoRuns
        ELSE LevelPut(NoRuns, RunSize(i),
                      Drain(LevelRead(levels[i - 1]) \o LevelRead(Stays(i))))]

\* Where the buffer goes: behind what the first level has while none of its
\* runs is full, or else merged with it.
BufferInto(level) ==
  IF LevelEmpty(level, RunSize(0))
  THEN LevelPut(level, RunSize(0), GetEntries(lsmbuffer))
  ELSE LevelPut(NoRuns, RunSize(0), Drain(GetEntries(lsmbuffer) \o LevelRead(level)))

PutInBuffer(k, v) ==
  /\ lsmstatus = "running"
  /\ HasRoom(lsmbuffer)
  /\ lsmbuffer' = Put(lsmbuffer, k, v)
  /\ lsmgiven' = Put(lsmgiven, k, v)
  /\ UNCHANGED <<Levels, lsmstatus>>

PutAfterFlush(k, v) ==
  /\ lsmstatus = "running"
  /\ ~HasRoom(lsmbuffer)
  /\ IF Depth(Levels) = NumLevels
     THEN lsmstatus' = "undefined" /\ UNCHANGED <<lsmbuffer, Levels, lsmgiven>>
     ELSE /\ LET flushed == FlushInto(Levels)
             IN  Levels' = [flushed EXCEPT ![0] = BufferInto(flushed[0])]
          /\ lsmbuffer' = Put(AllClear, k, v)
          /\ lsmgiven' = Put(lsmgiven, k, v)
          /\ UNCHANGED lsmstatus

PutValue(k, v) == PutInBuffer(k, v) \/ PutAfterFlush(k, v)
UpdateValue(k, v) == PutValue(k, v)
DeleteValue(k) == PutValue(k, Deleted)

\* The workloads of LSMTreePort insert, update, delete and look up, in any order.
LSMNext ==
  \E k \in Key : \/ \E v \in Value : PutValue(k, v) \/ UpdateValue(k, v)
                 \/ DeleteValue(k)

LSMSpec == LSMInit /\ [][LSMNext]_lsmvars

-----------------------------------------------------------------------------
(* What GetValue may return.                                               *)

\* Mutant of OutOfFences: the smallest and the largest key count as outside.
OutOfFencesInclusive(run, k) ==
  Len(run) >= FenceAt /\ ((\A j \in KeysOf(run) : k <= j) \/ (\A j \in KeysOf(run) : k >= j))

OutOfFences(run, k) ==
  Len(run) >= FenceAt /\ ((\A j \in KeysOf(run) : k < j) \/ (\A j \in KeysOf(run) : k > j))

RunAnswers(run, k) ==
  IF run = << >> \/ OutOfFences(run, k) THEN {NullPointer} ELSE FoundIn(run, k)

LevelAnswers(level, k) == FirstAnswer([r \in {1, 2} |-> RunAnswers(level[r], k)])

GetValue(k) ==
  IF BufferGet(lsmbuffer, k) # NullPointer THEN {BufferGet(lsmbuffer, k)}
  ELSE FirstAnswer([i \in 1 .. NumLevels |-> LevelAnswers(Levels[i - 1], k)])

-----------------------------------------------------------------------------
Holds(level, k, v) ==
  \E r \in {1, 2} : \E i \in DOMAIN level[r] : level[r][i] = [key |-> k, val |-> v]

\* The state is well formed; the second run of a level is not used before the
\* first is full, and neither grows beyond its size, so that IsEmpty and IsFull,
\* which compare for equality, cannot be stepped over.
LSMTypeOK ==
  /\ DOMAIN lsmbuffer \subseteq Key /\ DOMAIN lsmgiven \subseteq Key
  /\ Cardinality(DOMAIN lsmbuffer) <= BufferSize
  /\ \A k \in DOMAIN lsmbuffer : lsmbuffer[k] \in AnyValue
  /\ \A i \in Level :
       /\ \A r \in {1, 2} : \A j \in DOMAIN Levels[i][r] : Levels[i][r][j] \in EntryOf
       /\ Len(Levels[i][1]) <= RunSize(i) /\ Len(Levels[i][2]) <= RunSize(i)
       /\ Levels[i][2] # << >> => Len(Levels[i][1]) = RunSize(i)
  /\ lsmstatus \in {"running", "undefined"}

\* FlushInto takes the level after the current one without looking whether there
\* is one.  It never runs past the last: a flush moves nothing downwards, so no
\* level below the first ever holds an entry.
DeepLevelsEmpty ==
  /\ \A i \in Level \ {0} : Levels[i] = NoRuns
  /\ NumLevels > 1 => lsmstatus = "running"

\* What leaves the buffer with a flush and is not a deletion is in the first
\* level afterwards: no entry is dropped for want of room in its two runs.
FlushKeepsBuffer ==
  [][\A k \in DOMAIN lsmbuffer \ DOMAIN lsmbuffer' :
       lsmbuffer[k] # Deleted => Holds(Levels'[0], k, lsmbuffer[k])]_lsmvars

\* A lookup returns the null pointer ("Not Found!") only for a key that neither
\* the buffer nor any run holds, whatever the fences, the smallest and the
\* largest key of a run say.
NeverMissesHeld ==
  \A k \in Key :
    NullPointer \in GetValue(k) =>
      /\ k \notin DOMAIN lsmbuffer
      /\ \A i \in Level, r \in {1, 2} : k \notin KeysOf(Levels[i][r])

\* LsmTree.cpp:57: "Flush directly if the size equals 0, or merge all datum of next
\* run and flush": a flush takes the entries that are there along, so a key whose
\* last value is live is in the buffer or in a run of some level.
FlushedEntriesStay ==
  \A k \in DOMAIN lsmgiven :
    lsmgiven[k] # Deleted =>
      k \in DOMAIN lsmbuffer \/ \E i \in Level : Holds(Levels[i], k, lsmgiven[k])
=============================================================================
