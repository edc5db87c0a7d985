--------------------------- MODULE ParallelWriter ---------------------------
(***************************************************************************)
(* The striped writer of the NoFTL tree (Backend/SSDWrite/                 *)
(* parallel_writer.cpp): parallel_coordinator cuts a run into pages and    *)
(* starts a thread for each of max_os_threads pages, which go to the same  *)
(* place of as many consecutive LUNs; it joins and starts over.            *)
(*                                                                         *)
(* A page number is that of its first sector; a LUN has nchunk chunks of   *)
(* nsectr sectors and a page takes ws_min.  Page i of a run is the number  *)
(* i: what the threads compare (key = size + index) tells just that.  The  *)
(* device is external: a chunk takes its pages in order, each only once,   *)
(* and a command may fail.  The counter "reads", never used, is left out.  *)
(* Runs are those the coordinator takes: it exits unless their keys are    *)
(* 1, 2, 3 and so on (parallel_writer.cpp:214-221).                        *)
(***************************************************************************)
EXTENDS Integers, FiniteSets, FiniteSetsExt

CONSTANTS
  max_os_threads,
  nsectr, nchunk, npunit, npugrp,   \* the geometry of the device
  ws_min,
  RunPages,     \* the lengths, in pages, of the runs that are written
  MaxPages      \* bound on the pages of all runs together

ASSUME GeometryAssumption ==
  /\ {max_os_threads, nsectr, nchunk, npunit, npugrp, ws_min} \subseteq Nat \ {0}
  /\ RunPages \subseteq Nat \ {0}
  /\ MaxPages \in Nat

\* A chunk is a whole number of pages (4096 sectors of 4 a page).
ASSUME PageAssumption == nsectr % ws_min = 0

VARIABLES
  pc,           \* where the coordinator is
  call,         \* the channel, length and first page of the run it writes
  i, j, k,      \* its loop variables: pages done, place in the batch, thread
  buffer,       \* the page each of its buffers holds
  thread,       \* the threads
  channel_current_pointer,
  wp,           \* device: the sectors written of each chunk
  placed,       \* device: where the pages of this run went
  writes,       \* the global counter
  status,       \* "running", or how the process ended
  programmed,   \* history: pages the device took
  used          \* history: pages written for each channel

coordVars == <<pc, call, i, j, k, buffer, channel_current_pointer, used>>
deviceVars == <<wp, placed, programmed>>
vars == <<coordVars, deviceVars, thread, writes, status>>

Channel == 0 .. (npugrp - 1)
Thread == 0 .. (max_os_threads - 1)
lun_width == nchunk * nsectr
channel_width == lun_width * npunit
Chunk == 0 .. (npugrp * npunit * nchunk - 1)

NoPage == -1     \* a buffer that is not allocated, or an unused thread slot

\* main.cpp:99-121.  This channel_width is not the coordinator's.
StartOf(c) == c * (npugrp * (npunit * nsectr))

Unused == [state |-> "none", slot |-> 0, page |-> NoPage, index |-> NoPage, seen |-> 0]

Init ==
  /\ pc = "idle"
  /\ call = [channel |-> 0, pages |-> 0, start |-> 0]
  /\ i = 0 /\ j = 0 /\ k = 0
  /\ buffer = [s \in 0 .. (nchunk - 1) |-> NoPage]
  /\ thread = [t \in Thread |-> Unused]
  /\ channel_current_pointer = [c \in Channel |-> StartOf(c)]
  /\ wp = [c \in Chunk |-> 0]
  /\ placed = [x \in {} |-> 0]
  /\ writes = 0 /\ programmed = 0
  /\ used = [c \in Channel |-> 0]
  /\ status = "running"

Running == status = "running"

End(how) == status' = how

-----------------------------------------------------------------------------
(* The coordinator.                                                        *)

\* The pages of the batch that starts at page i of the run.
batch_pages == Min({nchunk, call.pages - i})

Call(c, n) ==
  /\ Running /\ pc = "idle" /\ programmed + n <= MaxPages
  /\ pc' = "fill"
  /\ call' = [channel |-> c, pages |-> n, start |-> channel_current_pointer[c]]
  /\ i' = 0
  /\ buffer' = [s \in 0 .. (nchunk - 1) |-> NoPage]
  /\ placed' = [x \in {} |-> 0]
  /\ thread' = [t \in Thread |-> Unused]
  /\ UNCHANGED <<j, k, channel_current_pointer, used, wp, programmed, writes, status>>

\* The outer loop: allocates and fills the buffers of a batch, or returns.
Fill ==
  /\ Running /\ pc = "fill" /\ i < call.pages
  /\ buffer' = [s \in DOMAIN buffer |-> IF s < batch_pages THEN i + s ELSE buffer[s]]
  /\ j' = 0 /\ k' = 0
  /\ pc' = "launch"
  /\ UNCHANGED <<call, i, channel_current_pointer, used, deviceVars, thread, writes, status>>

Return ==
  /\ Running /\ pc = "fill" /\ i >= call.pages
  /\ pc' = "idle"
  /\ UNCHANGED <<call, i, j, k, buffer, channel_current_pointer, used, deviceVars,
                 thread, writes, status>>

\* Mutant of LoopTurn: the second loop goes on with the first one's variable.
TurnKeepsCount(here, next) ==
  /\ Running /\ pc = here
  /\ k' = k + 1
  /\ pc' = IF k + 1 < max_os_threads THEN here ELSE next

\* One turn of a loop over the threads, which is followed by "next".
LoopTurn(here, next) ==
  /\ Running /\ pc = here
  /\ k' = (k + 1) % max_os_threads
  /\ pc' = IF k + 1 < max_os_threads THEN here ELSE next

\* Mutant of PageOf: the stripe lies in one LUN.
PageInOneLUN(t) == channel_current_pointer[call.channel] + t * ws_min

\* The page thread t of the stripe writes.
PageOf(t) == channel_current_pointer[call.channel] + t * lun_width

\* Mutant of StartThread: the last thread is left out, but joined.
StartAllButLast(t, slot) ==
  thread' = IF t + 1 = max_os_threads THEN thread ELSE
    [thread EXCEPT ![t] = [state |-> "start", slot |-> slot, index |-> i + slot,
                           page |-> PageOf(t), seen |-> 0]]

StartThread(t, slot) ==
  thread' = [thread EXCEPT ![t] = [state |-> "start", slot |-> slot, index |-> i + slot,
                                   page |-> PageOf(t), seen |-> 0]]

\* One pthread_create.  When max_os_threads does not divide the batch, the slot
\* lies beyond it, or beyond the arrays; creation may fail.
Launch ==
  /\ LoopTurn("launch", "join")
  /\ \/ j + k < nchunk /\ StartThread(k, j + k) /\ UNCHANGED status
     \/ j + k >= nchunk /\ End("crashed") /\ UNCHANGED thread
     \/ End("exited") /\ UNCHANGED thread
  /\ UNCHANGED <<call, i, j, buffer, channel_current_pointer, used, deviceVars, writes>>

\* Mutant of Join: the buffer is deleted without waiting for the thread.
JoinEarly ==
  /\ LoopTurn("join", "advance")
  /\ buffer' = [buffer EXCEPT ![thread[k].slot] = NoPage]
  /\ UNCHANGED <<call, i, j, channel_current_pointer, used, deviceVars, thread, writes,
                 status>>

\* One pthread_join, and the delete[] of the buffer of the joined thread.
Join ==
  /\ LoopTurn("join", "advance")
  /\ thread[k].state = "done"
  /\ buffer' = [buffer EXCEPT ![thread[k].slot] = NoPage]
  /\ UNCHANGED <<call, i, j, channel_current_pointer, used, deviceVars, thread, writes,
                 status>>

\* Mutant of NextPointer: the wrap does not go on to the next page.
NextPointerStays(c, step) ==
  (channel_current_pointer[c] + step) % ((c + 1) * channel_width)

\* The next stripe: the same place of the next LUNs, or the next page of the
\* first ones.
NextPointer(c, step) ==
  LET limit == (c + 1) * channel_width
      next == channel_current_pointer[c] + step IN
  IF next >= limit THEN (next % limit) + ws_min ELSE next

Advance ==
  /\ Running /\ pc = "advance"
  /\ channel_current_pointer' = [channel_current_pointer EXCEPT
       ![call.channel] = NextPointer(call.channel, max_os_threads * lun_width)]
  /\ used' = [used EXCEPT ![call.channel] = @ + max_os_threads]
  /\ j' = j + max_os_threads
  /\ \/ j' < batch_pages /\ pc' = "launch" /\ UNCHANGED i
     \/ j' >= batch_pages /\ pc' = "fill" /\ i' = i + nchunk
  /\ UNCHANGED <<call, k, buffer, deviceVars, thread, writes, status>>

-----------------------------------------------------------------------------
(* parallel_write_into_pu, on thread t.                                    *)

Goto(t, state) == thread' = [thread EXCEPT ![t].state = state]

\* What the thread finds in its buffer is its page; otherwise it exits.
BufferGood(t) == buffer[thread[t].slot] = thread[t].index

\* The device takes the next page of a chunk, and no page twice.
Accepts(page) ==
  /\ page \div nsectr \in Chunk
  /\ page % nsectr = wp[page \div nsectr]

Write(t) ==
  /\ Running /\ thread[t].state = "start"
  /\ LET page == thread[t].page IN
       \/ /\ BufferGood(t) /\ Accepts(page)
          /\ wp' = [wp EXCEPT ![page \div nsectr] = @ + ws_min]
          /\ placed' = [x \in DOMAIN placed \cup {thread[t].index} |->
                          IF x = thread[t].index THEN page ELSE placed[x]]
          /\ programmed' = programmed + 1
          /\ Goto(t, "load")
          /\ UNCHANGED status
       \/ BufferGood(t) /\ ~Accepts(page) /\ End("refused") /\ UNCHANGED <<deviceVars, thread>>
       \/ End("exited") /\ UNCHANGED <<deviceVars, thread>>
  /\ UNCHANGED <<coordVars, writes>>

\* writes++ is a load and a store; no lock is held.
LoadWrites(t) ==
  /\ Running /\ thread[t].state = "load"
  /\ thread' = [thread EXCEPT ![t].state = "store", ![t].seen = writes]
  /\ UNCHANGED <<coordVars, deviceVars, writes, status>>

StoreWrites(t) ==
  /\ Running /\ thread[t].state = "store"
  /\ writes' = thread[t].seen + 1
  /\ Goto(t, "verify")
  /\ UNCHANGED <<coordVars, deviceVars, status>>

\* The buffer is looked at again and the page is read back; the comparison with
\* what was read is only printed.
Verify(t) ==
  /\ Running /\ thread[t].state = "verify"
  /\ \/ BufferGood(t) /\ Goto(t, "done") /\ UNCHANGED status
     \/ End("exited") /\ UNCHANGED thread
  /\ UNCHANGED <<coordVars, deviceVars, writes>>

-----------------------------------------------------------------------------
Work(t) == Write(t) \/ LoadWrites(t) \/ StoreWrites(t) \/ Verify(t)

Coordinate == Fill \/ Return \/ Launch \/ Join \/ Advance

Next ==
  \/ \E c \in Channel, n \in RunPages : Call(c, n)
  \/ Coordinate
  \/ \E t \in Thread : Work(t)

\* The operating system runs every thread, the coordinator's one too.
Fairness ==
  /\ WF_vars(Coordinate)
  /\ \A t \in Thread : WF_vars(Work(t))

Spec == Init /\ [][Next]_vars
FairSpec == Spec /\ Fairness

-----------------------------------------------------------------------------
Active(t) == thread[t].state \in {"start", "load", "store", "verify"}

\* The state is well formed.
TypeOK ==
  /\ pc \in {"idle", "fill", "launch", "join", "advance"}
  /\ call \in [channel : Channel, pages : RunPages \cup {0}, start : Nat]
  /\ i \in Nat /\ j \in Nat /\ k \in Thread
  /\ DOMAIN buffer = 0 .. (nchunk - 1)
  /\ channel_current_pointer \in [Channel -> Nat]
  /\ wp \in [Chunk -> 0 .. nsectr]
  /\ status \in {"running", "exited", "crashed", "refused"}

\* No buffer is freed or filled anew while a thread still reads it: the
\* coordinator joins a thread before it deletes the thread's buffer
\* (parallel_writer.cpp:244-253).
BuffersOutliveThreads ==
  \A t \in Thread :
    Active(t) /\ thread[t].slot < batch_pages => buffer[thread[t].slot] = thread[t].index

\* No two threads that run at the same time write to one LUN, whose chunks take
\* one page after the other.
ThreadsOnOwnLUNs ==
  \A s, t \in Thread :
    s # t /\ Active(s) /\ Active(t) =>
      thread[s].page \div lun_width # thread[t].page \div lun_width

\* The pages a channel has before it meets the next one or the end of its LUNs.
RoomOf(c) ==
  LET first == StartOf(c) % lun_width
      last == IF c + 1 \in Channel THEN StartOf(c + 1) % lun_width ELSE lun_width IN
  ((c + 1) * npunit * (last - first)) \div ws_min

\* As long as every channel has room, the pages the coordinator chooses
\* (parallel_writer.cpp:228-233, 257-264) are ones the device accepts: none is
\* used twice, by one channel or by two, and none is skipped within a chunk.
RefusedOnlyWhenFull ==
  status = "refused" => \E c \in Channel : used[c] >= RoomOf(c)

\* Mutant of PageReadFor: the reader wraps to the page it came from.
PageReadWithoutStep(n) ==
  (call.start + n * lun_width) % ((call.channel + 1) * channel_width)

\* The page the reader looks at for page n of the run (parallel_writer.cpp:
\* 286-311, 343-365).  It moves from LUN to LUN, the writer by max_os_threads.
PageReadFor(n) ==
  LET limit == (call.channel + 1) * channel_width
      at[m \in Nat] ==
        IF m = 0 THEN call.start
        ELSE IF at[m - 1] + lun_width >= limit
             THEN ((at[m - 1] + lun_width) % limit) + ws_min
             ELSE at[m - 1] + lun_width
  IN at[n]

\* As long as its channel has room, a run is read back from where it was written: the two
\* ways of stepping through the LUNs agree, also across the end of the channel.
RunIsRecoverable ==
  pc = "idle" /\ used[call.channel] <= RoomOf(call.channel) =>
    /\ DOMAIN placed = 0 .. (call.pages - 1)
    /\ \A n \in DOMAIN placed : placed[n] = PageReadFor(n)

\* The coordinator does not wait forever for its threads.
CallsReturn == [](pc # "idle" => <>(pc = "idle" \/ status # "running"))
=============================================================================
