------------------------ MODULE ParallelWriterProofs ------------------------
(***************************************************************************)
(* The threads of a stripe neither share a buffer nor a LUN, and a buffer  *)
(* outlives its thread, for every geometry and number of threads.  Where   *)
(* stripes fit the channels, the n-th page of a channel has its place      *)
(* (Place), whatever runs it belongs to: so the device takes each page,    *)
(* and the reader, who goes from LUN to LUN, finds them again.             *)
(***************************************************************************)
EXTENDS ParallelWriter, BasicLemmas, TLAPS

USE GeometryAssumption

ThreadStates == {"none", "start", "load", "store", "verify", "done"}

\* The threads of the stripe that have been started and not been joined.
Started(t) == (pc = "launch" /\ t < k) \/ (pc = "join" /\ t >= k)

\* The buffers of the batch that have not been deleted.
Unjoined(s) ==
  \/ pc = "launch" /\ s >= j
  \/ pc = "join" /\ s >= j + k
  \/ pc = "advance" /\ s >= j + max_os_threads

ThreadTypes ==
  thread \in [Thread -> [state : ThreadStates, slot : Nat, page : Nat \cup {NoPage},
                         index : Nat \cup {NoPage}, seen : Nat]]

\* Only started threads run, each on the buffer and the LUN of its place.
StripeInOrder ==
  /\ pc = "advance" => k = 0
  /\ \A t \in Thread : Active(t) => Started(t)
  /\ \A t \in Thread : Active(t) \/ (Running /\ Started(t)) =>
       /\ thread[t].slot = j + t
       /\ thread[t].index = i + (j + t)
       /\ thread[t].page = PageOf(t)

BuffersFilled ==
  \A s \in 0 .. (nchunk - 1) : Unjoined(s) /\ s < batch_pages => buffer[s] = i + s

\* A number of whole pages.
Whole(n) == \E q \in Nat : n = q * ws_min

PointersWhole == \A c \in Channel : Whole(channel_current_pointer[c])

CoordTypes ==
  /\ pc \in {"idle", "fill", "launch", "join", "advance"}
  /\ call \in [channel : Channel, pages : RunPages \cup {0}, start : Nat]
  /\ i \in Nat /\ j \in Nat /\ k \in Thread
  /\ DOMAIN buffer = 0 .. (nchunk - 1)
  /\ channel_current_pointer \in [Channel -> Nat]

DeviceTypes == wp \in [Chunk -> 0 .. nsectr]

StatusTypes ==
  /\ status \in {"running", "exited", "crashed", "refused"}
  /\ writes \in Nat

WriterInv ==
  /\ CoordTypes /\ DeviceTypes /\ StatusTypes /\ ThreadTypes
  /\ StripeInOrder /\ BuffersFilled /\ PointersWhole

-----------------------------------------------------------------------------
(* Whole pages.                                                            *)

LEMMA ProductOfNats ==
  ASSUME NEW a \in Nat, NEW b \in Nat
  PROVE  a * b \in Nat /\ (a # 0 /\ b # 0 => a * b # 0)
OBVIOUS

LEMMA Widths ==
  /\ lun_width \in Nat \ {0} /\ channel_width \in Nat \ {0}
  /\ \A c \in Channel : c \in Nat /\ (c + 1) * channel_width \in Nat \ {0}
<1>1. nchunk \in Nat \ {0} /\ nsectr \in Nat \ {0} /\ npunit \in Nat \ {0}
  OBVIOUS
<1>2. lun_width \in Nat \ {0}
  BY <1>1, ProductOfNats DEF lun_width
<1>3. channel_width \in Nat \ {0}
  BY <1>1, <1>2, ProductOfNats DEF channel_width
<1>4. ASSUME NEW c \in Channel PROVE c \in Nat /\ (c + 1) * channel_width \in Nat \ {0}
  <2>1. c \in Nat /\ c + 1 \in Nat \ {0}
    BY DEF Channel
  <2> QED  BY <1>3, <2>1, ProductOfNats
<1> QED  BY <1>2, <1>3, <1>4

LEMMA WholeSum ==
  ASSUME NEW a, NEW b, Whole(a), Whole(b)
  PROVE  Whole(a + b)
<1>1. PICK m \in Nat : a = m * ws_min
  BY DEF Whole
<1>2. PICK n \in Nat : b = n * ws_min
  BY DEF Whole
<1>3. a + b = (m + n) * ws_min /\ m + n \in Nat
  BY <1>1, <1>2
<1> QED  BY <1>3 DEF Whole

LEMMA WholeTimes ==
  ASSUME NEW a, Whole(a), NEW n \in Nat
  PROVE  Whole(n * a)
<1>1. PICK m \in Nat : a = m * ws_min
  BY DEF Whole
<1>2. n * (m * ws_min) = (n * m) * ws_min /\ n * m \in Nat
  OBVIOUS
<1> QED  BY <1>1, <1>2 DEF Whole

LEMMA WholeIsNat ==
  ASSUME NEW a, Whole(a)
  PROVE  a \in Nat
<1>1. PICK m \in Nat : a = m * ws_min
  BY DEF Whole
<1>2. ws_min \in Nat
  OBVIOUS
<1> QED  BY <1>1, <1>2, ProductOfNats

LEMMA WholeMod ==
  ASSUME NEW a, NEW b \in Nat \ {0}, Whole(a), Whole(b)
  PROVE  Whole(a % b) /\ a % b \in 0 .. (b - 1)
<1>1. PICK m \in Nat : a = m * ws_min
  BY DEF Whole
<1>2. PICK n \in Nat : b = n * ws_min
  BY DEF Whole
<1>3. a \in Nat
  BY WholeIsNat
<1> DEFINE q == a \div b
           r == a % b
<1>4. q \in Nat /\ r \in 0 .. (b - 1) /\ a = b * q + r
  BY <1>3
<1> HIDE DEF q, r
<1>5. r = (m - n * q) * ws_min
  <2>1. (m - n * q) * ws_min = m * ws_min - (n * ws_min) * q
    BY <1>4
  <2> QED  BY <1>1, <1>2, <1>3, <1>4, <2>1
<1>6. m - n * q \in Nat
  <2> DEFINE p == m - n * q
  <2>1. p \in Int /\ r = p * ws_min /\ r >= 0 /\ ws_min > 0
    BY <1>4, <1>5
  <2> HIDE DEF p
  <2>2. p >= 0
    BY <2>1
  <2> QED  BY <2>1, <2>2 DEF p
<1>7. Whole(r)
  BY <1>5, <1>6 DEF Whole
<1> QED  BY <1>4, <1>7 DEF r

\* A page that starts before b ends before b.
LEMMA WholeFits ==
  ASSUME NEW a, NEW b, Whole(a), Whole(b), a < b
  PROVE  a + ws_min <= b
<1>1. PICK m \in Nat : a = m * ws_min
  BY DEF Whole
<1>2. PICK n \in Nat : b = n * ws_min
  BY DEF Whole
<1>3. m + 1 <= n
  <2>1. ASSUME n <= m PROVE FALSE
    <3>1. n * ws_min <= m * ws_min
      BY <2>1
    <3> QED  BY <1>1, <1>2, <3>1
  <2> QED  BY <2>1
<1>4. (m + 1) * ws_min <= n * ws_min /\ (m + 1) * ws_min = m * ws_min + ws_min
  BY <1>3
<1> QED  BY <1>1, <1>2, <1>4

LEMMA WholeChunk == Whole(nsectr) /\ Whole(lun_width) /\ Whole(ws_min)
<1>1. nsectr = (nsectr \div ws_min) * ws_min /\ nsectr \div ws_min \in Nat
  <2> DEFINE q == nsectr \div ws_min
  <2>0. nsectr \in Nat /\ ws_min \in Nat \ {0}
    OBVIOUS
  <2>1. q \in Nat /\ nsectr = ws_min * q + (nsectr % ws_min)
    BY <2>0, QuotientAndRemainder
  <2> HIDE DEF q
  <2>2. nsectr = q * ws_min
    BY <2>1, PageAssumption
  <2> QED  BY <2>1, <2>2 DEF q
<1>2. Whole(nsectr)
  BY <1>1 DEF Whole
<1>3. Whole(lun_width)
  BY <1>2, WholeTimes DEF lun_width
<1>4. ws_min = 1 * ws_min
  OBVIOUS
<1> QED  BY <1>2, <1>3, <1>4 DEF Whole

LEMMA WholeLimit ==
  ASSUME NEW c \in Channel
  PROVE  Whole((c + 1) * channel_width)
<1>1. channel_width = npunit * lun_width
  BY Widths DEF channel_width
<1>2. Whole(channel_width)
  BY <1>1, WholeChunk, WholeTimes
<1> QED  BY <1>2, Widths, WholeTimes

LEMMA StartsWhole ==
  ASSUME NEW c \in Channel
  PROVE  Whole(StartOf(c)) /\ StartOf(c) \in Nat
<1>1. Whole(npunit * nsectr)
  BY WholeChunk, WholeTimes
<1>2. Whole(npugrp * (npunit * nsectr))
  BY <1>1, WholeTimes
<1>3. Whole(StartOf(c))
  BY <1>2, Widths, WholeTimes DEF StartOf
<1> QED  BY <1>3, WholeIsNat

LEMMA NextPointerWhole ==
  ASSUME NEW c \in Channel, Whole(channel_current_pointer[c]), NEW step, Whole(step)
  PROVE  Whole(NextPointer(c, step)) /\ NextPointer(c, step) \in Nat
<1> DEFINE limit == (c + 1) * channel_width
           next == channel_current_pointer[c] + step
<1>1. Whole(next)
  BY WholeSum
<1>2. limit \in Nat \ {0} /\ Whole(limit)
  BY Widths, WholeLimit
<1> HIDE DEF limit, next
<1>3. Whole((next % limit) + ws_min)
  BY <1>1, <1>2, WholeMod, WholeSum, WholeChunk
<1>4. NextPointer(c, step) = IF next >= limit THEN (next % limit) + ws_min ELSE next
  BY DEF NextPointer, next, limit
<1>5. Whole(NextPointer(c, step))
  BY <1>1, <1>3, <1>4
<1> QED  BY <1>5, WholeIsNat

-----------------------------------------------------------------------------
(* The steps.                                                              *)

\* The threads of a stripe lie one LUN apart.
LEMMA LUNOfThread ==
  ASSUME NEW p \in Nat, NEW t \in Nat
  PROVE  (p + t * lun_width) \div lun_width = p \div lun_width + t
<1> DEFINE w == lun_width
           q == p \div w
           r == p % w
<1>1. w \in Nat \ {0}
  BY Widths
<1> HIDE DEF w
<1>2. q \in Nat /\ r \in 0 .. (w - 1) /\ p = w * q + r
  BY <1>1
<1> HIDE DEF q, r
<1>3. p + t * w = w * (q + t) + r
  BY <1>1, <1>2
<1>4. \A n \in Nat, m \in 0 .. (w - 1) : (w * n + m) \div w = n
  BY <1>1
<1>5. q + t \in Nat
  BY <1>2
<1>6. (w * (q + t) + r) \div w = q + t
  BY <1>2, <1>4, <1>5
<1> QED  BY <1>3, <1>6 DEF w, q

LEMMA BatchBound ==
  ASSUME call.pages \in Nat, i \in Nat
  PROVE  batch_pages \in Int /\ batch_pages <= nchunk /\ batch_pages <= call.pages - i
<1>1. \A a, b \in Int : Min({a, b}) = IF a <= b THEN a ELSE b
  <2> TAKE a, b \in Int
  <2>1. \E x \in {a, b} : \A y \in {a, b} : x <= y
    OBVIOUS
  <2>2. /\ Min({a, b}) \in {a, b}
        /\ \A y \in {a, b} : Min({a, b}) <= y
    BY <2>1 DEF Min
  <2> QED  BY <2>2
<1>2. nchunk \in Int /\ call.pages - i \in Int
  OBVIOUS
<1> QED  BY <1>1, <1>2 DEF batch_pages

LEMMA TurnOfLoop ==
  ASSUME NEW here, NEW next, k \in Thread, LoopTurn(here, next)
  PROVE  /\ pc = here /\ status = "running" /\ k' \in Thread
         /\ \/ k + 1 \in Thread /\ k' = k + 1 /\ pc' = here
            \/ k = max_os_threads - 1 /\ k' = 0 /\ pc' = next
<1>1. max_os_threads \in Nat \ {0} /\ k \in 0 .. (max_os_threads - 1)
  BY DEF Thread
<1>2. CASE k + 1 < max_os_threads
  BY <1>1, <1>2 DEF LoopTurn, Running, Thread
<1>3. CASE k + 1 = max_os_threads
  BY <1>1, <1>3 DEF LoopTurn, Running, Thread
<1> QED  BY <1>1, <1>2, <1>3

LEMMA InitEstablishesWriter == Init => WriterInv
<1> SUFFICES ASSUME Init PROVE WriterInv
  OBVIOUS
<1>1. \A c \in Channel : Whole(StartOf(c)) /\ StartOf(c) \in Nat
  BY StartsWhole
<1>2. 0 \in Channel /\ 0 \in Thread
  BY DEF Channel, Thread
<1>3. CoordTypes
  BY <1>1, <1>2 DEF Init, CoordTypes
<1>4. DeviceTypes /\ StatusTypes
  BY DEF Init, DeviceTypes, StatusTypes
<1>5. ThreadTypes
  BY DEF Init, ThreadTypes, Unused, ThreadStates
<1>6. StripeInOrder
  BY DEF Init, StripeInOrder, Active, Started, Unused
<1>7. BuffersFilled
  BY DEF Init, BuffersFilled, Unjoined
<1>8. PointersWhole
  BY <1>1 DEF Init, PointersWhole
<1> QED  BY <1>3, <1>4, <1>5, <1>6, <1>7, <1>8 DEF WriterInv

LEMMA CallKeepsWriter ==
  ASSUME WriterInv, NEW c \in Channel, NEW n \in RunPages, Call(c, n)
  PROVE  WriterInv'
<1>1. CoordTypes'
  BY DEF WriterInv, CoordTypes, Call
<1>2. DeviceTypes' /\ StatusTypes'
  BY DEF WriterInv, DeviceTypes, StatusTypes, Call
<1>3. ThreadTypes'
  BY DEF Call, ThreadTypes, Unused, ThreadStates
<1>4. StripeInOrder'
  BY DEF Call, StripeInOrder, Active, Started, Unused
<1>5. BuffersFilled'
  BY DEF Call, BuffersFilled, Unjoined
<1>6. PointersWhole'
  BY DEF WriterInv, Call, PointersWhole, Whole
<1> QED  BY <1>1, <1>2, <1>3, <1>4, <1>5, <1>6 DEF WriterInv

LEMMA FillKeepsWriter ==
  ASSUME WriterInv, Fill
  PROVE  WriterInv'
<1>1. CoordTypes'
  BY DEF WriterInv, CoordTypes, Fill, Thread
<1>2. DeviceTypes' /\ StatusTypes' /\ ThreadTypes'
  BY DEF WriterInv, DeviceTypes, StatusTypes, ThreadTypes, Fill, deviceVars
<1>3. StripeInOrder'
  <2>1. \A t \in Thread : ~Active(t)
    BY DEF WriterInv, StripeInOrder, Started, Fill
  <2>2. \A t \in Thread : ~Active(t)'
    BY <2>1 DEF Fill, Active
  <2>3. \A t \in Thread : ~Started(t)'
    BY DEF Fill, Started, Thread
  <2> QED  BY <2>2, <2>3 DEF StripeInOrder, Fill
<1>4. BuffersFilled'
  <2>1. batch_pages' = batch_pages
    BY DEF batch_pages, Fill
  <2>2. \A s \in 0 .. (nchunk - 1) : s < batch_pages => buffer'[s] = i + s
    BY DEF WriterInv, CoordTypes, Fill
  <2> QED  BY <2>1, <2>2 DEF BuffersFilled, Fill
<1>5. PointersWhole'
  BY DEF WriterInv, Fill, PointersWhole, Whole
<1> QED  BY <1>1, <1>2, <1>3, <1>4, <1>5 DEF WriterInv

LEMMA ReturnKeepsWriter ==
  ASSUME WriterInv, Return
  PROVE  WriterInv'
<1>1. CoordTypes'
  BY DEF WriterInv, CoordTypes, Return
<1>2. DeviceTypes' /\ StatusTypes' /\ ThreadTypes'
  BY DEF WriterInv, DeviceTypes, StatusTypes, ThreadTypes, Return, deviceVars
<1>3. StripeInOrder'
  BY DEF WriterInv, StripeInOrder, Started, Active, Running, Return
<1>4. BuffersFilled'
  BY DEF BuffersFilled, Unjoined, Return
<1>5. PointersWhole'
  BY DEF WriterInv, Return, PointersWhole, Whole
<1> QED  BY <1>1, <1>2, <1>3, <1>4, <1>5 DEF WriterInv

LEMMA LaunchKeepsWriter ==
  ASSUME WriterInv, Launch
  PROVE  WriterInv'
<1>1. /\ CoordTypes /\ DeviceTypes /\ StatusTypes /\ ThreadTypes /\ StripeInOrder
      /\ k \in Thread /\ j \in Nat /\ i \in Nat
      /\ channel_current_pointer \in [Channel -> Nat] /\ call.channel \in Channel
  BY DEF WriterInv, CoordTypes
<1>2. /\ pc = "launch" /\ status = "running" /\ k' \in Thread
      /\ \/ k + 1 \in Thread /\ k' = k + 1 /\ pc' = "launch"
         \/ k = max_os_threads - 1 /\ k' = 0 /\ pc' = "join"
  BY <1>1, TurnOfLoop DEF Launch
<1>3. /\ UNCHANGED <<call, i, j, buffer, channel_current_pointer, used, deviceVars, writes>>
      /\ \/ StartThread(k, j + k) /\ status' = status
         \/ status' \in {"crashed", "exited"} /\ thread' = thread
  BY DEF Launch, End
<1>4. PageOf(k) \in Nat /\ \A t \in Thread : PageOf(t)' = PageOf(t)
  <2>1. k \in Nat /\ k * lun_width \in Nat
    BY <1>1, Widths, ProductOfNats DEF Thread
  <2> QED  BY <1>1, <1>3, <2>1 DEF PageOf
<1>5. CoordTypes'
  BY <1>1, <1>2, <1>3 DEF CoordTypes
<1>6. DeviceTypes'
  BY <1>1, <1>3 DEF DeviceTypes, deviceVars
<1>7. StatusTypes'
  BY <1>1, <1>3 DEF StatusTypes
<1>8. ThreadTypes'
  <2>1. CASE StartThread(k, j + k)
    <3>1. k \in Nat /\ j + k \in Nat /\ i + (j + k) \in Nat
      BY <1>1 DEF Thread
    <3> QED  BY <1>1, <1>4, <2>1, <3>1 DEF ThreadTypes, StartThread, ThreadStates
  <2>2. CASE thread' = thread
    BY <1>1, <2>2 DEF ThreadTypes
  <2> QED  BY <1>3, <2>1, <2>2
<1>9. StripeInOrder'
  <2> SUFFICES ASSUME NEW t \in Thread
               PROVE  /\ Active(t)' => Started(t)'
                      /\ Active(t)' \/ (Running' /\ Started(t)') =>
                           /\ thread'[t].slot = j + t
                           /\ thread'[t].index = i + (j + t)
                           /\ thread'[t].page = PageOf(t)
    BY <1>2, <1>3, <1>4 DEF StripeInOrder
  <2>0. t \in 0 .. (max_os_threads - 1) /\ k \in 0 .. (max_os_threads - 1)
    BY <1>1 DEF Thread
  <2>1. CASE t = k /\ StartThread(k, j + k) /\ status' = status
    <3>1. thread'[t] = [state |-> "start", slot |-> j + k, index |-> i + (j + k),
                        page |-> PageOf(k), seen |-> 0]
      BY <1>1, <2>1 DEF StartThread, ThreadTypes
    <3>2. Started(t)'
      BY <1>2, <2>0, <2>1 DEF Started
    <3> QED  BY <2>1, <3>1, <3>2
  <2>2. CASE t # k /\ StartThread(k, j + k) /\ status' = status
    <3>1. thread'[t] = thread[t]
      BY <1>1, <2>2 DEF StartThread, ThreadTypes
    <3>2. Started(t)' <=> Started(t)
      BY <1>2, <2>0, <2>2 DEF Started
    <3>3. Running' <=> Running
      BY <1>2, <1>3, <2>2 DEF Running
    <3> QED  BY <1>1, <3>1, <3>2, <1>2 DEF StripeInOrder, Active, Running
  <2>3. CASE status' \in {"crashed", "exited"} /\ thread' = thread
    <3>1. Started(t) => Started(t)'
      BY <1>2, <2>0 DEF Started
    <3> QED  BY <1>1, <2>3, <3>1 DEF StripeInOrder, Active, Running
  <2> QED  BY <1>3, <2>1, <2>2, <2>3
<1>10. BuffersFilled'
  <2>1. batch_pages' = batch_pages
    BY <1>3 DEF batch_pages
  <2>2. \A s \in 0 .. (nchunk - 1) : Unjoined(s)' => Unjoined(s)
    BY <1>1, <1>2, <1>3 DEF Unjoined
  <2> QED  BY <1>3, <2>1, <2>2 DEF WriterInv, BuffersFilled
<1>11. PointersWhole'
  BY <1>3 DEF WriterInv, PointersWhole, Whole
<1> QED  BY <1>5, <1>6, <1>7, <1>8, <1>9, <1>10, <1>11 DEF WriterInv

LEMMA JoinKeepsWriter ==
  ASSUME WriterInv, Join
  PROVE  WriterInv'
<1>1. /\ CoordTypes /\ DeviceTypes /\ StatusTypes /\ ThreadTypes /\ StripeInOrder
      /\ k \in Thread /\ j \in Nat /\ i \in Nat /\ DOMAIN buffer = 0 .. (nchunk - 1)
  BY DEF WriterInv, CoordTypes
<1>2. /\ pc = "join" /\ status = "running" /\ k' \in Thread
      /\ \/ k + 1 \in Thread /\ k' = k + 1 /\ pc' = "join"
         \/ k = max_os_threads - 1 /\ k' = 0 /\ pc' = "advance"
  BY <1>1, TurnOfLoop DEF Join
<1>3. /\ UNCHANGED <<call, i, j, channel_current_pointer, used, deviceVars, thread, writes,
                     status>>
      /\ thread[k].state = "done"
      /\ buffer' = [buffer EXCEPT ![thread[k].slot] = NoPage]
  BY DEF Join
<1>4. /\ CoordTypes' /\ DeviceTypes' /\ StatusTypes' /\ ThreadTypes'
  <2>1. CoordTypes'
    BY <1>1, <1>2, <1>3 DEF CoordTypes
  <2>2. DeviceTypes' /\ StatusTypes' /\ ThreadTypes'
    BY <1>1, <1>3 DEF DeviceTypes, StatusTypes, ThreadTypes, deviceVars
  <2> QED  BY <2>1, <2>2
<1>5. \A t \in Thread : /\ PageOf(t)' = PageOf(t)
                        /\ Active(t)' <=> Active(t)
  BY <1>3 DEF PageOf, Active
<1>6. StripeInOrder'
  <2> SUFFICES ASSUME NEW t \in Thread
               PROVE  /\ Active(t) => Started(t)'
                      /\ Active(t) \/ Started(t)' =>
                           /\ thread[t].slot = j + t
                           /\ thread[t].index = i + (j + t)
                           /\ thread[t].page = PageOf(t)
    BY <1>2, <1>3, <1>5 DEF StripeInOrder
  <2>0. t \in 0 .. (max_os_threads - 1) /\ k \in 0 .. (max_os_threads - 1)
    BY <1>1 DEF Thread
  <2>1. Active(t) => t # k
    BY <1>3 DEF Active
  <2>2. Active(t) => t >= k
    BY <1>1, <1>2 DEF StripeInOrder, Started
  <2>3. Active(t) => Started(t)'
    BY <1>2, <2>0, <2>1, <2>2 DEF Started
  <2>4. Started(t)' => Started(t)
    BY <1>2, <2>0 DEF Started
  <2> QED  BY <1>1, <1>2, <2>3, <2>4 DEF StripeInOrder, Running
<1>7. BuffersFilled'
  <2>1. batch_pages' = batch_pages
    BY <1>3 DEF batch_pages
  <2> SUFFICES ASSUME NEW s \in 0 .. (nchunk - 1), Unjoined(s)', s < batch_pages
               PROVE  buffer'[s] = i + s
    BY <1>3, <2>1 DEF BuffersFilled
  <2>0. k \in 0 .. (max_os_threads - 1)
    BY <1>1 DEF Thread
  <2>2. s >= j + k + 1
    <3>1. j' = j /\ j \in Nat /\ s \in Nat
      BY <1>1, <1>3
    <3>2. CASE k' = k + 1 /\ pc' = "join"
      BY <2>0, <3>1, <3>2 DEF Unjoined
    <3>3. CASE k = max_os_threads - 1 /\ pc' = "advance"
      BY <2>0, <3>1, <3>3 DEF Unjoined
    <3> QED  BY <1>2, <3>2, <3>3
  <2>3. Unjoined(s)
    BY <1>1, <1>2, <2>0, <2>2 DEF Unjoined
  <2>4. thread[k].slot = j + k
    BY <1>1, <1>2 DEF StripeInOrder, Started, Running, Thread
  <2>5. s # thread[k].slot
    BY <1>1, <2>0, <2>2, <2>4
  <2>6. buffer'[s] = buffer[s]
    BY <1>1, <1>3, <2>5
  <2> QED  BY <2>3, <2>6 DEF WriterInv, BuffersFilled
<1>8. PointersWhole'
  BY <1>3 DEF WriterInv, PointersWhole, Whole
<1> QED  BY <1>4, <1>6, <1>7, <1>8 DEF WriterInv

LEMMA AdvanceKeepsWriter ==
  ASSUME WriterInv, Advance
  PROVE  WriterInv'
<1>1. /\ CoordTypes /\ DeviceTypes /\ StatusTypes /\ ThreadTypes /\ StripeInOrder
      /\ PointersWhole
      /\ k \in Thread /\ j \in Nat /\ i \in Nat /\ call.channel \in Channel
      /\ channel_current_pointer \in [Channel -> Nat]
  BY DEF WriterInv, CoordTypes
<1> DEFINE next == NextPointer(call.channel, max_os_threads * lun_width)
<1>2. /\ pc = "advance" /\ j' = j + max_os_threads
      /\ channel_current_pointer' = [channel_current_pointer EXCEPT ![call.channel] = next]
      /\ \/ pc' = "launch" /\ i' = i
         \/ pc' = "fill" /\ i' = i + nchunk
      /\ UNCHANGED <<call, k, buffer, deviceVars, thread, writes, status>>
  BY DEF Advance
<1>3. Whole(next) /\ next \in Nat
  <2>1. Whole(max_os_threads * lun_width)
    BY WholeChunk, WholeTimes
  <2> QED  BY <1>1, <2>1, NextPointerWhole DEF PointersWhole
<1> HIDE DEF next
<1>4. CoordTypes'
  <2>1. j' \in Nat /\ i' \in Nat
    BY <1>1, <1>2
  <2> QED  BY <1>1, <1>2, <1>3, <2>1 DEF CoordTypes
<1>5. DeviceTypes' /\ StatusTypes' /\ ThreadTypes'
  BY <1>1, <1>2 DEF DeviceTypes, StatusTypes, ThreadTypes, deviceVars
<1>6. StripeInOrder'
  <2>1. \A t \in Thread : ~Active(t)
    BY <1>1, <1>2 DEF StripeInOrder, Started
  <2>2. \A t \in Thread : ~Active(t)'
    BY <1>2, <2>1 DEF Active
  <2>3. \A t \in Thread : ~Started(t)'
    <3>1. k' = 0 /\ pc' # "join"
      BY <1>1, <1>2 DEF StripeInOrder
    <3> QED  BY <3>1 DEF Started, Thread
  <2> QED  BY <1>2, <2>2, <2>3 DEF StripeInOrder
<1>7. BuffersFilled'
  <2> SUFFICES ASSUME NEW s \in 0 .. (nchunk - 1), Unjoined(s)', s < batch_pages'
               PROVE  buffer'[s] = i' + s
    BY DEF BuffersFilled
  <2>1. pc' = "launch" /\ i' = i /\ s >= j + max_os_threads
    BY <1>2 DEF Unjoined
  <2>2. batch_pages' = batch_pages
    BY <1>2, <2>1 DEF batch_pages
  <2>3. Unjoined(s)
    BY <1>2, <2>1 DEF Unjoined
  <2> QED  BY <1>2, <2>1, <2>2, <2>3 DEF WriterInv, BuffersFilled
<1>8. PointersWhole'
  <2> SUFFICES ASSUME NEW c \in Channel PROVE Whole(channel_current_pointer'[c])
    BY DEF PointersWhole, Whole
  <2>1. channel_current_pointer'[c] = IF c = call.channel THEN next
                                      ELSE channel_current_pointer[c]
    BY <1>1, <1>2
  <2> QED  BY <1>1, <1>3, <2>1 DEF PointersWhole
<1> QED  BY <1>4, <1>5, <1>6, <1>7, <1>8 DEF WriterInv

\* A step of a thread: the coordinator's state stays, the thread goes on or the process
\* ends, and no buffer, page or LUN is another one.
LEMMA WorkKeepsWriter ==
  ASSUME WriterInv, NEW t \in Thread, Active(t), UNCHANGED coordVars,
         DeviceTypes', StatusTypes', ThreadTypes',
         \/ thread' = thread
         \/ \E to \in ThreadStates, n \in Nat :
              thread' = [thread EXCEPT ![t].state = to, ![t].seen = n],
         status' # status => status' # "running"
  PROVE  WriterInv'
<1>1. /\ CoordTypes /\ ThreadTypes /\ StripeInOrder
      /\ UNCHANGED <<pc, call, i, j, k, buffer, channel_current_pointer>>
  BY DEF WriterInv, coordVars
<1>2. CoordTypes' /\ PointersWhole'
  BY <1>1 DEF WriterInv, CoordTypes, PointersWhole, Whole
<1>3. \A s \in Thread : /\ thread'[s].slot = thread[s].slot
                        /\ thread'[s].index = thread[s].index
                        /\ thread'[s].page = thread[s].page
                        /\ Active(s)' => Active(s)
  <2>1. CASE thread' = thread
    BY <2>1 DEF Active
  <2>2. ASSUME NEW to \in ThreadStates, NEW n \in Nat,
               thread' = [thread EXCEPT ![t].state = to, ![t].seen = n]
        PROVE  \A s \in Thread : /\ thread'[s].slot = thread[s].slot
                                 /\ thread'[s].index = thread[s].index
                                 /\ thread'[s].page = thread[s].page
                                 /\ Active(s)' => Active(s)
    <3> TAKE s \in Thread
    <3>1. CASE s = t
      <4>1. thread'[s] = [thread[s] EXCEPT !.state = to, !.seen = n]
        BY <1>1, <2>2, <3>1 DEF ThreadTypes
      <4> QED  BY <1>1, <3>1, <4>1 DEF ThreadTypes
    <3>2. CASE s # t
      <4>1. thread'[s] = thread[s]
        BY <1>1, <2>2, <3>2 DEF ThreadTypes
      <4> QED  BY <4>1 DEF Active
    <3> QED  BY <3>1, <3>2
  <2> QED  BY <2>1, <2>2
<1>4. StripeInOrder'
  <2> SUFFICES ASSUME NEW s \in Thread
               PROVE  /\ Active(s)' => Started(s)'
                      /\ Active(s)' \/ (Running' /\ Started(s)') =>
                           /\ thread'[s].slot = j + s
                           /\ thread'[s].index = i + (j + s)
                           /\ thread'[s].page = PageOf(s)'
    BY <1>1 DEF StripeInOrder
  <2>1. (Started(s)' <=> Started(s)) /\ PageOf(s)' = PageOf(s)
    BY <1>1 DEF Started, PageOf
  <2>2. Running' => Running
    BY DEF Running
  <2> QED  BY <1>1, <1>3, <2>1, <2>2 DEF StripeInOrder
<1>5. BuffersFilled'
  <2>1. batch_pages' = batch_pages
    BY <1>1 DEF batch_pages
  <2> QED  BY <1>1, <2>1 DEF WriterInv, BuffersFilled, Unjoined
<1> QED  BY <1>2, <1>4, <1>5 DEF WriterInv

\* The thread's record after a step that sets its state and what it has seen.
LEMMA GoneOn ==
  ASSUME ThreadTypes, NEW t \in Thread, NEW to \in ThreadStates
  PROVE  /\ Goto(t, to) => \E n \in Nat :
              thread' = [thread EXCEPT ![t].state = to, ![t].seen = n]
         /\ Goto(t, to) => ThreadTypes'
         /\ \A n \in Nat : thread' = [thread EXCEPT ![t].state = to, ![t].seen = n]
                             => ThreadTypes'
<1>1. thread[t].seen \in Nat
  BY DEF ThreadTypes
<1>2. [thread EXCEPT ![t].state = to]
        = [thread EXCEPT ![t].state = to, ![t].seen = thread[t].seen]
  BY DEF ThreadTypes
<1>3. \A n \in Nat : thread' = [thread EXCEPT ![t].state = to, ![t].seen = n] => ThreadTypes'
  <2> SUFFICES ASSUME NEW n \in Nat,
                      thread' = [thread EXCEPT ![t].state = to, ![t].seen = n]
               PROVE  ThreadTypes'
    OBVIOUS
  <2>1. thread' = [thread EXCEPT ![t] = [thread[t] EXCEPT !.state = to, !.seen = n]]
    BY DEF ThreadTypes
  <2>2. [thread[t] EXCEPT !.state = to, !.seen = n]
          \in [state : ThreadStates, slot : Nat, page : Nat \cup {NoPage},
               index : Nat \cup {NoPage}, seen : Nat]
    BY DEF ThreadTypes
  <2> QED  BY <2>1, <2>2 DEF ThreadTypes
<1> QED  BY <1>1, <1>2, <1>3 DEF Goto

LEMMA WriteKeepsWriter ==
  ASSUME WriterInv, NEW t \in Thread, Write(t)
  PROVE  WriterInv'
<1>1. /\ CoordTypes /\ DeviceTypes /\ StatusTypes /\ ThreadTypes /\ StripeInOrder
      /\ PointersWhole /\ Active(t) /\ UNCHANGED coordVars /\ writes' = writes
  BY DEF WriterInv, Write, Active
<1> DEFINE page == thread[t].page
           c == page \div nsectr
<1>2. \/ /\ Accepts(page) /\ wp' = [wp EXCEPT ![c] = @ + ws_min] /\ Goto(t, "load")
         /\ status' = status
      \/ /\ status' \in {"refused", "exited"} /\ wp' = wp /\ thread' = thread
  BY DEF Write, End, deviceVars
<1>3. Whole(page)
  <2>1. t \in Nat /\ call.channel \in Channel
    BY <1>1 DEF Thread, CoordTypes
  <2>2. Whole(channel_current_pointer[call.channel]) /\ Whole(t * lun_width)
    BY <1>1, <2>1, WholeChunk, WholeTimes DEF PointersWhole
  <2>3. page = PageOf(t)
    BY <1>1 DEF StripeInOrder
  <2> QED  BY <2>2, <2>3, WholeSum DEF PageOf
<1>4. DeviceTypes'
  <2>1. CASE Accepts(page) /\ wp' = [wp EXCEPT ![c] = @ + ws_min]
    <3>1. c \in Chunk /\ wp[c] = page % nsectr
      BY <2>1 DEF Accepts
    <3>2. Whole(page % nsectr) /\ (page % nsectr) \in 0 .. (nsectr - 1)
      BY <1>3, WholeChunk, WholeMod
    <3>3. wp[c] + ws_min <= nsectr
      BY <3>1, <3>2, WholeChunk, WholeFits
    <3>4. wp[c] + ws_min \in 0 .. nsectr
      BY <1>1, <3>1, <3>3 DEF DeviceTypes
    <3> HIDE DEF c, page
    <3> QED  BY <1>1, <2>1, <3>4 DEF DeviceTypes
  <2>2. CASE wp' = wp
    BY <1>1, <2>2 DEF DeviceTypes
  <2> QED  BY <1>2, <2>1, <2>2
<1>5. StatusTypes'
  BY <1>1, <1>2 DEF StatusTypes
<1>6. CASE Goto(t, "load") /\ status' = status
  BY <1>1, <1>4, <1>5, <1>6, GoneOn, WorkKeepsWriter DEF ThreadStates
<1>7. CASE status' \in {"refused", "exited"} /\ thread' = thread
  <2>1. ThreadTypes'
    BY <1>1, <1>7 DEF ThreadTypes
  <2> QED  BY <1>1, <1>4, <1>5, <1>7, <2>1, WorkKeepsWriter
<1> QED  BY <1>2, <1>6, <1>7

LEMMA LoadKeepsWriter ==
  ASSUME WriterInv, NEW t \in Thread, LoadWrites(t)
  PROVE  WriterInv'
<1>1. /\ DeviceTypes' /\ StatusTypes' /\ ThreadTypes /\ Active(t) /\ UNCHANGED coordVars
      /\ writes \in Nat /\ status' = status
      /\ thread' = [thread EXCEPT ![t].state = "store", ![t].seen = writes]
  BY DEF WriterInv, LoadWrites, Active, DeviceTypes, StatusTypes, deviceVars
<1>2. ThreadTypes'
  BY <1>1, GoneOn DEF ThreadStates
<1> QED  BY <1>1, <1>2, WorkKeepsWriter DEF ThreadStates

LEMMA StoreKeepsWriter ==
  ASSUME WriterInv, NEW t \in Thread, StoreWrites(t)
  PROVE  WriterInv'
<1>1. /\ DeviceTypes' /\ ThreadTypes /\ Active(t) /\ UNCHANGED coordVars
      /\ status' = status /\ Goto(t, "verify")
  BY DEF WriterInv, StoreWrites, Active, DeviceTypes, deviceVars
<1>2. StatusTypes'
  <2>1. thread[t].seen \in Nat
    BY <1>1 DEF ThreadTypes
  <2> QED  BY <1>1, <2>1 DEF WriterInv, StoreWrites, StatusTypes
<1> QED  BY <1>1, <1>2, GoneOn, WorkKeepsWriter DEF ThreadStates

LEMMA VerifyKeepsWriter ==
  ASSUME WriterInv, NEW t \in Thread, Verify(t)
  PROVE  WriterInv'
<1>1. /\ DeviceTypes' /\ StatusTypes' /\ ThreadTypes /\ Active(t) /\ UNCHANGED coordVars
      /\ \/ Goto(t, "done") /\ status' = status
         \/ status' = "exited" /\ thread' = thread
  BY DEF WriterInv, Verify, Active, DeviceTypes, StatusTypes, deviceVars, End
<1>2. CASE Goto(t, "done") /\ status' = status
  BY <1>1, <1>2, GoneOn, WorkKeepsWriter DEF ThreadStates
<1>3. CASE status' = "exited" /\ thread' = thread
  <2>1. ThreadTypes'
    BY <1>1, <1>3 DEF ThreadTypes
  <2> QED  BY <1>1, <1>3, <2>1, WorkKeepsWriter
<1> QED  BY <1>1, <1>2, <1>3

LEMMA NextKeepsWriter ==
  ASSUME WriterInv, [Next]_vars
  PROVE  WriterInv'
<1>1. ASSUME NEW c \in Channel, NEW n \in RunPages, Call(c, n) PROVE WriterInv'
  BY <1>1, CallKeepsWriter
<1>2. CASE Coordinate
  BY <1>2, FillKeepsWriter, ReturnKeepsWriter, LaunchKeepsWriter, JoinKeepsWriter,
     AdvanceKeepsWriter DEF Coordinate
<1>3. ASSUME NEW t \in Thread, Work(t) PROVE WriterInv'
  BY <1>3, WriteKeepsWriter, LoadKeepsWriter, StoreKeepsWriter, VerifyKeepsWriter DEF Work
<1>4. CASE UNCHANGED vars
  <2>1. /\ UNCHANGED <<pc, call, i, j, k, buffer, channel_current_pointer>>
        /\ UNCHANGED <<wp, thread, writes, status>>
    BY <1>4 DEF vars, coordVars, deviceVars
  <2>2. CoordTypes' /\ DeviceTypes' /\ StatusTypes' /\ ThreadTypes'
    BY <2>1 DEF WriterInv, CoordTypes, DeviceTypes, StatusTypes, ThreadTypes
  <2>3. StripeInOrder'
    BY <2>1 DEF WriterInv, StripeInOrder, Active, Started, Running, PageOf
  <2>4. batch_pages' = batch_pages
    BY <2>1 DEF batch_pages
  <2>5. BuffersFilled' /\ PointersWhole'
    BY <2>1, <2>4 DEF WriterInv, BuffersFilled, Unjoined, PointersWhole, Whole
  <2> QED  BY <2>2, <2>3, <2>5 DEF WriterInv
<1> QED  BY <1>1, <1>2, <1>3, <1>4 DEF Next

LEMMA WriterInvHolds == Spec => []WriterInv
BY InitEstablishesWriter, NextKeepsWriter, PTL DEF Spec

-----------------------------------------------------------------------------
\* The state stays well formed; in particular no chunk is written beyond its end,
\* whatever pages the threads are given (parallel_writer.cpp:24-60).
THEOREM WriterTypesAreKept == Spec => []TypeOK
<1>1. WriterInv => TypeOK
  BY DEF WriterInv, CoordTypes, DeviceTypes, StatusTypes, TypeOK
<1> QED  BY <1>1, WriterInvHolds, PTL

\* For every number of threads and length of a run: while a thread runs, the buffer it
\* was given holds its page (parallel_writer.cpp:225-253).
THEOREM BuffersAreKept == Spec => []BuffersOutliveThreads
<1>1. WriterInv => BuffersOutliveThreads
  <2> SUFFICES ASSUME WriterInv, NEW t \in Thread, Active(t), thread[t].slot < batch_pages
               PROVE  buffer[thread[t].slot] = thread[t].index
    BY DEF BuffersOutliveThreads
  <2>1. Started(t) /\ thread[t].slot = j + t /\ thread[t].index = i + (j + t)
    BY DEF WriterInv, StripeInOrder
  <2>2. t \in Nat /\ j \in Nat /\ i \in Nat /\ k \in Nat /\ call.pages \in Nat
    <3>1. t \in Nat /\ j \in Nat /\ i \in Nat /\ k \in Nat
      BY DEF WriterInv, CoordTypes, Thread
    <3>2. RunPages \cup {0} \subseteq Nat
      OBVIOUS
    <3> QED  BY <3>1, <3>2 DEF WriterInv, CoordTypes
  <2>3. batch_pages \in Int /\ batch_pages <= nchunk
    BY <2>2, BatchBound
  <2>4. j + t \in 0 .. (nchunk - 1)
    BY <2>1, <2>2, <2>3
  <2>5. Unjoined(j + t)
    BY <2>1, <2>2 DEF Started, Unjoined
  <2> QED  BY <2>1, <2>4, <2>5 DEF WriterInv, BuffersFilled
<1> QED  BY <1>1, WriterInvHolds, PTL

\* For every geometry: threads that run at the same time write to different LUNs
\* (parallel_writer.cpp:228-236).
THEOREM LUNsAreNotShared == Spec => []ThreadsOnOwnLUNs
<1>1. WriterInv => ThreadsOnOwnLUNs
  <2> SUFFICES ASSUME WriterInv, NEW s \in Thread, NEW t \in Thread, s # t, Active(s), Active(t)
               PROVE  thread[s].page \div lun_width # thread[t].page \div lun_width
    BY DEF ThreadsOnOwnLUNs
  <2>1. thread[s].page = PageOf(s) /\ thread[t].page = PageOf(t)
    BY DEF WriterInv, StripeInOrder
  <2> DEFINE p == channel_current_pointer[call.channel]
  <2>2. p \in Nat /\ s \in Nat /\ t \in Nat
    BY DEF WriterInv, CoordTypes, Thread
  <2> HIDE DEF p
  <2>3. /\ (p + s * lun_width) \div lun_width = p \div lun_width + s
        /\ (p + t * lun_width) \div lun_width = p \div lun_width + t
    BY <2>2, LUNOfThread
  <2>4. p \div lun_width \in Nat
    BY <2>2, Widths, QuotientAndRemainder
  <2>5. p \div lun_width + s # p \div lun_width + t
    BY <2>2, <2>4
  <2> QED  BY <2>1, <2>3, <2>5 DEF PageOf, p
<1> QED  BY <1>1, WriterInvHolds, PTL

-----------------------------------------------------------------------------
(* Where the pages of a channel lie.                                       *)

\* The stripes fit the channels: a channel has its LUNs in whole stripes (main.cpp:123 has
\* two threads), and the last channel starts within the first LUN (main.cpp:116-121).
StripesFit ==
  /\ npunit % max_os_threads = 0
  /\ \A c \in Channel : StartOf(c) < lun_width

\* The LUNs channel c goes through: up to the end of it, from the first one on.
Luns(c) == (c + 1) * npunit

\* The n-th page of channel c.
Place(c, n) == (n % Luns(c)) * lun_width + (StartOf(c) + (n \div Luns(c)) * ws_min)

\* Where in a LUN the pages of the next channel begin.
EndOf(c) == IF c + 1 \in Channel THEN StartOf(c + 1) ELSE lun_width

LEMMA LunsType ==
  ASSUME NEW c \in Channel
  PROVE  /\ c \in Nat /\ Luns(c) \in Nat \ {0}
         /\ (c + 1) * channel_width = Luns(c) * lun_width
         /\ Luns(c) * lun_width \in Nat \ {0}
<1>1. c \in Nat /\ c + 1 \in Nat \ {0} /\ npunit \in Nat \ {0}
  BY DEF Channel
<1>2. Luns(c) \in Nat \ {0}
  BY <1>1, ProductOfNats DEF Luns
<1>3. lun_width \in Nat \ {0}
  BY Widths
<1>4. \A x, y, z \in Nat : x * (y * z) = (x * z) * y
  OBVIOUS
<1>5. (c + 1) * (lun_width * npunit) = ((c + 1) * npunit) * lun_width
  BY <1>1, <1>3, <1>4
<1> QED  BY <1>1, <1>2, <1>3, <1>5, ProductOfNats DEF Luns, channel_width

LEMMA DifferenceIsWhole ==
  ASSUME NEW a, NEW b, Whole(a), Whole(b), a <= b
  PROVE  \E n \in Nat : b = a + n * ws_min
<1>1. PICK m \in Nat : a = m * ws_min
  BY DEF Whole
<1>2. PICK n \in Nat : b = n * ws_min
  BY DEF Whole
<1>3. m <= n
  <2>1. ASSUME n < m PROVE FALSE
    <3>1. n + 1 <= m
      BY <2>1
    <3>2. (n + 1) * ws_min <= m * ws_min /\ (n + 1) * ws_min = n * ws_min + ws_min
      BY <3>1
    <3> DEFINE x == n * ws_min  y == m * ws_min
    <3>3. x \in Nat /\ y \in Nat /\ x + ws_min <= y /\ y <= x /\ ws_min \in Nat \ {0}
      BY <1>1, <1>2, <3>2
    <3> HIDE DEF x, y
    <3> QED  BY <3>3
  <2> QED  BY <2>1
<1>4. n - m \in Nat /\ m * ws_min + (n - m) * ws_min = n * ws_min
  BY <1>3
<1> QED  BY <1>1, <1>2, <1>4

LEMMA EndsOrdered ==
  ASSUME StripesFit, NEW c \in Channel
  PROVE  /\ StartOf(c) \in Nat /\ EndOf(c) \in Nat /\ StartOf(c) <= EndOf(c)
         /\ EndOf(c) <= lun_width /\ Whole(StartOf(c)) /\ Whole(EndOf(c))
         /\ \A d \in Channel : c < d => EndOf(c) <= StartOf(d)
<1> DEFINE step == npugrp * (npunit * nsectr)
<1>1. step \in Nat
  BY ProductOfNats
<1>2. \A d \in Channel : /\ d \in Nat /\ StartOf(d) = d * step
                        /\ StartOf(d) \in Nat /\ Whole(StartOf(d))
  <2> TAKE d \in Channel
  <2>1. d \in Nat
    BY DEF Channel
  <2> QED  BY <2>1, StartsWhole DEF StartOf
<1>3. lun_width \in Nat /\ Whole(lun_width)
  BY Widths, WholeChunk
<1> HIDE DEF step
<1>4. \A d \in Nat : (d + 1) * step = d * step + step /\ d * step \in Nat
  BY <1>1
<1>5. \A d, e \in Nat : d <= e => d * step <= e * step
  BY <1>1
<1>6. CASE c + 1 \in Channel
  <2>1. EndOf(c) = StartOf(c + 1) /\ StartOf(c + 1) = StartOf(c) + step
    BY <1>2, <1>4, <1>6 DEF EndOf
  <2>2. StartOf(c + 1) < lun_width
    BY <1>6 DEF StripesFit
  <2>3. ASSUME NEW d \in Channel, c < d PROVE EndOf(c) <= StartOf(d)
    <3>1. c + 1 <= d /\ c + 1 \in Nat /\ d \in Nat
      BY <1>2, <2>3
    <3>2. (c + 1) * step <= d * step
      BY <1>5, <3>1
    <3> QED  BY <1>2, <1>6, <2>1, <3>2
  <2>4. StartOf(c) \in Nat /\ StartOf(c + 1) \in Nat /\ Whole(StartOf(c)) /\ Whole(StartOf(c + 1))
    BY <1>2, <1>6
  <2> QED  BY <1>1, <1>3, <2>1, <2>2, <2>3, <2>4
<1>7. CASE c + 1 \notin Channel
  <2>1. EndOf(c) = lun_width
    BY <1>7 DEF EndOf
  <2>2. StartOf(c) < lun_width
    BY DEF StripesFit
  <2>3. ASSUME NEW d \in Channel, c < d PROVE FALSE
    BY <1>7, <2>3 DEF Channel
  <2> QED  BY <1>2, <1>3, <2>1, <2>2, <2>3
<1> QED  BY <1>6, <1>7

\* A channel has room for whole rows of its LUNs.
LEMMA RoomIsRows ==
  ASSUME StripesFit, NEW c \in Channel
  PROVE  \E rows \in Nat : /\ RoomOf(c) = rows * Luns(c)
                           /\ EndOf(c) = StartOf(c) + rows * ws_min
<1>1. PICK rows \in Nat : EndOf(c) = StartOf(c) + rows * ws_min
  BY EndsOrdered, DifferenceIsWhole
<1>2. lun_width \in Nat \ {0} /\ Luns(c) \in Nat \ {0} /\ ws_min \in Nat \ {0}
  BY Widths, LunsType
<1>3. ASSUME NEW d \in Channel PROVE (StartOf(d) % lun_width) = StartOf(d)
  <2>1. StartOf(d) \in Nat /\ StartOf(d) < lun_width
    BY StartsWhole DEF StripesFit
  <2> QED  BY <1>2, <2>1
<1> DEFINE last == IF c + 1 \in Channel THEN StartOf(c + 1) % lun_width ELSE lun_width
<1>4. last = EndOf(c)
  BY <1>3 DEF EndOf
<1>5. RoomOf(c) = (Luns(c) * (last - (StartOf(c) % lun_width))) \div ws_min
  BY DEF RoomOf, Luns
<1>6. last - (StartOf(c) % lun_width) = rows * ws_min
  <2>1. StartOf(c) \in Nat /\ rows * ws_min \in Nat
    BY <1>2, StartsWhole
  <2> HIDE DEF last
  <2> QED  BY <1>1, <1>3, <1>4, <2>1
<1> HIDE DEF last
<1>7. Luns(c) * (rows * ws_min) = ws_min * (rows * Luns(c)) + 0 /\ rows * Luns(c) \in Nat
  BY <1>2
<1>8. (ws_min * (rows * Luns(c)) + 0) \div ws_min = rows * Luns(c)
  BY <1>2, <1>7, RemainderIsUnique
<1> QED  BY <1>1, <1>5, <1>6, <1>7, <1>8

\* Page n is in row r of LUN l.
LEMMA PlaceInRow ==
  ASSUME NEW c \in Channel, NEW r \in Nat, NEW l \in 0 .. (Luns(c) - 1)
  PROVE  /\ Luns(c) * r + l \in Nat
         /\ Place(c, Luns(c) * r + l) = l * lun_width + (StartOf(c) + r * ws_min)
<1>1. Luns(c) \in Nat \ {0}
  BY LunsType
<1>2. ((Luns(c) * r + l) % Luns(c)) = l /\ ((Luns(c) * r + l) \div Luns(c)) = r
  BY <1>1, RemainderIsUnique
<1>3. Luns(c) * r + l \in Nat
  BY <1>1, ProductOfNats
<1> QED  BY <1>2, <1>3 DEF Place

LEMMA RowOf ==
  ASSUME NEW c \in Channel, NEW n \in Nat
  PROVE  \E r \in Nat, l \in 0 .. (Luns(c) - 1) :
           /\ n = Luns(c) * r + l /\ l = (n % Luns(c))
           /\ Place(c, n) = l * lun_width + (StartOf(c) + r * ws_min)
<1>1. Luns(c) \in Nat \ {0}
  BY LunsType
<1>2. n \div Luns(c) \in Nat /\ (n % Luns(c)) \in 0 .. (Luns(c) - 1)
      /\ n = Luns(c) * (n \div Luns(c)) + (n % Luns(c))
  BY <1>1, QuotientAndRemainder
<1> QED  BY <1>2 DEF Place

\* As long as there is room, the row lies in the part of the LUN that is the channel's.
LEMMA RowInChannel ==
  ASSUME StripesFit, NEW c \in Channel, NEW r \in Nat, NEW l \in Nat,
         Luns(c) * r + l < RoomOf(c)
  PROVE  /\ StartOf(c) + r * ws_min \in Nat
         /\ StartOf(c) + r * ws_min < EndOf(c) /\ StartOf(c) + r * ws_min < lun_width
<1>1. PICK rows \in Nat : /\ RoomOf(c) = rows * Luns(c)
                          /\ EndOf(c) = StartOf(c) + rows * ws_min
  BY RoomIsRows
<1>2. Luns(c) \in Nat \ {0} /\ ws_min \in Nat \ {0} /\ StartOf(c) \in Nat
  BY LunsType, StartsWhole
<1>3. r < rows
  <2>1. ASSUME rows <= r PROVE FALSE
    <3>1. rows * Luns(c) <= r * Luns(c) /\ r * Luns(c) = Luns(c) * r
      BY <1>2, <2>1
    <3> DEFINE x == rows * Luns(c)  y == Luns(c) * r
    <3>2. x \in Nat /\ y \in Nat /\ x <= y /\ y + l < x
      BY <1>1, <1>2, <3>1
    <3> HIDE DEF x, y
    <3> QED  BY <3>2
  <2> QED  BY <2>1
<1>4. r * ws_min < rows * ws_min /\ r * ws_min \in Nat /\ rows * ws_min \in Nat
  <2>1. (r + 1) * ws_min <= rows * ws_min /\ (r + 1) * ws_min = r * ws_min + ws_min
    BY <1>2, <1>3
  <2> DEFINE x == r * ws_min  y == rows * ws_min
  <2>2. x \in Nat /\ y \in Nat /\ x + ws_min <= y
    BY <1>2, <2>1
  <2> HIDE DEF x, y
  <2>3. x < y
    BY <1>2, <2>2
  <2> QED  BY <2>2, <2>3 DEF x, y
<1> DEFINE x == r * ws_min  y == rows * ws_min
<1>5. x < y /\ x \in Nat /\ y \in Nat /\ EndOf(c) = StartOf(c) + y
  BY <1>1, <1>4
<1>6. EndOf(c) <= lun_width /\ lun_width \in Nat
  BY EndsOrdered, Widths
<1> HIDE DEF x, y
<1>7. StartOf(c) + x \in Nat /\ StartOf(c) + x < EndOf(c) /\ StartOf(c) + x < lun_width
  BY <1>2, <1>5, <1>6
<1> QED  BY <1>7 DEF x

LEMMA InTheRow ==
  ASSUME NEW c \in Channel, NEW n \in Nat, NEW t \in Nat, (n % Luns(c)) + t < Luns(c)
  PROVE  Place(c, n + t) = Place(c, n) + t * lun_width
<1>1. PICK r \in Nat, l \in 0 .. (Luns(c) - 1) :
        /\ n = Luns(c) * r + l /\ l = (n % Luns(c))
        /\ Place(c, n) = l * lun_width + (StartOf(c) + r * ws_min)
  BY RowOf
<1>2. Luns(c) \in Nat \ {0} /\ lun_width \in Nat /\ StartOf(c) \in Nat
  BY LunsType, Widths, StartsWhole
<1>3. l + t \in 0 .. (Luns(c) - 1)
  BY <1>1, <1>2
<1>4. Place(c, Luns(c) * r + (l + t)) = (l + t) * lun_width + (StartOf(c) + r * ws_min)
  BY <1>3, PlaceInRow
<1>5. (l + t) * lun_width = l * lun_width + t * lun_width
  BY <1>1, <1>2
<1> DEFINE a == Luns(c) * r  x == l * lun_width  y == t * lun_width  z == r * ws_min
<1>6. a \in Nat /\ x \in Nat /\ y \in Nat /\ z \in Nat
  BY <1>1, <1>2, ProductOfNats
<1>7. n + t = a + (l + t)
  <2> HIDE DEF a
  <2>1. n = a + l
    BY <1>1 DEF a
  <2> QED  BY <1>2, <1>6, <2>1
<1>8. Place(c, n + t) = (x + y) + (StartOf(c) + z) /\ Place(c, n) = x + (StartOf(c) + z)
  BY <1>1, <1>4, <1>5, <1>7
<1> HIDE DEF a, x, z, y
<1>9. Place(c, n + t) = Place(c, n) + y
  BY <1>2, <1>6, <1>8
<1> QED  BY <1>9 DEF y

\* A step of m LUNs, which ends at the end of the channel at the most.
LEMMA PointerStep ==
  ASSUME StripesFit, NEW c \in Channel, NEW n \in Nat, n < RoomOf(c),
         NEW m \in Nat \ {0}, (n % Luns(c)) + m <= Luns(c),
         NEW next, next = Place(c, n) + m * lun_width
  PROVE  Place(c, n + m) = IF next >= (c + 1) * channel_width
                           THEN (next % ((c + 1) * channel_width)) + ws_min ELSE next
<1>1. PICK r \in Nat, l \in 0 .. (Luns(c) - 1) :
        /\ n = Luns(c) * r + l /\ l = (n % Luns(c))
        /\ Place(c, n) = l * lun_width + (StartOf(c) + r * ws_min)
  BY RowOf
<1>2. /\ Luns(c) \in Nat \ {0} /\ lun_width \in Nat \ {0} /\ StartOf(c) \in Nat
      /\ (c + 1) * channel_width = Luns(c) * lun_width
  BY LunsType, Widths, StartsWhole
<1> DEFINE off == StartOf(c) + r * ws_min
           limit == Luns(c) * lun_width
<1>3. off \in 0 .. (lun_width - 1)
  <2>1. off \in Nat /\ off < lun_width
    BY <1>1, RowInChannel
  <2> HIDE DEF off
  <2> QED  BY <1>2, <2>1
<1>4. l + m <= Luns(c) /\ l \in Nat /\ Luns(c) \in Nat
  BY <1>1, <1>2
<1>5. next = (l + m) * lun_width + off
  <2>1. (l + m) * lun_width = l * lun_width + m * lun_width
    BY <1>2, <1>4
  <2> DEFINE x == l * lun_width  y == m * lun_width
  <2>2. x \in Nat /\ y \in Nat /\ next = (x + off) + y /\ (l + m) * lun_width = x + y
    BY <1>1, <1>2, <1>4, <2>1, ProductOfNats
  <2> HIDE DEF x, y, off
  <2>3. next = (x + y) + off
    BY <1>3, <2>2
  <2> QED  BY <2>2, <2>3
<1>6. CASE l + m < Luns(c)
  <2>1. Place(c, n + m) = next
    BY <1>1, <1>6, InTheRow
  <2>2. ~ (next >= limit)
    <3>1. (l + m) + 1 <= Luns(c) /\ (l + m) + 1 \in Nat
      BY <1>2, <1>4, <1>6
    <3>2. ((l + m) + 1) * lun_width <= Luns(c) * lun_width
      BY <1>2, <3>1
    <3>3. ((l + m) + 1) * lun_width = (l + m) * lun_width + lun_width
      BY <1>2, <1>4
    <3> DEFINE x == (l + m) * lun_width
    <3>4. x \in Nat /\ limit \in Nat /\ x + lun_width <= limit /\ next = x + off
      BY <1>2, <1>4, <1>5, <3>2, <3>3, ProductOfNats
    <3> HIDE DEF x, limit, off
    <3> QED  BY <1>2, <1>3, <3>4
  <2> QED  BY <1>2, <2>1, <2>2
<1>7. CASE l + m = Luns(c)
  <2>1. limit \in Nat \ {0} /\ lun_width <= limit
    <3>1. 1 * lun_width <= Luns(c) * lun_width
      BY <1>2
    <3> QED  BY <1>2, <3>1, ProductOfNats
  <2>2. next = limit * 1 + off /\ off \in 0 .. (limit - 1)
    <3>1. next = limit + off
      BY <1>5, <1>7
    <3> HIDE DEF limit, off
    <3> QED  BY <1>2, <1>3, <2>1, <3>1
  <2>3. (next % limit) = off
    <3> HIDE DEF limit, off
    <3> QED  BY <2>1, <2>2, RemainderIsUnique
  <2>4. next >= limit
    <3> HIDE DEF limit, off
    <3> QED  BY <2>1, <2>2
  <2>5. 0 \in 0 .. (Luns(c) - 1) /\ r + 1 \in Nat
    BY <1>2
  <2>6. Place(c, Luns(c) * (r + 1) + 0) = 0 * lun_width + (StartOf(c) + (r + 1) * ws_min)
    BY <2>5, PlaceInRow
  <2>7. Luns(c) * (r + 1) + 0 = n + m
    <3>1. Luns(c) * (r + 1) = Luns(c) * r + Luns(c)
      BY <1>2
    <3> DEFINE x == Luns(c) * r
    <3>2. x \in Nat /\ n = x + l /\ Luns(c) * (r + 1) = x + Luns(c)
      BY <1>1, <1>2, <3>1, ProductOfNats
    <3> HIDE DEF x
    <3> QED  BY <1>2, <1>4, <1>7, <3>2
  <2>8. 0 * lun_width + (StartOf(c) + (r + 1) * ws_min) = off + ws_min
    <3>1. (r + 1) * ws_min = r * ws_min + ws_min /\ r * ws_min \in Nat /\ ws_min \in Nat
          /\ 0 * lun_width = 0
      BY <1>2
    <3> DEFINE x == r * ws_min
    <3>2. x \in Nat /\ (r + 1) * ws_min = x + ws_min /\ off = StartOf(c) + x /\ ws_min \in Nat
      BY <3>1
    <3> HIDE DEF x, off
    <3> QED  BY <1>2, <3>1, <3>2
  <2> HIDE DEF off, limit
  <2>9. Place(c, n + m) = (next % limit) + ws_min
    BY <2>3, <2>6, <2>7, <2>8
  <2> QED  BY <1>2, <2>4, <2>9 DEF limit
<1>8. l + m < Luns(c) \/ l + m = Luns(c)
  BY ONLY <1>4, m \in Nat
<1> QED  BY <1>2, <1>6, <1>7, <1>8

\* A number of whole stripes.
Striped(n) == \E q \in Nat : n = q * max_os_threads

LEMMA StripesInRow ==
  ASSUME StripesFit, NEW c \in Channel
  PROVE  /\ max_os_threads \in Nat \ {0} /\ max_os_threads <= Luns(c)
         /\ \A n : Striped(n) => n \in Nat /\ (n % Luns(c)) + max_os_threads <= Luns(c)
         /\ \A n : Striped(n) /\ n < RoomOf(c) => n + max_os_threads <= RoomOf(c)
         /\ RoomOf(c) \in Nat
<1> DEFINE M == max_os_threads
<1>1. M \in Nat \ {0} /\ npunit \in Nat \ {0} /\ Luns(c) \in Nat \ {0} /\ c \in Nat
  BY LunsType
<1> HIDE DEF M
<1>2. PICK b \in Nat : Luns(c) = M * b
  <2>1. npunit \div M \in Nat /\ npunit = M * (npunit \div M) + (npunit % M) /\ (npunit % M) = 0
    BY <1>1, QuotientAndRemainder DEF StripesFit, M
  <2> DEFINE d == npunit \div M
  <2>2. d \in Nat /\ npunit = M * d
    BY <1>1, <2>1
  <2> HIDE DEF d
  <2>3. (c + 1) * (M * d) = M * ((c + 1) * d) /\ (c + 1) * d \in Nat
    BY <1>1, <2>2
  <2> QED  BY <2>2, <2>3 DEF Luns
<1>3. b # 0
  BY <1>1, <1>2
<1>4. ASSUME NEW x \in Nat, NEW y \in Nat, M * x < M * y PROVE M * x + M <= M * y
  <2>1. x < y
    <3>1. ASSUME y <= x PROVE FALSE
      <4>1. M * y <= M * x
        BY <1>1, <3>1
      <4> DEFINE u == M * x  v == M * y
      <4>2. u \in Nat /\ v \in Nat /\ u < v /\ v <= u
        BY <1>1, <1>4, <4>1
      <4> HIDE DEF u, v
      <4> QED  BY <4>2
    <3> QED  BY <3>1
  <2>2. M * (x + 1) <= M * y /\ M * (x + 1) = M * x + M
    BY <1>1, <2>1
  <2> QED  BY <2>2
<1>5. ASSUME NEW n, Striped(n) PROVE \E q \in Nat : n = M * q
  <2>1. PICK q \in Nat : n = q * M
    BY <1>5 DEF Striped, M
  <2>2. q * M = M * q
    BY <1>1
  <2> QED  BY <2>1, <2>2
<1>6. M <= Luns(c)
  <2>1. M * 0 < M * b
    BY <1>1, <1>2
  <2>2. M * 0 + M <= M * b /\ M * 0 = 0
    BY <1>1, <1>4, <2>1
  <2> QED  BY <1>1, <1>2, <2>2
<1>7. ASSUME NEW n, Striped(n) PROVE n \in Nat /\ (n % Luns(c)) + M <= Luns(c)
  <2>1. PICK q \in Nat : n = M * q
    BY <1>5, <1>7
  <2>2. n \in Nat
    BY <1>1, <2>1, ProductOfNats
  <2> DEFINE r == n \div Luns(c)
             l == (n % Luns(c))
  <2>3. r \in Nat /\ l \in 0 .. (Luns(c) - 1) /\ n = Luns(c) * r + l
    BY <1>1, <2>2, QuotientAndRemainder
  <2> HIDE DEF r, l
  <2>4. l = M * (q - b * r)
    <3>1. M * (q - b * r) = M * q - (M * b) * r
      BY <1>1, <2>3
    <3> DEFINE x == Luns(c) * r
    <3>2. x \in Nat /\ n = x + l /\ M * (q - b * r) = n - x
      BY <1>1, <1>2, <2>1, <2>3, <3>1, ProductOfNats
    <3> HIDE DEF x
    <3> QED  BY <1>1, <2>2, <2>3, <3>2
  <2>5. q - b * r \in Nat
    <3> DEFINE p == q - b * r
    <3>1. p \in Int /\ l = M * p /\ l >= 0 /\ M > 0
      BY <1>1, <2>3, <2>4
    <3> HIDE DEF p
    <3>2. ASSUME p < 0 PROVE FALSE
      <4>1. -1 - p \in Nat /\ M * (-1 - p) = -M - M * p
        BY <1>1, <3>1, <3>2
      <4>2. M * (-1 - p) >= 0
        BY <1>1, <4>1, ProductOfNats
      <4> DEFINE x == M * p
      <4>3. x \in Int /\ -M - x >= 0 /\ x >= 0
        BY <1>1, <3>1, <4>1, <4>2
      <4> HIDE DEF x
      <4> QED  BY <1>1, <4>3
    <3>3. p >= 0
      BY <3>1, <3>2
    <3> QED  BY <3>1, <3>3 DEF p
  <2> DEFINE p == q - b * r
  <2>6. p \in Nat /\ l = M * p
    BY <2>4, <2>5
  <2> HIDE DEF p
  <2>7. M * p < M * b
    BY <1>1, <1>2, <2>3, <2>6
  <2>8. M * p + M <= M * b
    BY <1>4, <2>6, <2>7
  <2>9. l + M <= Luns(c)
    BY <1>2, <2>6, <2>8
  <2> QED  BY <2>2, <2>9 DEF l
<1>8. PICK rows \in Nat : RoomOf(c) = rows * Luns(c)
  BY RoomIsRows
<1>9. RoomOf(c) = M * (rows * b) /\ rows * b \in Nat /\ RoomOf(c) \in Nat
  <2>1. rows * (M * b) = M * (rows * b) /\ rows * b \in Nat
    BY <1>1
  <2>2. M * (rows * b) \in Nat
    BY <1>1, <2>1, ProductOfNats
  <2> QED  BY <1>2, <1>8, <2>1, <2>2
<1>10. ASSUME NEW n, Striped(n), n < RoomOf(c) PROVE n + M <= RoomOf(c)
  <2>1. PICK q \in Nat : n = M * q
    BY <1>5, <1>10
  <2>2. M * q < M * (rows * b)
    BY <1>9, <1>10, <2>1
  <2> QED  BY <1>4, <1>9, <2>1, <2>2
<1> QED  BY <1>1, <1>6, <1>7, <1>9, <1>10 DEF M

-----------------------------------------------------------------------------
(* The way of the reader.                                                  *)

\* One step of the reader, from LUN to LUN.
StepFrom(p, limit) ==
  IF p + lun_width >= limit THEN ((p + lun_width) % limit) + ws_min ELSE p + lun_width

\* The pages up to the n-th the reader goes through.
WayTo(f, n, start, limit) ==
  /\ DOMAIN f = 0 .. n
  /\ f[0] = start
  /\ \A m \in 0 .. (n - 1) : f[m + 1] = StepFrom(f[m], limit)

IsWay(f, start, limit) ==
  f = [m \in Nat |-> IF m = 0 THEN start ELSE StepFrom(f[m - 1], limit)]

LEMMA WaysAgree ==
  ASSUME NEW start, NEW limit
  PROVE  \A m \in Nat : \A a, b \in Nat : \A f, g :
           WayTo(f, a, start, limit) /\ WayTo(g, b, start, limit) /\ m <= a /\ m <= b
             => f[m] = g[m]
<1> DEFINE Agree(m) == \A a, b \in Nat : \A f, g :
             WayTo(f, a, start, limit) /\ WayTo(g, b, start, limit) /\ m <= a /\ m <= b
               => f[m] = g[m]
           T == {m \in Nat : Agree(m)}
<1>1. 0 \in T
  BY DEF WayTo
<1>2. ASSUME NEW m \in Nat, m \in T PROVE m + 1 \in T
  <2> SUFFICES ASSUME NEW a \in Nat, NEW b \in Nat, NEW f, NEW g,
                      WayTo(f, a, start, limit), WayTo(g, b, start, limit),
                      m + 1 <= a, m + 1 <= b
               PROVE  f[m + 1] = g[m + 1]
    OBVIOUS
  <2>1. f[m] = g[m]
    <3>1. Agree(m) /\ m <= a /\ m <= b
      BY <1>2
    <3> QED  BY <3>1
  <2>2. m \in 0 .. (a - 1) /\ m \in 0 .. (b - 1)
    BY <1>2
  <2> QED  BY <2>1, <2>2 DEF WayTo
<1> HIDE DEF Agree
<1>3. Nat \subseteq T
  <2> HIDE DEF T
  <2> QED  BY <1>1, <1>2, NatSetInduction
<1> QED  BY <1>3 DEF Agree

LEMMA WaysExist ==
  ASSUME NEW start, NEW limit
  PROVE  \A n \in Nat : \E f : WayTo(f, n, start, limit)
<1> DEFINE T == {n \in Nat : \E f : WayTo(f, n, start, limit)}
<1>1. 0 \in T
  <2> DEFINE f == [m \in 0 .. 0 |-> start]
  <2>1. WayTo(f, 0, start, limit)
    BY DEF WayTo
  <2> QED  BY <2>1
<1>2. ASSUME NEW n \in Nat, n \in T PROVE n + 1 \in T
  <2>1. PICK f : WayTo(f, n, start, limit)
    BY <1>2
  <2> DEFINE g == [m \in 0 .. (n + 1) |-> IF m <= n THEN f[m] ELSE StepFrom(f[n], limit)]
  <2>2. DOMAIN g = 0 .. (n + 1) /\ g[0] = start
    BY <1>2, <2>1 DEF WayTo
  <2>3. ASSUME NEW m \in 0 .. ((n + 1) - 1) PROVE g[m + 1] = StepFrom(g[m], limit)
    <3>1. m \in 0 .. (n + 1) /\ m + 1 \in 0 .. (n + 1) /\ m <= n
      BY <1>2
    <3>2. g[m] = f[m]
      BY <3>1
    <3>3. CASE m + 1 <= n
      <4>1. g[m + 1] = f[m + 1] /\ m \in 0 .. (n - 1)
        BY <1>2, <3>1, <3>3
      <4> QED  BY <2>1, <3>2, <4>1 DEF WayTo
    <3>4. CASE m = n
      <4>1. g[m + 1] = StepFrom(f[n], limit)
        BY <1>2, <3>1, <3>4
      <4> QED  BY <3>2, <3>4, <4>1
    <3> QED  BY <1>2, <3>1, <3>3, <3>4
  <2> HIDE DEF g
  <2>4. WayTo(g, n + 1, start, limit)
    BY <2>2, <2>3 DEF WayTo
  <2> QED  BY <1>2, <2>4
<1>3. Nat \subseteq T
  <2> HIDE DEF T
  <2> QED  BY <1>1, <1>2, NatSetInduction
<1> QED  BY <1>3

LEMMA WayExists ==
  ASSUME NEW start, NEW limit
  PROVE  \E f : IsWay(f, start, limit)
<1> DEFINE Way(n) == CHOOSE f : WayTo(f, n, start, limit)
           F == [n \in Nat |-> Way(n)[n]]
<1>1. \A n \in Nat : WayTo(Way(n), n, start, limit)
  BY WaysExist
<1> HIDE DEF Way
<1>2. F[0] = start
  <2>1. WayTo(Way(0), 0, start, limit)
    BY <1>1
  <2> QED  BY <2>1 DEF WayTo
<1>3. ASSUME NEW m \in Nat \ {0} PROVE F[m] = StepFrom(F[m - 1], limit)
  <2>1. m - 1 \in Nat /\ m - 1 \in 0 .. (m - 1) /\ (m - 1) + 1 = m /\ m \in Nat
    BY <1>3
  <2>2. WayTo(Way(m), m, start, limit) /\ WayTo(Way(m - 1), m - 1, start, limit)
    BY <1>1, <2>1
  <2>3. Way(m)[m - 1] = Way(m - 1)[m - 1]
    <3>1. m - 1 <= m /\ m - 1 <= m - 1
      BY <2>1
    <3> QED  BY <2>1, <2>2, <3>1, WaysAgree
  <2>4. Way(m)[(m - 1) + 1] = StepFrom(Way(m)[m - 1], limit)
    BY <2>1, <2>2 DEF WayTo
  <2>5. F[m] = Way(m)[m] /\ F[m - 1] = Way(m - 1)[m - 1]
    BY <2>1
  <2> QED  BY <2>1, <2>3, <2>4, <2>5
<1>4. F = [m \in Nat |-> IF m = 0 THEN start ELSE StepFrom(F[m - 1], limit)]
  <2>1. \A m \in Nat : F[m] = IF m = 0 THEN start ELSE StepFrom(F[m - 1], limit)
    BY <1>2, <1>3
  <2>2. F = [m \in Nat |-> F[m]]
    OBVIOUS
  <2> HIDE DEF F
  <2> QED  BY <2>1, <2>2
<1> QED  BY <1>4 DEF IsWay

\* As long as there is room the reader goes where the pages of the channel lie.
LEMMA ReaderFollows ==
  ASSUME StripesFit, NEW c \in Channel, c = call.channel,
         NEW s \in Nat, call.start = Place(c, s),
         NEW len \in Nat, s + len <= RoomOf(c)
  PROVE  \A n \in 0 .. (len - 1) : PageReadFor(n) = Place(c, s + n)
<1> DEFINE limit == (c + 1) * channel_width
           Is(f) == f = [m \in Nat |-> IF m = 0 THEN call.start
                           ELSE IF f[m - 1] + lun_width >= limit
                                THEN ((f[m - 1] + lun_width) % limit) + ws_min
                                ELSE f[m - 1] + lun_width]
           F == CHOOSE f : Is(f)
<1>1. \A f : IsWay(f, call.start, limit) => Is(f)
  BY Zenon DEF IsWay, StepFrom
<1>2. Is(F)
  <2>1. \E f : Is(f)
    <3> HIDE DEF Is, limit
    <3> QED  BY <1>1, WayExists
  <2> HIDE DEF Is
  <2> QED  BY <2>1
<1>3. \A n : PageReadFor(n) = F[n]
  BY Zenon DEF PageReadFor
<1>4. F[0] = call.start
  <2> HIDE DEF F
  <2> QED  BY <1>2
<1>5. ASSUME NEW m \in Nat PROVE F[m + 1] = StepFrom(F[m], limit)
  <2>1. m + 1 \in Nat /\ m + 1 # 0 /\ (m + 1) - 1 = m
    OBVIOUS
  <2> HIDE DEF F, limit
  <2> QED  BY <1>2, <2>1, Zenon DEF StepFrom
<1> DEFINE T == {m \in Nat : m < len => F[m] = Place(c, s + m)}
<1> HIDE DEF F, Is
<1>6. 0 \in T
  BY <1>4
<1>7. ASSUME NEW m \in Nat, m \in T PROVE m + 1 \in T
  <2> SUFFICES ASSUME m + 1 < len PROVE F[m + 1] = Place(c, s + (m + 1))
    BY <1>7
  <2>1. F[m] = Place(c, s + m)
    BY <1>7
  <2>2. s + m \in Nat /\ s + m < RoomOf(c)
    BY StripesInRow
  <2>3. ((s + m) % Luns(c)) + 1 <= Luns(c)
    <3>1. Luns(c) \in Nat \ {0}
      BY LunsType
    <3>2. ((s + m) % Luns(c)) \in 0 .. (Luns(c) - 1)
      BY <2>2, <3>1, QuotientAndRemainder
    <3> QED  BY <3>1, <3>2
  <2>4. F[m] + lun_width = Place(c, s + m) + 1 * lun_width
    BY <2>1, Widths
  <2>5. Place(c, (s + m) + 1) = StepFrom(F[m], limit)
    <3>1. 1 \in Nat \ {0}
      OBVIOUS
    <3> QED  BY <2>2, <2>3, <2>4, <3>1, PointerStep DEF StepFrom
  <2> QED  BY <1>5, <2>5
<1>8. Nat \subseteq T
  <2> HIDE DEF T
  <2> QED  BY <1>6, <1>7, NatSetInduction
<1> QED  BY <1>3, <1>8

-----------------------------------------------------------------------------
(* Runs are read back from where they were written.                        *)

\* The threads of the stripe that is being written, joined or not.
InStripe(t) == (pc = "launch" /\ t < k) \/ pc \in {"join", "advance"}

\* Those whose page the device has taken.
Wrote(t) == InStripe(t) /\ thread[t].state \in {"load", "store", "verify", "done"}

\* The pages of the run in the stripes that are done.
PagesDone ==
  IF pc \in {"launch", "join", "advance"} THEN i + j
  ELSE IF i < call.pages THEN i ELSE call.pages

InPlace(t) ==
  /\ thread[t].slot = j + t /\ j + t < nchunk
  /\ thread[t].index = i + (j + t)
  /\ thread[t].page = PageOf(t)

StripeKept == \A t \in Thread : InStripe(t) => InPlace(t)

JoinedDone ==
  \A t \in Thread : (pc = "join" /\ t < k) \/ pc = "advance" => thread[t].state = "done"

\* No buffer holds a page that is not in the run: no thread writes beyond the batch.
BuffersInRun == \A s \in 0 .. (nchunk - 1) : buffer[s] \in Int /\ buffer[s] < call.pages

\* The run has gone to the next places of its channel.
RunAt(c, s) ==
  /\ call.start = Place(c, s)
  /\ \A n \in DOMAIN placed : placed[n] = Place(c, s + n)

PagesPlaced ==
  /\ PagesDone <= call.pages /\ PagesDone <= used[call.channel]
  /\ \A t \in Thread : Wrote(t) => PagesDone + t < call.pages
  /\ DOMAIN placed =
       {n \in Nat : n < PagesDone \/ \E t \in Thread : Wrote(t) /\ n = PagesDone + t}
  /\ used[call.channel] <= RoomOf(call.channel)
       => RunAt(call.channel, used[call.channel] - PagesDone)

PointersPlaced ==
  /\ used \in [Channel -> Nat]
  /\ \A c \in Channel :
       /\ Striped(used[c])
       /\ used[c] <= RoomOf(c) => channel_current_pointer[c] = Place(c, used[c])

IdleMeansDone == pc = "idle" => Running /\ i >= call.pages

RunInv ==
  /\ IdleMeansDone /\ PointersPlaced
  /\ Running => StripeKept /\ JoinedDone /\ BuffersInRun /\ PagesPlaced

LEMMA InitEstablishesRun == Init => RunInv
<1> SUFFICES ASSUME Init PROVE RunInv
  OBVIOUS
<1>1. /\ pc = "idle" /\ call.pages = 0 /\ call.channel = 0 /\ call.start = 0 /\ i = 0 /\ Running
      /\ used = [c \in Channel |-> 0] /\ channel_current_pointer = [c \in Channel |-> StartOf(c)]
      /\ DOMAIN placed = {} /\ 0 \in Channel
      /\ buffer = [s \in 0 .. (nchunk - 1) |-> NoPage]
  BY DEF Init, Running, Channel
<1>2. IdleMeansDone
  BY <1>1 DEF IdleMeansDone
<1>3. \A c \in Channel : Place(c, 0) = StartOf(c)
  <2> TAKE c \in Channel
  <2>1. Luns(c) \in Nat \ {0} /\ lun_width \in Nat /\ ws_min \in Nat /\ StartOf(c) \in Nat
    BY LunsType, Widths, StartsWhole
  <2>2. (0 % Luns(c)) = 0 /\ 0 \div Luns(c) = 0
    <3>1. 0 = Luns(c) * 0 + 0 /\ 0 \in 0 .. (Luns(c) - 1)
      BY <2>1
    <3> QED  BY <2>1, <3>1, RemainderIsUnique
  <2>3. 0 * lun_width = 0 /\ 0 * ws_min = 0
    BY <2>1
  <2> QED  BY <2>1, <2>2, <2>3 DEF Place
<1>4. PointersPlaced
  <2>1. Striped(0)
    <3>1. 0 = 0 * max_os_threads
      OBVIOUS
    <3> QED  BY <3>1 DEF Striped
  <2> QED  BY <1>1, <1>3, <2>1 DEF PointersPlaced
<1>5. StripeKept /\ JoinedDone
  BY <1>1 DEF StripeKept, JoinedDone, InStripe
<1>6. BuffersInRun
  BY <1>1 DEF BuffersInRun, NoPage
<1>7. PagesPlaced
  <2>1. PagesDone = 0 /\ \A t \in Thread : ~ Wrote(t)
    BY <1>1 DEF PagesDone, Wrote, InStripe
  <2>2. call.start = Place(call.channel, 0)
    <3>1. StartOf(0) = 0
      <4>1. npugrp * (npunit * nsectr) \in Nat
        BY ProductOfNats
      <4> QED  BY <4>1 DEF StartOf
    <3> QED  BY <1>1, <1>3, <3>1
  <2>3. used[call.channel] = 0
    BY <1>1
  <2> QED  BY <1>1, <2>1, <2>2, <2>3 DEF PagesPlaced, RunAt
<1> QED  BY <1>2, <1>4, <1>5, <1>6, <1>7 DEF RunInv

LEMMA CallKeepsRun ==
  ASSUME WriterInv, RunInv, NEW c \in Channel, NEW n \in RunPages, Call(c, n)
  PROVE  RunInv'
<1>1. /\ pc' = "fill" /\ Running' /\ i' = 0 /\ n \in Nat \ {0}
      /\ call' = [channel |-> c, pages |-> n, start |-> channel_current_pointer[c]]
      /\ UNCHANGED <<channel_current_pointer, used>>
      /\ DOMAIN placed' = {}
      /\ buffer' = [s \in 0 .. (nchunk - 1) |-> NoPage]
  BY DEF Call, Running
<1>2. IdleMeansDone'
  BY <1>1 DEF IdleMeansDone
<1>3. PointersPlaced'
  BY <1>1, Zenon DEF RunInv, PointersPlaced, Striped, Place, Luns, RoomOf, StartOf, Channel,
     lun_width
<1>4. StripeKept' /\ JoinedDone'
  BY <1>1 DEF StripeKept, JoinedDone, InStripe
<1>5. BuffersInRun'
  BY <1>1 DEF BuffersInRun, NoPage
<1>6. PagesPlaced'
  <2>1. PagesDone' = 0 /\ \A t \in Thread : ~ Wrote(t)'
    BY <1>1 DEF PagesDone, Wrote, InStripe
  <2>2. used[c] \in Nat /\ (used[c] <= RoomOf(c) => channel_current_pointer[c] = Place(c, used[c]))
    BY DEF RunInv, PointersPlaced
  <2>3. RunAt(call.channel, used[call.channel] - PagesDone)' <=> RunAt(c, used[c])'
    BY <1>1, <2>1, <2>2
  <2>4. channel_current_pointer[c] = Place(c, used[c]) => RunAt(c, used[c])'
    BY <1>1 DEF RunAt
  <2> QED  BY <1>1, <2>1, <2>2, <2>3, <2>4 DEF PagesPlaced
<1> QED  BY <1>2, <1>3, <1>4, <1>5, <1>6 DEF RunInv

\* A step that moves no pointer, writes no page and starts no run.
LEMMA SamePlaces ==
  ASSUME UNCHANGED <<call, channel_current_pointer, used>>
  PROVE  /\ PointersPlaced => PointersPlaced'
         /\ /\ PagesPlaced /\ placed' = placed /\ PagesDone' = PagesDone
            /\ \A t \in Thread : Wrote(t)' <=> Wrote(t)
            => PagesPlaced'
<1>1. PointersPlaced => PointersPlaced'
  BY Zenon DEF PointersPlaced, Striped, Place, Luns, RoomOf, StartOf, Channel, lun_width
<1>2. ASSUME PagesPlaced, placed' = placed, PagesDone' = PagesDone,
             \A t \in Thread : Wrote(t)' <=> Wrote(t)
      PROVE  PagesPlaced'
  <2> DEFINE s == used[call.channel] - PagesDone
  <2>1. RunAt(call.channel, s)' <=> RunAt(call.channel, s)
    BY <1>2, Zenon DEF RunAt, Place, Luns, StartOf, lun_width
  <2>2. RoomOf(call.channel)' = RoomOf(call.channel)
    BY Zenon DEF RoomOf, StartOf, Channel, lun_width
  <2>3. DOMAIN placed' =
          {n \in Nat : n < PagesDone' \/ \E t \in Thread : Wrote(t)' /\ n = PagesDone' + t}
    <3>1. {n \in Nat : n < PagesDone' \/ \E t \in Thread : Wrote(t)' /\ n = PagesDone' + t}
            = {n \in Nat : n < PagesDone \/ \E t \in Thread : Wrote(t) /\ n = PagesDone + t}
      BY <1>2
    <3> QED  BY <1>2, <3>1 DEF PagesPlaced
  <2> QED  BY <1>2, <2>1, <2>2, <2>3 DEF PagesPlaced
<1> QED  BY <1>1, <1>2

LEMMA PagesToDo ==
  ASSUME CoordTypes
  PROVE  /\ call.pages \in Nat /\ i \in Nat /\ j \in Nat /\ k \in Nat /\ nchunk \in Nat
         /\ batch_pages \in Int /\ batch_pages <= nchunk /\ batch_pages <= call.pages - i
         /\ batch_pages = nchunk \/ batch_pages = call.pages - i
<1>1. call.pages \in Nat /\ i \in Nat /\ j \in Nat /\ k \in Nat /\ nchunk \in Nat
  <2>1. RunPages \cup {0} \subseteq Nat
    OBVIOUS
  <2>2. i \in Nat /\ j \in Nat /\ k \in Nat /\ nchunk \in Nat
    BY DEF CoordTypes, Thread
  <2> QED  BY <2>1, <2>2 DEF CoordTypes
<1>2. \E x \in {nchunk, call.pages - i} : \A y \in {nchunk, call.pages - i} : x <= y
  BY <1>1
<1>3. batch_pages \in {nchunk, call.pages - i}
  BY <1>2 DEF batch_pages, Min
<1> QED  BY <1>1, <1>3, BatchBound

LEMMA FillKeepsRun ==
  ASSUME WriterInv, RunInv, Fill
  PROVE  RunInv'
<1>1. /\ CoordTypes /\ IdleMeansDone /\ PointersPlaced /\ StripeKept /\ JoinedDone
      /\ BuffersInRun /\ PagesPlaced
  BY DEF WriterInv, RunInv, Fill
<1>2. /\ pc = "fill" /\ i < call.pages /\ pc' = "launch" /\ j' = 0 /\ k' = 0 /\ Running'
      /\ UNCHANGED <<call, i, channel_current_pointer, used, placed, thread, status>>
      /\ buffer' = [s \in DOMAIN buffer |-> IF s < batch_pages THEN i + s ELSE buffer[s]]
  BY DEF Fill, deviceVars, Running
<1>3. /\ call.pages \in Nat /\ i \in Nat
      /\ batch_pages \in Int /\ batch_pages <= call.pages - i
  BY <1>1, PagesToDo
<1>4. \A t \in Thread : ~ InStripe(t)' /\ ~ InStripe(t)
  BY <1>2 DEF InStripe, Thread
<1>5. IdleMeansDone' /\ StripeKept' /\ JoinedDone'
  BY <1>2, <1>4 DEF IdleMeansDone, StripeKept, JoinedDone
<1>6. BuffersInRun'
  <2> SUFFICES ASSUME NEW s \in 0 .. (nchunk - 1)
               PROVE  buffer'[s] \in Int /\ buffer'[s] < call.pages
    BY <1>2 DEF BuffersInRun
  <2>1. buffer'[s] = IF s < batch_pages THEN i + s ELSE buffer[s]
    BY <1>1, <1>2 DEF CoordTypes
  <2>2. buffer[s] \in Int /\ buffer[s] < call.pages
    BY <1>1 DEF BuffersInRun
  <2> QED  BY <1>3, <2>1, <2>2
<1>7. PagesDone' = PagesDone
  <2>1. PagesDone' = i + 0
    BY <1>2 DEF PagesDone
  <2>2. PagesDone = i
    BY <1>2 DEF PagesDone
  <2> QED  BY <1>3, <2>1, <2>2
<1>8. \A t \in Thread : Wrote(t)' <=> Wrote(t)
  BY <1>4 DEF Wrote
<1>9. PagesPlaced' /\ PointersPlaced'
  BY <1>1, <1>2, <1>7, <1>8, SamePlaces
<1> QED  BY <1>5, <1>6, <1>9 DEF RunInv

LEMMA ReturnKeepsRun ==
  ASSUME WriterInv, RunInv, Return
  PROVE  RunInv'
<1>1. /\ CoordTypes /\ IdleMeansDone /\ PointersPlaced /\ StripeKept /\ JoinedDone
      /\ BuffersInRun /\ PagesPlaced
  BY DEF WriterInv, RunInv, Return
<1>2. /\ pc = "fill" /\ i >= call.pages /\ pc' = "idle" /\ Running'
      /\ UNCHANGED <<call, i, j, k, channel_current_pointer, used, placed, buffer, thread, status>>
  BY DEF Return, deviceVars, Running
<1>4. \A t \in Thread : ~ InStripe(t)' /\ ~ InStripe(t)
  BY <1>2 DEF InStripe, Thread
<1>5. IdleMeansDone' /\ StripeKept' /\ JoinedDone' /\ BuffersInRun'
  BY <1>1, <1>2, <1>4 DEF IdleMeansDone, StripeKept, JoinedDone, BuffersInRun
<1>6. PagesDone' = PagesDone
  BY <1>2 DEF PagesDone
<1>7. \A t \in Thread : Wrote(t)' <=> Wrote(t)
  BY <1>4 DEF Wrote
<1>8. PagesPlaced' /\ PointersPlaced'
  BY <1>1, <1>2, <1>6, <1>7, SamePlaces
<1> QED  BY <1>5, <1>8 DEF RunInv

LEMMA LaunchKeepsRun ==
  ASSUME WriterInv, RunInv, Launch
  PROVE  RunInv'
<1>1. /\ CoordTypes /\ ThreadTypes /\ IdleMeansDone /\ PointersPlaced /\ StripeKept
      /\ JoinedDone /\ BuffersInRun /\ PagesPlaced /\ k \in Thread /\ i \in Nat /\ j \in Nat
  BY DEF WriterInv, RunInv, Launch, LoopTurn, CoordTypes
<1>2. /\ pc = "launch" /\ status = "running" /\ k' \in Thread
      /\ \/ k + 1 \in Thread /\ k' = k + 1 /\ pc' = "launch"
         \/ k = max_os_threads - 1 /\ k' = 0 /\ pc' = "join"
  BY <1>1, TurnOfLoop DEF Launch
<1>3. /\ UNCHANGED <<call, i, j, buffer, channel_current_pointer, used, placed>>
      /\ \/ j + k < nchunk /\ StartThread(k, j + k) /\ status' = status
         \/ ~ Running'
  BY DEF Launch, End, deviceVars, Running
<1>4. IdleMeansDone'
  BY <1>2 DEF IdleMeansDone
<1>5. PointersPlaced'
  BY <1>1, <1>3, SamePlaces
<1>6. ASSUME j + k < nchunk, StartThread(k, j + k), status' = status
      PROVE  StripeKept' /\ JoinedDone' /\ BuffersInRun' /\ PagesPlaced'
  <2>0. k \in 0 .. (max_os_threads - 1) /\ max_os_threads \in Nat
    BY <1>1 DEF Thread
  <2>1. \A t \in Thread : InStripe(t)' <=> (InStripe(t) \/ t = k)
    <3> TAKE t \in Thread
    <3>1. t \in 0 .. (max_os_threads - 1)
      BY DEF Thread
    <3> QED  BY <1>2, <2>0, <3>1 DEF InStripe
  <2>2. /\ thread'[k] = [state |-> "start", slot |-> j + k, index |-> i + (j + k),
                         page |-> PageOf(k), seen |-> 0]
        /\ \A t \in Thread : t # k => thread'[t] = thread[t]
    BY <1>1, <1>6 DEF StartThread, ThreadTypes
  <2>3. \A t \in Thread : PageOf(t)' = PageOf(t)
    BY <1>3 DEF PageOf
  <2>4. StripeKept'
    <3> SUFFICES ASSUME NEW t \in Thread, InStripe(t)' PROVE InPlace(t)'
      BY DEF StripeKept
    <3>1. CASE t = k
      BY <1>3, <1>6, <2>2, <2>3, <3>1 DEF InPlace
    <3>2. CASE t # k
      <4>1. InPlace(t)
        BY <1>1, <2>1, <3>2 DEF StripeKept
      <4> QED  BY <1>3, <2>2, <2>3, <3>2, <4>1 DEF InPlace
    <3> QED  BY <3>1, <3>2
  <2>5. JoinedDone'
    BY <1>2 DEF JoinedDone, Thread
  <2>6. BuffersInRun'
    BY <1>1, <1>3 DEF BuffersInRun
  <2>7. PagesDone' = PagesDone
    BY <1>2, <1>3 DEF PagesDone
  <2>8. \A t \in Thread : Wrote(t)' <=> Wrote(t)
    <3> TAKE t \in Thread
    <3>1. CASE t = k
      <4>1. ~ InStripe(t)
        BY <1>2, <2>0, <3>1 DEF InStripe
      <4>2. thread'[t].state = "start"
        BY <2>2, <3>1
      <4> QED  BY <4>1, <4>2 DEF Wrote
    <3>2. CASE t # k
      BY <2>1, <2>2, <3>2 DEF Wrote
    <3> QED  BY <3>1, <3>2
  <2>9. PagesPlaced'
    BY <1>1, <1>3, <2>7, <2>8, SamePlaces
  <2> QED  BY <2>4, <2>5, <2>6, <2>9
<1> QED  BY <1>3, <1>4, <1>5, <1>6 DEF RunInv

LEMMA JoinKeepsRun ==
  ASSUME WriterInv, RunInv, Join
  PROVE  RunInv'
<1>1. /\ CoordTypes /\ ThreadTypes /\ IdleMeansDone /\ PointersPlaced /\ StripeKept
      /\ JoinedDone /\ BuffersInRun /\ PagesPlaced /\ k \in Thread /\ i \in Nat /\ j \in Nat
  BY DEF WriterInv, RunInv, Join, LoopTurn, CoordTypes
<1>2. /\ pc = "join" /\ status = "running" /\ k' \in Thread
      /\ \/ k + 1 \in Thread /\ k' = k + 1 /\ pc' = "join"
         \/ k = max_os_threads - 1 /\ k' = 0 /\ pc' = "advance"
  BY <1>1, TurnOfLoop DEF Join
<1>3. /\ UNCHANGED <<call, i, j, channel_current_pointer, used, placed, thread, status>>
      /\ thread[k].state = "done"
      /\ buffer' = [buffer EXCEPT ![thread[k].slot] = NoPage]
  BY DEF Join, deviceVars
<1>4. IdleMeansDone'
  BY <1>2 DEF IdleMeansDone
<1>5. \A t \in Thread : InStripe(t)' /\ InStripe(t)
  BY <1>2 DEF InStripe
<1>6. StripeKept'
  <2>1. \A t \in Thread : PageOf(t)' = PageOf(t)
    BY <1>3 DEF PageOf
  <2> QED  BY <1>1, <1>3, <1>5, <2>1 DEF StripeKept, InPlace
<1>7. JoinedDone'
  <2> SUFFICES ASSUME NEW t \in Thread, (pc' = "join" /\ t < k') \/ pc' = "advance"
               PROVE  thread[t].state = "done"
    BY <1>3 DEF JoinedDone
  <2>1. t \in 0 .. (max_os_threads - 1) /\ k \in 0 .. (max_os_threads - 1)
    BY <1>1 DEF Thread
  <2>2. t < k \/ t = k
    BY <1>2, <2>1
  <2> QED  BY <1>1, <1>2, <1>3, <2>2 DEF JoinedDone
<1>8. BuffersInRun'
  <2> SUFFICES ASSUME NEW s \in 0 .. (nchunk - 1)
               PROVE  buffer'[s] \in Int /\ buffer'[s] < call.pages
    BY <1>3 DEF BuffersInRun
  <2>1. buffer'[s] = NoPage \/ buffer'[s] = buffer[s]
    BY <1>1, <1>3 DEF CoordTypes
  <2>2. call.pages \in Nat
    BY <1>1, PagesToDo
  <2>3. buffer[s] \in Int /\ buffer[s] < call.pages
    BY <1>1 DEF BuffersInRun
  <2> QED  BY <2>1, <2>2, <2>3 DEF NoPage
<1>9. PagesDone' = PagesDone
  BY <1>2, <1>3 DEF PagesDone
<1>10. \A t \in Thread : Wrote(t)' <=> Wrote(t)
  BY <1>3, <1>5 DEF Wrote
<1>11. PagesPlaced' /\ PointersPlaced'
  BY <1>1, <1>3, <1>9, <1>10, SamePlaces
<1> QED  BY <1>4, <1>6, <1>7, <1>8, <1>11 DEF RunInv

\* A stripe that is done lies within the batch: it adds its pages to those of the run.
LEMMA StripeDone ==
  ASSUME WriterInv, RunInv, Advance
  PROVE  /\ PagesDone' = PagesDone + max_os_threads
         /\ PagesDone' <= call.pages /\ PagesDone \in Nat
         /\ \A t \in Thread : Wrote(t) /\ ~ InStripe(t)'
<1> DEFINE M == max_os_threads
           D == PagesDone
<1>1. /\ CoordTypes /\ StripeKept /\ JoinedDone /\ PagesPlaced /\ StripeInOrder
      /\ pc = "advance" /\ j' = j + M /\ UNCHANGED <<call, k>>
      /\ \/ j' < batch_pages /\ pc' = "launch" /\ i' = i
         \/ j' >= batch_pages /\ pc' = "fill" /\ i' = i + nchunk
  BY DEF WriterInv, RunInv, Advance
<1>2. \A t \in Thread : InStripe(t) /\ Wrote(t) /\ ~ InStripe(t)'
  <2>1. k' = 0
    BY <1>1 DEF StripeInOrder
  <2>2. \A t \in Thread : InStripe(t) /\ ~ InStripe(t)'
    BY <1>1, <2>1 DEF InStripe, Thread
  <2>3. \A t \in Thread : thread[t].state = "done"
    BY <1>1 DEF JoinedDone
  <2> QED  BY <2>2, <2>3 DEF Wrote
<1>3. M \in Nat \ {0} /\ M - 1 \in Thread
  BY DEF Thread
<1>4. D = i + j
  BY <1>1 DEF PagesDone
<1>5. D + (M - 1) < call.pages
  BY <1>1, <1>2, <1>3 DEF PagesPlaced
<1>6. j + (M - 1) < nchunk
  BY <1>1, <1>2, <1>3 DEF StripeKept, InPlace
<1>7. /\ call.pages \in Nat /\ i \in Nat /\ j \in Nat /\ nchunk \in Nat
      /\ batch_pages \in Int /\ batch_pages <= nchunk /\ batch_pages <= call.pages - i
      /\ batch_pages = nchunk \/ batch_pages = call.pages - i
  BY <1>1, PagesToDo
<1> HIDE DEF M, D
<1>8. j + M <= batch_pages /\ D + M <= call.pages
  BY <1>3, <1>4, <1>5, <1>6, <1>7
<1>9. PagesDone' = D + M
  <2>1. CASE pc' = "launch" /\ i' = i
    <3>1. PagesDone' = i + (j + M)
      BY <1>1, <2>1 DEF PagesDone
    <3> QED  BY <1>3, <1>4, <1>7, <3>1
  <2>2. CASE j' >= batch_pages /\ pc' = "fill" /\ i' = i + nchunk
    <3>1. PagesDone' = IF i + nchunk < call.pages THEN i + nchunk ELSE call.pages
      BY <1>1, <2>2 DEF PagesDone
    <3>2. j + M = batch_pages
      BY <1>1, <1>3, <1>7, <1>8, <2>2
    <3> QED  BY <1>3, <1>4, <1>7, <3>1, <3>2
  <2> QED  BY <1>1, <2>1, <2>2
<1> QED  BY <1>2, <1>4, <1>7, <1>8, <1>9 DEF M, D

LEMMA AdvanceKeepsRun ==
  ASSUME StripesFit, WriterInv, RunInv, Advance
  PROVE  RunInv'
<1> DEFINE M == max_os_threads
           D == PagesDone
           c == call.channel
           next == NextPointer(c, M * lun_width)
<1>1. /\ CoordTypes /\ StripeKept /\ JoinedDone /\ PagesPlaced /\ PointersPlaced /\ BuffersInRun
      /\ c \in Channel /\ channel_current_pointer \in [Channel -> Nat]
  BY DEF WriterInv, RunInv, Advance, CoordTypes
<1>2. /\ pc' # "idle" /\ pc' \notin {"join", "advance"} /\ Running'
      /\ UNCHANGED <<call, k, buffer, placed, thread>>
      /\ channel_current_pointer' = [channel_current_pointer EXCEPT ![c] = next]
      /\ used' = [used EXCEPT ![c] = @ + M]
  BY DEF Advance, Running, deviceVars
<1>3. /\ PagesDone' = D + M /\ D + M <= call.pages /\ D \in Nat
      /\ \A t \in Thread : Wrote(t) /\ ~ InStripe(t)'
  BY StripeDone
<1>4. IdleMeansDone' /\ StripeKept' /\ JoinedDone' /\ BuffersInRun'
  BY <1>1, <1>2, <1>3 DEF IdleMeansDone, StripeKept, JoinedDone, BuffersInRun, InStripe
<1>5. /\ M \in Nat \ {0} /\ used \in [Channel -> Nat] /\ used[c] \in Nat /\ Striped(used[c])
      /\ RoomOf(c) \in Nat /\ RoomOf(c)' = RoomOf(c) /\ used'[c] = used[c] + M
  <2>1. RoomOf(c)' = RoomOf(c)
    BY <1>2, Zenon DEF RoomOf, StartOf, Channel, lun_width
  <2> QED  BY <1>1, <1>2, <2>1, StripesInRow DEF PointersPlaced
<1>6. Striped(used[c] + M)
  <2>1. PICK q \in Nat : used[c] = q * M
    BY <1>5 DEF Striped
  <2>2. (q + 1) * M = q * M + M
    BY <1>5
  <2> QED  BY <2>1, <2>2 DEF Striped
<1>7. used[c] + M <= RoomOf(c) => next = Place(c, used[c] + M)
  <2> SUFFICES ASSUME used[c] + M <= RoomOf(c) PROVE next = Place(c, used[c] + M)
    OBVIOUS
  <2>1. used[c] < RoomOf(c) /\ used[c] <= RoomOf(c)
    <3> HIDE DEF M
    <3> QED  BY <1>5
  <2>2. channel_current_pointer[c] = Place(c, used[c])
    BY <1>1, <2>1 DEF PointersPlaced
  <2>3. (used[c] % Luns(c)) + M <= Luns(c)
    BY <1>1, <1>5, StripesInRow
  <2> DEFINE to == Place(c, used[c]) + M * lun_width
             limit == (c + 1) * channel_width
  <2>4. next = IF to >= limit THEN (to % limit) + ws_min ELSE to
    BY <2>2 DEF NextPointer
  <2> QED  BY <1>1, <1>5, <2>1, <2>3, <2>4, PointerStep
<1>8. PointersPlaced'
  <2>1. used' \in [Channel -> Nat]
    BY <1>1, <1>2, <1>5
  <2> SUFFICES ASSUME NEW d \in Channel
               PROVE  /\ Striped(used'[d])
                      /\ used'[d] <= RoomOf(d)
                           => channel_current_pointer'[d] = Place(d, used'[d])
    BY <2>1, Zenon DEF PointersPlaced, Striped, Place, Luns, RoomOf, StartOf, Channel, lun_width
  <2>2. CASE d = c
    <3>1. used'[d] = used[c] + M /\ channel_current_pointer'[d] = next
      BY <1>1, <1>2, <1>5, <2>2
    <3> QED  BY <1>6, <1>7, <2>2, <3>1
  <2>3. CASE d # c
    <3>1. used'[d] = used[d] /\ channel_current_pointer'[d] = channel_current_pointer[d]
      BY <1>1, <1>2, <1>5, <2>3
    <3> QED  BY <1>1, <3>1 DEF PointersPlaced
  <2> QED  BY <2>2, <2>3
<1>9. PagesPlaced'
  <2>1. D <= used[c] /\ D + M <= used[c] + M /\ (used[c] + M) - (D + M) = used[c] - D
    <3>1. D <= used[c]
      BY <1>1 DEF PagesPlaced
    <3> HIDE DEF D, M
    <3> QED  BY <1>3, <1>5, <3>1
  <2>2. \A t \in Thread : ~ Wrote(t)'
    BY <1>3 DEF Wrote
  <2>3. DOMAIN placed =
          {n \in Nat : n < D + M \/ \E t \in Thread : Wrote(t)' /\ n = (D + M) + t}
    <3>1. DOMAIN placed = {n \in Nat : n < D \/ \E t \in Thread : n = D + t}
      BY <1>1, <1>3 DEF PagesPlaced
    <3>2. ASSUME NEW n \in Nat
          PROVE  (n < D \/ \E t \in Thread : n = D + t) <=> n < D + M
      <4> HIDE DEF D
      <4>1. ASSUME n < D + M, ~ (n < D) PROVE \E t \in Thread : n = D + t
        <5>1. n - D \in Thread /\ n = D + (n - D)
          BY <1>3, <1>5, <4>1 DEF Thread
        <5> QED  BY <5>1
      <4>2. ASSUME NEW t \in Thread, n = D + t PROVE n < D + M
        BY <1>3, <1>5, <4>2 DEF Thread
      <4>3. n < D => n < D + M
        BY <1>3, <1>5
      <4> QED  BY <4>1, <4>2, <4>3
    <3> HIDE DEF D, M
    <3> QED  BY <2>2, <3>1, <3>2
  <2>4. PICK d, s : d = c /\ s = used[c] - D
    OBVIOUS
  <2>5. ASSUME used[c] + M <= RoomOf(c) PROVE RunAt(d, s)'
    <3>1. used[c] <= RoomOf(c)
      <4> HIDE DEF M
      <4> QED  BY <1>5, <2>5
    <3>2. RunAt(d, s)
      BY <1>1, <2>4, <3>1 DEF PagesPlaced
    <3> QED  BY <1>2, <3>2 DEF RunAt, Place, Luns, StartOf
  <2>6. RunAt(call.channel, used[call.channel] - PagesDone)' <=> RunAt(d, s)'
    BY <1>2, <1>3, <1>5, <2>1, <2>4
  <2> QED  BY <1>2, <1>3, <1>5, <2>1, <2>2, <2>3, <2>5, <2>6 DEF PagesPlaced
<1> QED  BY <1>4, <1>8, <1>9 DEF RunInv

\* The threads after a step that writes no page.
ThreadsGoOn ==
  \A s \in Thread :
    /\ thread'[s].slot = thread[s].slot
    /\ thread'[s].index = thread[s].index
    /\ thread'[s].page = thread[s].page
    /\ thread'[s].state \in {"load", "store", "verify", "done"}
         <=> thread[s].state \in {"load", "store", "verify", "done"}
    /\ thread[s].state = "done" => thread'[s].state = "done"

LEMMA StepKeepsRun ==
  ASSUME WriterInv, RunInv, NEW t \in Thread, UNCHANGED coordVars, placed' = placed,
         \/ status' = status /\ ThreadsGoOn
         \/ ~ Running' /\ pc # "idle"
  PROVE  RunInv'
<1>1. UNCHANGED <<pc, call, i, j, k, buffer, channel_current_pointer, used>>
  BY DEF coordVars
<1>2. PointersPlaced'
  BY <1>1, SamePlaces DEF RunInv
<1>3. CASE ~ Running' /\ pc # "idle"
  BY <1>1, <1>2, <1>3 DEF RunInv, IdleMeansDone
<1>4. CASE ~ Running /\ status' = status
  <2>1. ~ Running'
    BY <1>4 DEF Running
  <2> QED  BY <1>1, <1>2, <1>4, <2>1 DEF RunInv, IdleMeansDone
<1>5. ASSUME Running, status' = status, ThreadsGoOn
      PROVE  RunInv'
  <2>1. IdleMeansDone /\ StripeKept /\ JoinedDone /\ BuffersInRun /\ PagesPlaced
    BY <1>5 DEF RunInv
  <2>2. IdleMeansDone' /\ BuffersInRun'
    BY <1>1, <1>5, <2>1 DEF IdleMeansDone, BuffersInRun, Running
  <2>3. \A s \in Thread : (InStripe(s)' <=> InStripe(s)) /\ PageOf(s)' = PageOf(s)
    BY <1>1 DEF InStripe, PageOf
  <2>4. StripeKept'
    BY <1>1, <1>5, <2>1, <2>3 DEF StripeKept, InPlace, ThreadsGoOn
  <2>5. JoinedDone'
    BY <1>1, <1>5, <2>1 DEF JoinedDone, ThreadsGoOn
  <2>6. \A s \in Thread : Wrote(s)' <=> Wrote(s)
    BY <1>5, <2>3 DEF Wrote, ThreadsGoOn
  <2>7. PagesDone' = PagesDone
    BY <1>1 DEF PagesDone
  <2>8. PagesPlaced'
    BY <1>1, <2>1, <2>6, <2>7, SamePlaces
  <2> QED  BY <1>2, <2>2, <2>4, <2>5, <2>8 DEF RunInv
<1> QED  BY <1>3, <1>4, <1>5

LEMMA ActiveMeansBusy ==
  ASSUME WriterInv, RunInv, NEW t \in Thread, Active(t)
  PROVE  pc # "idle" /\ (Running => InStripe(t) /\ InPlace(t))
<1>1. Started(t)
  BY DEF WriterInv, StripeInOrder
<1>2. InStripe(t) /\ pc # "idle"
  BY <1>1 DEF Started, InStripe
<1> QED  BY <1>2 DEF RunInv, StripeKept

LEMMA ThreadGoesOn ==
  ASSUME WriterInv, RunInv, NEW t \in Thread, LoadWrites(t) \/ StoreWrites(t) \/ Verify(t)
  PROVE  /\ UNCHANGED coordVars /\ UNCHANGED deviceVars
         /\ \/ status' = status /\ ThreadsGoOn
            \/ status' = "exited" /\ pc # "idle"
<1>1. /\ UNCHANGED coordVars /\ UNCHANGED deviceVars /\ ThreadTypes /\ Active(t) /\ Running
  BY DEF WriterInv, LoadWrites, StoreWrites, Verify, Active
<1>2. pc # "idle"
  BY <1>1, ActiveMeansBusy
<1>3. /\ thread[t].state \in {"load", "store", "verify"}
      /\ \/ /\ status' = status
            /\ \E to \in {"store", "verify", "done"} : \E n :
                 thread' = [thread EXCEPT ![t].state = to, ![t].seen = n]
         \/ status' = "exited"
  <2>1. CASE LoadWrites(t)
    BY <2>1 DEF LoadWrites
  <2>2. CASE StoreWrites(t)
    <3>1. thread' = [thread EXCEPT ![t].state = "verify", ![t].seen = thread[t].seen]
      BY <1>1, <2>2 DEF StoreWrites, Goto, ThreadTypes
    <3> QED  BY <2>2, <3>1 DEF StoreWrites
  <2>3. CASE Verify(t)
    <3>1. Goto(t, "done")
             => thread' = [thread EXCEPT ![t].state = "done", ![t].seen = thread[t].seen]
      BY <1>1 DEF Goto, ThreadTypes
    <3> QED  BY <2>3, <3>1 DEF Verify, End
  <2> QED  BY <2>1, <2>2, <2>3
<1>4. ASSUME NEW to \in {"store", "verify", "done"}, NEW n,
             thread' = [thread EXCEPT ![t].state = to, ![t].seen = n],
             NEW s \in Thread
      PROVE  /\ thread'[s].slot = thread[s].slot
             /\ thread'[s].index = thread[s].index
             /\ thread'[s].page = thread[s].page
             /\ thread'[s].state \in {"load", "store", "verify", "done"}
                  <=> thread[s].state \in {"load", "store", "verify", "done"}
             /\ thread[s].state = "done" => thread'[s].state = "done"
  <2>1. CASE s = t
    <3>1. thread'[s] = [thread[s] EXCEPT !.state = to, !.seen = n]
      BY <1>1, <1>4, <2>1 DEF ThreadTypes
    <3>2. /\ thread'[s].slot = thread[s].slot /\ thread'[s].index = thread[s].index
          /\ thread'[s].page = thread[s].page /\ thread'[s].state = to
      BY <1>1, <3>1 DEF ThreadTypes
    <3> QED  BY <1>3, <1>4, <2>1, <3>2
  <2>2. CASE s # t
    <3>1. thread'[s] = thread[s]
      BY <1>1, <1>4, <2>2 DEF ThreadTypes
    <3> QED  BY <3>1
  <2> QED  BY <2>1, <2>2
<1>5. status' = status => ThreadsGoOn \/ status' = "exited"
  BY <1>3, <1>4 DEF ThreadsGoOn
<1> QED  BY <1>1, <1>2, <1>3, <1>5 DEF Running

\* The page a thread is given is the next place of the channel, as long as it has room.
LEMMA PageOfStripe ==
  ASSUME StripesFit, WriterInv, RunInv, NEW t \in Thread,
         used[call.channel] <= RoomOf(call.channel)
  PROVE  PageOf(t) = Place(call.channel, used[call.channel] + t)
<1> DEFINE c == call.channel
<1>1. /\ c \in Channel /\ used[c] \in Nat /\ Striped(used[c])
      /\ channel_current_pointer[c] = Place(c, used[c])
  BY DEF WriterInv, CoordTypes, RunInv, PointersPlaced
<1>2. t \in Nat /\ t < max_os_threads /\ max_os_threads \in Nat
  BY DEF Thread
<1>3. (used[c] % Luns(c)) + t < Luns(c)
  <2>1. (used[c] % Luns(c)) + max_os_threads <= Luns(c)
    BY <1>1, StripesInRow
  <2>2. Luns(c) \in Nat \ {0}
    BY <1>1, LunsType
  <2>3. (used[c] % Luns(c)) \in 0 .. (Luns(c) - 1)
    BY <1>1, <2>2, QuotientAndRemainder
  <2> QED  BY <1>2, <2>1, <2>2, <2>3
<1> QED  BY <1>1, <1>2, <1>3, InTheRow DEF PageOf

LEMMA PageTaken ==
  ASSUME WriterInv, RunInv, NEW t \in Thread, Write(t), Goto(t, "load")
  PROVE  /\ thread'[t].state = "load" /\ thread'[t].slot = thread[t].slot
         /\ thread'[t].index = thread[t].index /\ thread'[t].page = thread[t].page
         /\ \A s \in Thread : s # t => thread'[s] = thread[s]
         /\ \A s \in Thread : Wrote(s)' <=> (Wrote(s) \/ s = t)
<1>1. /\ UNCHANGED coordVars /\ ThreadTypes /\ Active(t) /\ Running
  BY DEF WriterInv, Write, Active
<1>2. InStripe(t)
  BY <1>1, ActiveMeansBusy
<1>3. /\ thread'[t].state = "load" /\ thread'[t].slot = thread[t].slot
      /\ thread'[t].index = thread[t].index /\ thread'[t].page = thread[t].page
      /\ \A s \in Thread : s # t => thread'[s] = thread[s]
  <2>1. thread'[t] = [thread[t] EXCEPT !.state = "load"]
    BY <1>1 DEF Goto, ThreadTypes
  <2> QED  BY <1>1, <2>1 DEF Goto, ThreadTypes
<1>4. \A s \in Thread : InStripe(s)' <=> InStripe(s)
  BY <1>1 DEF coordVars, InStripe
<1>5. ASSUME NEW s \in Thread PROVE Wrote(s)' <=> (Wrote(s) \/ s = t)
  <2>1. CASE s = t
    BY <1>2, <1>3, <1>4, <2>1 DEF Wrote
  <2>2. CASE s # t
    BY <1>3, <1>4, <2>2 DEF Wrote
  <2> QED  BY <2>1, <2>2
<1> QED  BY <1>3, <1>5

LEMMA WriteKeepsRun ==
  ASSUME StripesFit, WriterInv, RunInv, NEW t \in Thread, Write(t)
  PROVE  RunInv'
<1>1. /\ CoordTypes /\ UNCHANGED coordVars /\ ThreadTypes /\ Active(t) /\ Running
      /\ thread[t].state = "start"
  BY DEF WriterInv, Write, Active
<1>2. pc # "idle" /\ InStripe(t) /\ InPlace(t)
  BY <1>1, ActiveMeansBusy
<1>3. UNCHANGED <<pc, call, i, j, k, buffer, channel_current_pointer, used>>
  BY <1>1 DEF coordVars
<1> DEFINE page == thread[t].page
           x == thread[t].index
           c == call.channel
           D == PagesDone
<1>4. \/ /\ BufferGood(t)
         /\ placed' = [n \in DOMAIN placed \cup {x} |-> IF n = x THEN page ELSE placed[n]]
         /\ Goto(t, "load") /\ status' = status
      \/ placed' = placed /\ ~ Running'
  BY DEF Write, End, deviceVars, Running
<1>5. CASE placed' = placed /\ ~ Running'
  BY <1>1, <1>2, <1>5, StepKeepsRun
<1>6. ASSUME BufferGood(t), Goto(t, "load"), status' = status,
             placed' = [n \in DOMAIN placed \cup {x} |-> IF n = x THEN page ELSE placed[n]]
      PROVE  RunInv'
  <2>1. IdleMeansDone /\ StripeKept /\ JoinedDone /\ BuffersInRun /\ PagesPlaced /\ PointersPlaced
    BY <1>1 DEF RunInv
  <2>2. IdleMeansDone' /\ BuffersInRun'
    BY <1>2, <1>3, <2>1 DEF IdleMeansDone, BuffersInRun
  <2>3. /\ thread'[t].state = "load" /\ thread'[t].slot = thread[t].slot
        /\ thread'[t].index = thread[t].index /\ thread'[t].page = thread[t].page
        /\ \A s \in Thread : s # t => thread'[s] = thread[s]
        /\ \A s \in Thread : Wrote(s)' <=> (Wrote(s) \/ s = t)
    BY <1>6, PageTaken
  <2>4. \A s \in Thread : (InStripe(s)' <=> InStripe(s)) /\ PageOf(s)' = PageOf(s)
    BY <1>3 DEF InStripe, PageOf
  <2>5. StripeKept'
    <3> SUFFICES ASSUME NEW s \in Thread, InStripe(s) PROVE InPlace(s)'
      BY <2>4 DEF StripeKept
    <3>1. InPlace(s)
      BY <2>1 DEF StripeKept
    <3> QED  BY <1>3, <2>3, <2>4, <3>1 DEF InPlace
  <2>6. JoinedDone'
    BY <1>1, <1>3, <2>1, <2>3 DEF JoinedDone
  <2>8. PagesDone' = D /\ D = i + j
    BY <1>2, <1>3 DEF PagesDone, InStripe
  <2>9. /\ i \in Nat /\ j \in Nat /\ call.pages \in Nat /\ nchunk \in Nat /\ t \in Nat
        /\ c \in Channel
    BY <1>1, PagesToDo DEF Thread, CoordTypes
  <2>10. x = D + t /\ D + t < call.pages /\ D \in Nat
    <3>1. x = i + (j + t) /\ thread[t].slot \in 0 .. (nchunk - 1)
      BY <1>2, <2>9 DEF InPlace
    <3>2. x = buffer[thread[t].slot]
      BY <1>6 DEF BufferGood
    <3>3. x < call.pages
      BY <2>1, <3>1, <3>2 DEF BuffersInRun
    <3> HIDE DEF x, D
    <3> QED  BY <2>8, <2>9, <3>1, <3>3
  <2>11. DOMAIN placed' =
           {n \in Nat : n < PagesDone' \/ \E s \in Thread : Wrote(s)' /\ n = PagesDone' + s}
    <3>1. DOMAIN placed = {n \in Nat : n < D \/ \E s \in Thread : Wrote(s) /\ n = D + s}
      BY <2>1 DEF PagesPlaced
    <3>2. DOMAIN placed' = DOMAIN placed \cup {D + t}
      BY <1>6, <2>10
    <3>3. D + t \in Nat
      BY <2>9, <2>10
    <3> HIDE DEF D
    <3> QED  BY <2>3, <2>8, <3>1, <3>2, <3>3
  <2>12. \A s \in Thread : Wrote(s)' => PagesDone' + s < call'.pages
    BY <1>3, <2>1, <2>3, <2>8, <2>10 DEF PagesPlaced
  <2>13. PICK d, s : d = c /\ s = used[c] - D
    OBVIOUS
  <2>14. D <= used[c] /\ used[c] \in Nat /\ s \in Nat
    <3>1. D <= used[c] /\ used[c] \in Nat
      BY <2>1, <2>9 DEF PagesPlaced, PointersPlaced
    <3> HIDE DEF D
    <3> QED  BY <2>10, <2>13, <3>1
  <2>15. ASSUME used[c] <= RoomOf(c) PROVE RunAt(d, s)'
    <3>1. RunAt(d, s)
      BY <2>1, <2>13, <2>15 DEF PagesPlaced
    <3>2. page = Place(d, s + x)
      <4>1. page = Place(c, used[c] + t)
        BY <1>2, <2>15, PageOfStripe DEF InPlace
      <4>5. s + x = used[c] + t
        <5> HIDE DEF D, x
        <5> QED  BY <2>9, <2>10, <2>13, <2>14
      <4> QED  BY <2>13, <4>1, <4>5
    <3>3. call.start = Place(d, s) /\ \A n \in DOMAIN placed : placed[n] = Place(d, s + n)
      BY <3>1 DEF RunAt
    <3>4. \A n \in DOMAIN placed' : placed'[n] = Place(d, s + n)
      BY <1>6, <3>2, <3>3
    <3> QED  BY <1>3, <3>3, <3>4 DEF RunAt, Place, Luns, StartOf
  <2>16. RunAt(call.channel, used[call.channel] - PagesDone)' <=> RunAt(d, s)'
    BY <1>3, <2>8, <2>13
  <2>17. RoomOf(c)' = RoomOf(c)
    BY <1>3, Zenon DEF RoomOf, StartOf, Channel, lun_width
  <2>18. PagesPlaced'
    BY <1>3, <2>1, <2>8, <2>11, <2>12, <2>15, <2>16, <2>17 DEF PagesPlaced
  <2>19. PointersPlaced'
    BY <1>3, <2>1, SamePlaces
  <2> QED  BY <2>2, <2>5, <2>6, <2>18, <2>19 DEF RunInv
<1> QED  BY <1>4, <1>5, <1>6

LEMMA NextKeepsRun ==
  ASSUME StripesFit, WriterInv, RunInv, [Next]_vars
  PROVE  RunInv'
<1>1. ASSUME NEW c \in Channel, NEW n \in RunPages, Call(c, n) PROVE RunInv'
  BY <1>1, CallKeepsRun
<1>2. CASE Coordinate
  BY <1>2, FillKeepsRun, ReturnKeepsRun, LaunchKeepsRun, JoinKeepsRun, AdvanceKeepsRun
     DEF Coordinate
<1>3. ASSUME NEW t \in Thread, Work(t) PROVE RunInv'
  <2>1. CASE LoadWrites(t) \/ StoreWrites(t) \/ Verify(t)
    <3>1. /\ UNCHANGED coordVars /\ UNCHANGED deviceVars
          /\ \/ status' = status /\ ThreadsGoOn
             \/ status' = "exited" /\ pc # "idle"
      BY <2>1, ThreadGoesOn
    <3> QED  BY <3>1, StepKeepsRun DEF deviceVars, Running
  <2> QED  BY <1>3, <2>1, WriteKeepsRun DEF Work
<1>4. CASE UNCHANGED vars
  <2>1. 0 \in Thread
    BY DEF Thread
  <2>2. UNCHANGED coordVars /\ placed' = placed /\ status' = status /\ thread' = thread
    BY <1>4 DEF vars, deviceVars
  <2> QED  BY <2>1, <2>2, StepKeepsRun DEF ThreadsGoOn
<1> QED  BY <1>1, <1>2, <1>3, <1>4 DEF Next

LEMMA RunInvHolds ==
  ASSUME StripesFit
  PROVE  Spec => [](WriterInv /\ RunInv)
<1>1. Init => WriterInv /\ RunInv
  BY InitEstablishesWriter, InitEstablishesRun
<1>2. WriterInv /\ RunInv /\ [Next]_vars => (WriterInv /\ RunInv)'
  BY NextKeepsWriter, NextKeepsRun
<1> QED  BY <1>1, <1>2, PTL DEF Spec

\* For every geometry whose channels take whole stripes: a run that has been written is
\* found again from its first page alone, across the ends of LUNs and of the channel, as
\* long as the channel has room (parallel_writer.cpp:228-264, 286-311).
THEOREM RunsAreRecovered ==
  ASSUME StripesFit
  PROVE  Spec => []RunIsRecoverable
<1>1. WriterInv /\ RunInv => RunIsRecoverable
  <2> SUFFICES ASSUME WriterInv, RunInv, pc = "idle",
                      used[call.channel] <= RoomOf(call.channel)
               PROVE  /\ DOMAIN placed = 0 .. (call.pages - 1)
                      /\ \A n \in DOMAIN placed : placed[n] = PageReadFor(n)
    BY DEF RunIsRecoverable
  <2> DEFINE c == call.channel
             s == used[c] - call.pages
  <2>1. /\ CoordTypes /\ PagesPlaced /\ i >= call.pages /\ c \in Channel /\ used[c] \in Nat
    BY DEF WriterInv, RunInv, IdleMeansDone, CoordTypes, PointersPlaced
  <2>2. call.pages \in Nat /\ i \in Nat
    BY <2>1, PagesToDo
  <2>3. PagesDone = call.pages
    BY <2>1, <2>2 DEF PagesDone
  <2>4. \A t \in Thread : ~ Wrote(t)
    BY DEF Wrote, InStripe
  <2>5. call.pages <= used[c] /\ RunAt(c, s)
    BY <2>1, <2>3 DEF PagesPlaced
  <2>6. DOMAIN placed = 0 .. (call.pages - 1)
    <3>1. DOMAIN placed = {n \in Nat : n < call.pages}
      BY <2>1, <2>3, <2>4 DEF PagesPlaced
    <3> QED  BY <2>2, <3>1
  <2>7. s \in Nat /\ s + call.pages = used[c]
    BY <2>1, <2>2, <2>5
  <2> HIDE DEF s
  <2>8. call.start = Place(c, s) /\ \A n \in DOMAIN placed : placed[n] = Place(c, s + n)
    BY <2>5 DEF RunAt
  <2>9. \A n \in 0 .. (call.pages - 1) : PageReadFor(n) = Place(c, s + n)
    BY <2>1, <2>2, <2>7, <2>8, ReaderFollows
  <2> QED  BY <2>6, <2>8, <2>9
<1> QED  BY <1>1, RunInvHolds, PTL

-----------------------------------------------------------------------------
(* The pages of the channels are different ones, and within a chunk they   *)
(* follow one another.                                                     *)

LEMMA PlaceWithRoom ==
  ASSUME StripesFit, NEW c \in Channel, NEW n \in Nat, n < RoomOf(c)
  PROVE  \E r \in Nat, l \in 0 .. (Luns(c) - 1), off \in 0 .. (lun_width - 1) :
           /\ n = Luns(c) * r + l /\ l = (n % Luns(c))
           /\ off = StartOf(c) + r * ws_min /\ StartOf(c) <= off /\ off < EndOf(c)
           /\ Place(c, n) = l * lun_width + off
<1>1. PICK r \in Nat, l \in 0 .. (Luns(c) - 1) :
        /\ n = Luns(c) * r + l /\ l = (n % Luns(c))
        /\ Place(c, n) = l * lun_width + (StartOf(c) + r * ws_min)
  BY RowOf
<1>2. l \in Nat /\ Luns(c) * r + l < RoomOf(c)
  BY <1>1
<1> DEFINE off == StartOf(c) + r * ws_min
<1>3. off \in Nat /\ off < EndOf(c) /\ off < lun_width
  BY <1>2, RowInChannel
<1>4. StartOf(c) <= off
  <2>1. r * ws_min \in Nat /\ StartOf(c) \in Nat
    BY ProductOfNats, StartsWhole
  <2> DEFINE x == r * ws_min
  <2> HIDE DEF x
  <2> QED  BY <2>1 DEF x
<1>5. off = StartOf(c) + r * ws_min
  OBVIOUS
<1> HIDE DEF off
<1>6. off \in 0 .. (lun_width - 1)
  BY <1>3, Widths
<1> QED  BY <1>1, <1>3, <1>4, <1>5, <1>6

\* No page belongs to two places, of one channel or of two.
LEMMA PlacesDiffer ==
  ASSUME StripesFit, NEW c \in Channel, NEW n \in Nat, n < RoomOf(c),
         NEW d \in Channel, NEW m \in Nat, m < RoomOf(d), Place(c, n) = Place(d, m)
  PROVE  c = d /\ n = m
<1>1. PICK r \in Nat, l \in 0 .. (Luns(c) - 1), off \in 0 .. (lun_width - 1) :
        /\ n = Luns(c) * r + l
        /\ off = StartOf(c) + r * ws_min /\ StartOf(c) <= off /\ off < EndOf(c)
        /\ Place(c, n) = l * lun_width + off
  BY PlaceWithRoom
<1>2. PICK q \in Nat, m2 \in 0 .. (Luns(d) - 1), at \in 0 .. (lun_width - 1) :
        /\ m = Luns(d) * q + m2
        /\ at = StartOf(d) + q * ws_min /\ StartOf(d) <= at /\ at < EndOf(d)
        /\ Place(d, m) = m2 * lun_width + at
  BY PlaceWithRoom
<1>3. lun_width \in Nat \ {0} /\ l \in Nat /\ m2 \in Nat /\ off \in Nat /\ at \in Nat
      /\ c \in Nat /\ d \in Nat
  BY Widths, LunsType
<1>4. l = m2 /\ off = at
  <2>1. l * lun_width + off = lun_width * l + off /\ l * lun_width + off = lun_width * m2 + at
    BY <1>1, <1>2, <1>3
  <2>2. (l * lun_width + off) \div lun_width = l /\ ((l * lun_width + off) % lun_width) = off
    BY <1>1, <1>3, <2>1, RemainderIsUnique
  <2>3. (lun_width * m2 + at) \div lun_width = m2 /\ ((lun_width * m2 + at) % lun_width) = at
    BY <1>2, <1>3, RemainderIsUnique
  <2> QED  BY <2>1, <2>2, <2>3
<1>5. c = d
  <2>1. ASSUME NEW a \in Channel, NEW b \in Channel, a < b,
               off < EndOf(a), StartOf(b) <= off
        PROVE  FALSE
    <3>1. EndOf(a) <= StartOf(b) /\ EndOf(a) \in Nat /\ StartOf(b) \in Nat
      BY <2>1, EndsOrdered
    <3> QED  BY ONLY <1>3, <2>1, <3>1
  <2>2. ~ (c < d) /\ ~ (d < c)
    BY <1>1, <1>2, <1>4, <2>1
  <2> QED  BY ONLY <1>3, <2>2
<1>6. r = q
  <2>1. r * ws_min = q * ws_min
    <3> DEFINE x == r * ws_min  y == q * ws_min
    <3>1. x \in Nat /\ y \in Nat /\ StartOf(c) \in Nat
      BY ProductOfNats, StartsWhole
    <3>2. StartOf(c) + x = StartOf(c) + y
      BY <1>1, <1>2, <1>4, <1>5
    <3> HIDE DEF x, y
    <3>3. x = y
      BY <3>1, <3>2
    <3> QED  BY <3>3 DEF x, y
  <2>2. r * ws_min = ws_min * r + 0 /\ r * ws_min = ws_min * q + 0
        /\ ws_min \in Nat \ {0} /\ 0 \in 0 .. (ws_min - 1)
    BY <2>1
  <2>3. (r * ws_min) \div ws_min = r /\ (r * ws_min) \div ws_min = q
    BY <2>2, RemainderIsUnique
  <2> QED  BY <2>3
<1> QED  BY <1>1, <1>2, <1>4, <1>5, <1>6

LEMMA PlaceIsPage ==
  ASSUME StripesFit, NEW c \in Channel, NEW n \in Nat, n < RoomOf(c)
  PROVE  Whole(Place(c, n)) /\ Place(c, n) \in Nat /\ Place(c, n) \div nsectr \in Chunk
<1>1. PICK r \in Nat, l \in 0 .. (Luns(c) - 1), off \in 0 .. (lun_width - 1) :
        /\ off = StartOf(c) + r * ws_min
        /\ Place(c, n) = l * lun_width + off
  BY PlaceWithRoom
<1>2. lun_width \in Nat \ {0} /\ l \in Nat /\ off \in Nat /\ c \in Nat
      /\ Luns(c) \in Nat \ {0} /\ nsectr \in Nat \ {0}
  BY Widths, LunsType
<1>3. Whole(Place(c, n))
  <2>1. Whole(l * lun_width) /\ Whole(r * ws_min) /\ Whole(StartOf(c))
    BY <1>2, WholeTimes, WholeChunk, StartsWhole
  <2> QED  BY <1>1, <2>1, WholeSum
<1>4. Place(c, n) \in Nat
  BY <1>3, WholeIsNat
<1>5. Place(c, n) < Luns(c) * lun_width
  <2>1. (l + 1) * lun_width <= Luns(c) * lun_width
    <3>1. l + 1 <= Luns(c) /\ l + 1 \in Nat
      BY <1>2
    <3> QED  BY <1>2, <3>1
  <2>2. (l + 1) * lun_width = l * lun_width + lun_width
    BY <1>2
  <2> DEFINE x == l * lun_width  y == Luns(c) * lun_width
  <2>3. x \in Nat /\ y \in Nat /\ x + lun_width <= y /\ Place(c, n) = x + off
    BY <1>1, <1>2, <2>1, <2>2, ProductOfNats
  <2> HIDE DEF x, y
  <2>4. Place(c, n) < y
    BY <1>2, <2>3
  <2> QED  BY <2>4 DEF y
<1> DEFINE P == npugrp * npunit
           chunks == npugrp * npunit * nchunk
<1>6. Luns(c) <= P /\ P \in Nat
  <2>1. c + 1 <= npugrp /\ c + 1 \in Nat /\ npugrp \in Nat /\ npunit \in Nat
    BY DEF Channel
  <2>2. (c + 1) * npunit <= npugrp * npunit
    BY <2>1
  <2> QED  BY <2>1, <2>2, ProductOfNats DEF Luns
<1>7. Luns(c) * lun_width <= P * lun_width
  <2> HIDE DEF P
  <2> QED  BY <1>2, <1>6
<1>8. P * lun_width = nsectr * chunks /\ chunks \in Nat
  <2>1. P \in Nat /\ nchunk \in Nat /\ nsectr \in Nat /\ chunks = P * nchunk
    BY <1>6
  <2> HIDE DEF P, chunks
  <2>2. P * (nchunk * nsectr) = nsectr * (P * nchunk)
    BY <2>1
  <2> QED  BY <2>1, <2>2, ProductOfNats DEF lun_width
<1>9. Place(c, n) < nsectr * chunks
  <2> DEFINE x == Luns(c) * lun_width  y == nsectr * chunks
  <2>1. x \in Nat /\ y \in Nat /\ Place(c, n) < x /\ x <= y
    BY <1>2, <1>5, <1>7, <1>8, ProductOfNats
  <2> HIDE DEF x, y
  <2>2. Place(c, n) < y
    BY <1>4, <2>1
  <2> QED  BY <2>2 DEF y
<1> DEFINE q == Place(c, n) \div nsectr
<1>10. q \in Nat /\ nsectr * q <= Place(c, n)
  <2> DEFINE rest == (Place(c, n) % nsectr)
             x == nsectr * q
  <2>1. q \in Nat /\ rest \in 0 .. (nsectr - 1) /\ Place(c, n) = x + rest
    BY <1>2, <1>4, QuotientAndRemainder
  <2>2. x \in Nat
    BY <1>2, <2>1, ProductOfNats
  <2> HIDE DEF q, rest, x
  <2>3. x <= Place(c, n)
    BY <1>2, <2>1, <2>2
  <2> QED  BY <2>1, <2>3 DEF x
<1>11. q < chunks
  <2> HIDE DEF q, chunks
  <2>1. ASSUME chunks <= q PROVE FALSE
    <3>1. nsectr * chunks <= nsectr * q
      BY <1>2, <1>8, <1>10, <2>1
    <3> DEFINE x == nsectr * chunks  y == nsectr * q
    <3>2. x \in Nat /\ y \in Nat /\ x <= y /\ y <= Place(c, n) /\ Place(c, n) < x
      BY <1>2, <1>8, <1>9, <1>10, <3>1, ProductOfNats
    <3> HIDE DEF x, y
    <3> QED  BY <1>4, <3>2
  <2> QED  BY <1>8, <1>10, <2>1
<1>12. Place(c, n) \div nsectr \in Chunk
  <2> HIDE DEF q
  <2>1. q \in 0 .. (chunks - 1)
    <3> HIDE DEF chunks
    <3> QED  BY <1>8, <1>10, <1>11
  <2> QED  BY <2>1 DEF Chunk, q
<1> QED  BY <1>3, <1>4, <1>12

\* The page before one that is not the first of its chunk is that of the row before.
LEMMA PageBefore ==
  ASSUME StripesFit, NEW c \in Channel, NEW n \in Nat, n < RoomOf(c),
         (Place(c, n) % nsectr) # 0
  PROVE  n - Luns(c) \in Nat /\ Place(c, n) = Place(c, n - Luns(c)) + ws_min
<1>1. PICK r \in Nat, l \in 0 .. (Luns(c) - 1) :
        /\ n = Luns(c) * r + l /\ l = (n % Luns(c))
        /\ Place(c, n) = l * lun_width + (StartOf(c) + r * ws_min)
  BY RowOf
<1>2. lun_width \in Nat \ {0} /\ l \in Nat /\ c \in Nat /\ StartOf(c) \in Nat
      /\ Luns(c) \in Nat \ {0} /\ nsectr \in Nat \ {0} /\ ws_min \in Nat
  BY Widths, LunsType, StartsWhole
<1>3. r # 0
  <2> SUFFICES ASSUME r = 0 PROVE FALSE
    OBVIOUS
  <2> DEFINE s == npugrp * npunit
  <2>1. Place(c, n) = l * (nchunk * nsectr) + c * (npugrp * (npunit * nsectr))
    <3>1. 0 * ws_min = 0
      BY <1>2
    <3> DEFINE x == StartOf(c)
    <3>2. x + 0 = x
      BY <1>2
    <3> HIDE DEF x
    <3>3. Place(c, n) = l * lun_width + x
      BY <1>1, <3>1, <3>2 DEF x
    <3> QED  BY <3>3 DEF x, StartOf, lun_width
  <2>2. /\ l * (nchunk * nsectr) = nsectr * (l * nchunk) /\ l * nchunk \in Nat
        /\ c * (npugrp * (npunit * nsectr)) = nsectr * (c * s) /\ c * s \in Nat
    <3>1. l * (nchunk * nsectr) = nsectr * (l * nchunk)
      BY <1>2
    <3>2. npugrp * (npunit * nsectr) = nsectr * s /\ s \in Nat
      OBVIOUS
    <3> HIDE DEF s
    <3>3. c * (nsectr * s) = nsectr * (c * s)
      BY <1>2, <3>2
    <3> QED  BY <1>2, <3>1, <3>2, <3>3, ProductOfNats
  <2> DEFINE a == l * nchunk  b == c * s
  <2>3. a \in Nat /\ b \in Nat /\ Place(c, n) = nsectr * a + nsectr * b
    BY <2>1, <2>2
  <2> HIDE DEF a, b
  <2>4. Place(c, n) = nsectr * (a + b) + 0 /\ a + b \in Nat /\ 0 \in 0 .. (nsectr - 1)
    BY <1>2, <2>3
  <2>5. (Place(c, n) % nsectr) = 0
    BY <1>2, <2>4, RemainderIsUnique
  <2> QED  BY <2>5
<1>4. r - 1 \in Nat /\ Luns(c) * r = Luns(c) * (r - 1) + Luns(c)
      /\ r * ws_min = (r - 1) * ws_min + ws_min
  BY <1>2, <1>3
<1>5. /\ Luns(c) * (r - 1) + l \in Nat
      /\ Place(c, Luns(c) * (r - 1) + l) = l * lun_width + (StartOf(c) + (r - 1) * ws_min)
  BY <1>4, PlaceInRow
<1>6. n - Luns(c) = Luns(c) * (r - 1) + l
  <2> DEFINE x == Luns(c) * (r - 1)
  <2>1. x \in Nat /\ n = (x + Luns(c)) + l
    BY <1>1, <1>2, <1>4, ProductOfNats
  <2> HIDE DEF x
  <2>2. n - Luns(c) = x + l
    BY <1>2, <2>1
  <2> QED  BY <2>2 DEF x
<1>7. Place(c, n) = Place(c, n - Luns(c)) + ws_min
  <2> DEFINE x == l * lun_width  y == (r - 1) * ws_min
  <2>1. x \in Nat /\ y \in Nat
    BY <1>2, <1>4, ProductOfNats
  <2>2. Place(c, n) = x + (StartOf(c) + (y + ws_min))
    BY <1>1, <1>4
  <2>3. Place(c, n - Luns(c)) = x + (StartOf(c) + y)
    BY <1>5, <1>6
  <2> HIDE DEF x, y
  <2> QED  BY <1>2, <2>1, <2>2, <2>3
<1> QED  BY <1>5, <1>6, <1>7

-----------------------------------------------------------------------------
(* The device takes every page as long as there is room.                   *)

\* The page belongs to a channel's pages so far: of stripes that are done, or of the one
\* that is being written.
Written(p) ==
  \E c \in Channel, n \in Nat :
    /\ p = Place(c, n)
    /\ \/ n < used[c]
       \/ c = call.channel /\ \E t \in Thread : Wrote(t) /\ n = used[c] + t

AllInRoom == \A c \in Channel : used[c] <= RoomOf(c)

\* The device has what was written, and nothing else.
DeviceHolds ==
  \A p \in Nat : Whole(p) /\ p \div nsectr \in Chunk =>
    ((p % nsectr) < wp[p \div nsectr] <=> Written(p))

DeviceInv ==
  /\ \A x \in Chunk : Whole(wp[x])
  /\ Running /\ AllInRoom => DeviceHolds
  /\ RefusedOnlyWhenFull

LEMMA InitEstablishesDevice == Init => DeviceInv
<1> SUFFICES ASSUME Init PROVE DeviceInv
  OBVIOUS
<1>1. /\ wp = [x \in Chunk |-> 0] /\ used = [c \in Channel |-> 0] /\ status = "running"
      /\ pc = "idle"
  BY DEF Init
<1>2. Whole(0)
  <2>1. 0 = 0 * ws_min
    OBVIOUS
  <2> QED  BY <2>1 DEF Whole
<1>3. DeviceHolds
  <2> SUFFICES ASSUME NEW p \in Nat, p \div nsectr \in Chunk
               PROVE  ~ ((p % nsectr) < wp[p \div nsectr]) /\ ~ Written(p)
    BY DEF DeviceHolds
  <2>1. (p % nsectr) \in 0 .. (nsectr - 1) /\ nsectr \in Nat \ {0}
    BY QuotientAndRemainder
  <2>2. wp[p \div nsectr] = 0
    BY <1>1
  <2>3. ~ Written(p)
    BY <1>1 DEF Written, Wrote, InStripe
  <2> HIDE DEF Written
  <2> QED  BY <2>1, <2>2, <2>3
<1> QED  BY <1>1, <1>2, <1>3 DEF DeviceInv, RefusedOnlyWhenFull

\* A step that writes no page.
LEMMA SameDevice ==
  ASSUME DeviceInv, wp' = wp, used' = used,
         Running' => (Running /\ \A p \in Nat : Written(p)' <=> Written(p)),
         status' = "refused" => status = "refused"
  PROVE  DeviceInv'
<1>1. \A c \in Channel : RoomOf(c)' = RoomOf(c)
  BY Zenon DEF RoomOf, StartOf, Channel, lun_width
<1>2. (\A x \in Chunk : Whole(wp[x]))'
  BY Zenon DEF DeviceInv, Whole, Chunk
<1>3. AllInRoom' => AllInRoom
  BY <1>1, Zenon DEF AllInRoom, Channel
<1>4. (Running /\ AllInRoom => DeviceHolds)'
  <2> SUFFICES ASSUME Running', AllInRoom' PROVE DeviceHolds'
    OBVIOUS
  <2>1. DeviceHolds /\ \A p \in Nat : Written(p)' <=> Written(p)
    BY <1>3 DEF DeviceInv
  <2> QED  BY <2>1, Zenon DEF DeviceHolds, Whole, Chunk
<1>5. RefusedOnlyWhenFull'
  <2> SUFFICES ASSUME status' = "refused" PROVE \E c \in Channel : used'[c] >= RoomOf(c)
    BY <1>1, Zenon DEF RefusedOnlyWhenFull, Channel, RoomOf, StartOf, lun_width
  <2> QED  BY DEF DeviceInv, RefusedOnlyWhenFull
<1> QED  BY <1>2, <1>4, <1>5 DEF DeviceInv

LEMMA SameWritten ==
  ASSUME used' = used, call' = call, \A t \in Thread : Wrote(t)' <=> Wrote(t)
  PROVE  \A p \in Nat : Written(p)' <=> Written(p)
BY Zenon DEF Written, Place, Luns, StartOf, Channel, lun_width, Thread

LEMMA CoordinatorKeepsDevice ==
  ASSUME StripesFit, WriterInv, RunInv, DeviceInv,
         \/ \E c \in Channel, n \in RunPages : Call(c, n)
         \/ Fill \/ Return \/ Launch \/ Join
  PROVE  DeviceInv'
<1>1. /\ Running /\ wp' = wp /\ used' = used /\ status' \in {"running", "crashed", "exited"}
  BY DEF Call, Fill, Return, Launch, Join, LoopTurn, Running, End, deviceVars
<1>2. CASE \E c \in Channel, n \in RunPages : Call(c, n)
  <2>1. \A t \in Thread : ~ Wrote(t) /\ ~ Wrote(t)'
    BY <1>2 DEF Call, Wrote, InStripe
  <2>2. \A p \in Nat : Written(p)' <=> Written(p)
    BY <1>1, <2>1, Zenon DEF Written, Place, Luns, StartOf, Channel, lun_width, Thread
  <2> QED  BY <1>1, <2>2, SameDevice
<1>3. CASE Fill \/ Return
  <2>1. \A t \in Thread : ~ Wrote(t) /\ ~ Wrote(t)'
    BY <1>3 DEF Fill, Return, Wrote, InStripe, Thread
  <2>2. call' = call
    BY <1>3 DEF Fill, Return
  <2> QED  BY <1>1, <2>1, <2>2, SameWritten, SameDevice
<1>4. CASE Launch
  <2>1. /\ ThreadTypes /\ k \in Thread /\ call' = call
    BY <1>4 DEF WriterInv, CoordTypes, Launch
  <2>2. /\ pc = "launch"
        /\ \/ k + 1 \in Thread /\ k' = k + 1 /\ pc' = "launch"
           \/ k = max_os_threads - 1 /\ k' = 0 /\ pc' = "join"
    BY <1>4, <2>1, TurnOfLoop DEF Launch
  <2>3. Running' => StartThread(k, j + k)
    BY <1>4 DEF Launch, End, Running
  <2>4. ASSUME StartThread(k, j + k), NEW t \in Thread PROVE Wrote(t)' <=> Wrote(t)
    <3>0. t \in 0 .. (max_os_threads - 1) /\ k \in 0 .. (max_os_threads - 1)
      BY <2>1 DEF Thread
    <3>1. CASE t = k
      <4>1. ~ InStripe(t)
        BY <2>2, <3>0, <3>1 DEF InStripe
      <4>2. thread'[t].state = "start"
        BY <2>1, <2>4, <3>1 DEF StartThread, ThreadTypes
      <4> QED  BY <4>1, <4>2 DEF Wrote
    <3>2. CASE t # k
      <4>1. thread'[t] = thread[t]
        BY <2>1, <2>4, <3>2 DEF StartThread, ThreadTypes
      <4>2. InStripe(t)' <=> InStripe(t)
        BY <2>2, <3>0, <3>2 DEF InStripe
      <4> QED  BY <4>1, <4>2 DEF Wrote
    <3> QED  BY <3>1, <3>2
  <2>5. Running' => \A p \in Nat : Written(p)' <=> Written(p)
    BY <1>1, <2>1, <2>3, <2>4, SameWritten
  <2> QED  BY <1>1, <2>5, SameDevice
<1>5. CASE Join
  <2>1. /\ k \in Thread /\ call' = call /\ thread' = thread
    BY <1>5 DEF WriterInv, CoordTypes, Join
  <2>2. pc = "join" /\ pc' \in {"join", "advance"}
    BY <1>5, <2>1, TurnOfLoop DEF Join
  <2>3. \A t \in Thread : Wrote(t)' <=> Wrote(t)
    BY <2>1, <2>2 DEF Wrote, InStripe
  <2> QED  BY <1>1, <2>1, <2>3, SameWritten, SameDevice
<1> QED  BY <1>2, <1>3, <1>4, <1>5

LEMMA AdvanceKeepsDevice ==
  ASSUME StripesFit, WriterInv, RunInv, DeviceInv, Advance
  PROVE  DeviceInv'
<1> DEFINE M == max_os_threads
           c == call.channel
<1>1. /\ Running /\ Running' /\ status' # "refused" /\ wp' = wp /\ call' = call
      /\ used' = [used EXCEPT ![c] = @ + M]
      /\ c \in Channel /\ used \in [Channel -> Nat]
  BY DEF Advance, Running, deviceVars, WriterInv, CoordTypes, RunInv, PointersPlaced
<1>2. \A t \in Thread : Wrote(t) /\ ~ Wrote(t)'
  BY StripeDone DEF Wrote
<1>3. M \in Nat \ {0}
  OBVIOUS
<1>4. \A d \in Channel : used[d] \in Nat /\ used'[d] = IF d = c THEN used[d] + M ELSE used[d]
  BY <1>1
<1>5. \A d \in Channel : RoomOf(d)' = RoomOf(d) /\ RoomOf(d) \in Nat
  <2>1. \A d \in Channel : RoomOf(d)' = RoomOf(d)
    BY Zenon DEF RoomOf, StartOf, Channel, lun_width
  <2> QED  BY <2>1, StripesInRow
<1> HIDE DEF M, c
<1>6. AllInRoom' => AllInRoom
  <2> SUFFICES ASSUME AllInRoom', NEW d \in Channel PROVE used[d] <= RoomOf(d)
    BY DEF AllInRoom
  <2>1. used'[d] <= RoomOf(d)
    BY <1>5, Zenon DEF AllInRoom, Channel
  <2>2. used[d] <= used'[d]
    BY <1>3, <1>4
  <2> QED  BY <1>3, <1>4, <1>5, <2>1, <2>2
<1>7. ASSUME NEW p \in Nat PROVE Written(p)' <=> Written(p)
  <2>1. ASSUME NEW d \in Channel, NEW n \in Nat
        PROVE  n < used'[d] <=> \/ n < used[d]
                                \/ d = c /\ \E t \in Thread : Wrote(t) /\ n = used[d] + t
    <3>1. CASE d = c
      <4>1. ASSUME n < used[d] + M, ~ (n < used[d])
            PROVE  \E t \in Thread : Wrote(t) /\ n = used[d] + t
        <5>1. n - used[d] \in Thread /\ n = used[d] + (n - used[d])
          BY <1>3, <1>4, <4>1 DEF Thread, M
        <5> QED  BY <1>2, <5>1
      <4>2. ASSUME NEW t \in Thread, n = used[d] + t PROVE n < used[d] + M
        BY <1>3, <1>4, <4>2 DEF Thread, M
      <4>3. n < used[d] => n < used[d] + M
        BY <1>3, <1>4
      <4> QED  BY <1>4, <3>1, <4>1, <4>2, <4>3
    <3>2. CASE d # c
      BY <1>4, <3>2
    <3> QED  BY <3>1, <3>2
  <2>2. Written(p) <=> \E d \in Channel, n \in Nat : p = Place(d, n) /\ n < used'[d]
    BY <2>1, Zenon DEF Written, c
  <2>3. Written(p)' <=> \E d \in Channel, n \in Nat : p = Place(d, n) /\ n < used'[d]
    BY <1>2, Zenon DEF Written, Place, Luns, StartOf, Channel, lun_width, Thread
  <2> QED  BY <2>2, <2>3
<1>8. (\A x \in Chunk : Whole(wp[x]))'
  BY <1>1, Zenon DEF DeviceInv, Whole, Chunk
<1>9. (Running /\ AllInRoom => DeviceHolds)'
  <2> SUFFICES ASSUME AllInRoom' PROVE DeviceHolds'
    OBVIOUS
  <2>1. DeviceHolds
    BY <1>1, <1>6 DEF DeviceInv
  <2> QED  BY <1>1, <1>7, <2>1, Zenon DEF DeviceHolds, Whole, Chunk
<1> QED  BY <1>1, <1>8, <1>9 DEF DeviceInv, RefusedOnlyWhenFull

\* No page that a thread has still to write is on the device.
LEMMA NotYetWritten ==
  ASSUME StripesFit, RunInv, NEW t \in Thread, NEW c \in Channel, c = call.channel,
         thread[t].state = "start", \A d \in Channel : used[d] < RoomOf(d)
  PROVE  /\ used[c] + t \in Nat /\ used[c] + t < RoomOf(c) /\ t \in Nat
         /\ ~ Written(Place(c, used[c] + t))
<1>1. \A d \in Channel : used[d] \in Nat /\ Striped(used[d]) /\ RoomOf(d) \in Nat
  BY StripesInRow DEF RunInv, PointersPlaced
<1>2. ASSUME NEW s \in Thread, NEW d \in Channel
      PROVE  used[d] + s \in Nat /\ used[d] + s < RoomOf(d) /\ s \in Nat
  <2>1. used[d] + max_os_threads <= RoomOf(d)
    BY <1>1, StripesInRow
  <2>2. s \in Nat /\ s < max_os_threads /\ max_os_threads \in Nat
    BY DEF Thread
  <2> QED  BY ONLY <1>1, <2>1, <2>2, d \in Channel
<1>3. ASSUME Written(Place(c, used[c] + t)) PROVE FALSE
  <2>1. PICK d \in Channel, n \in Nat :
          /\ Place(c, used[c] + t) = Place(d, n)
          /\ \/ n < used[d]
             \/ d = call.channel /\ \E s \in Thread : Wrote(s) /\ n = used[d] + s
    BY <1>3 DEF Written
  <2>2. n < RoomOf(d)
    BY <1>1, <1>2, <2>1
  <2>3. c = d /\ used[c] + t = n
    BY <1>2, <2>1, <2>2, PlacesDiffer
  <2>4. ~ (n < used[d])
    BY <1>1, <1>2, <2>3
  <2>5. PICK s \in Thread : Wrote(s) /\ n = used[d] + s
    BY <2>1, <2>4
  <2>6. s = t
    BY <1>1, <1>2, <2>3, <2>5
  <2> QED  BY <2>5, <2>6 DEF Wrote
<1> QED  BY <1>2, <1>3

\* As long as there is room, what a thread writes is the next page of its chunk.
LEMMA AcceptsWithRoom ==
  ASSUME StripesFit, WriterInv, RunInv, DeviceInv, Running, NEW t \in Thread,
         thread[t].state = "start", \A d \in Channel : used[d] < RoomOf(d)
  PROVE  Accepts(thread[t].page)
<1> DEFINE c == call.channel
           n == used[c] + t
           page == Place(c, n)
           x == page \div nsectr
           o == (page % nsectr)
<1>1. /\ c \in Channel /\ used[c] \in Nat /\ RoomOf(c) \in Nat /\ DeviceTypes
  BY StripesInRow DEF WriterInv, CoordTypes, RunInv, PointersPlaced
<1>2. n \in Nat /\ n < RoomOf(c) /\ t \in Nat /\ ~ Written(page)
  BY <1>1, NotYetWritten
<1>3. thread[t].page = page
  <2>1. InPlace(t)
    BY ActiveMeansBusy DEF Active
  <2>2. used[c] <= RoomOf(c)
    BY <1>1
  <2> QED  BY <2>1, <2>2, PageOfStripe DEF InPlace
<1>4. /\ Whole(page) /\ page \in Nat /\ x \in Chunk
  BY <1>1, <1>2, PlaceIsPage
<1>5. DeviceHolds
  <2>1. AllInRoom
    BY StripesInRow DEF AllInRoom, RunInv, PointersPlaced
  <2> QED  BY <2>1 DEF DeviceInv
<1>6. /\ nsectr \in Nat \ {0} /\ ws_min \in Nat \ {0} /\ o \in 0 .. (nsectr - 1) /\ Whole(o)
      /\ wp[x] \in Nat /\ Whole(wp[x]) /\ page = nsectr * x + o /\ x \in Nat
  <2>1. nsectr \in Nat \ {0} /\ ws_min \in Nat \ {0}
    OBVIOUS
  <2>2. Whole(o)
    BY <1>4, <2>1, WholeMod, WholeChunk
  <2>3. wp[x] \in Nat /\ Whole(wp[x])
    BY <1>1, <1>4 DEF DeviceTypes, DeviceInv
  <2> HIDE DEF page
  <2>4. o \in 0 .. (nsectr - 1) /\ page = nsectr * x + o /\ x \in Nat
    BY <1>4, <2>1, QuotientAndRemainder
  <2> QED  BY <2>1, <2>2, <2>3, <2>4
<1>7. ~ (o < wp[x])
  BY <1>2, <1>4, <1>5 DEF DeviceHolds
<1>8. o <= wp[x]
  <2>1. CASE o = 0
    <3> HIDE DEF o, x, page
    <3> QED  BY <1>6, <2>1
  <2>2. CASE o # 0
    <3> DEFINE m == n - Luns(c)
               before == Place(c, m)
    <3>1. m \in Nat /\ page = before + ws_min
      BY <1>1, <1>2, <2>2, PageBefore
    <3>2. m < used[c] /\ m < RoomOf(c)
      <4>1. t < max_os_threads /\ max_os_threads <= Luns(c) /\ Luns(c) \in Nat
            /\ max_os_threads \in Nat
        BY <1>1, StripesInRow, LunsType DEF Thread
      <4> QED  BY ONLY <1>1, <1>2, <4>1
    <3>3. Whole(before) /\ before \in Nat
      BY <1>1, <3>1, <3>2, PlaceIsPage
    <3>4. Written(before)
      BY <1>1, <3>1, <3>2 DEF Written
    <3>5. ws_min <= o
      <4>1. Whole(0)
        <5>1. 0 = 0 * ws_min
          BY <1>6
        <5> QED  BY <5>1 DEF Whole
      <4>2. 0 < o
        BY <1>6, <2>2
      <4>3. 0 + ws_min <= o
        BY <1>6, <4>1, <4>2, WholeFits
      <4> QED  BY <1>6, <4>3
    <3> HIDE DEF before, m, page
    <3>6. before = nsectr * x + (o - ws_min) /\ o - ws_min \in 0 .. (nsectr - 1)
      <4> DEFINE y == nsectr * x
      <4>1. y \in Nat /\ page = y + o
        BY <1>6, ProductOfNats
      <4> HIDE DEF y, x, o
      <4>2. before = y + (o - ws_min) /\ o - ws_min \in 0 .. (nsectr - 1)
        BY <1>6, <3>1, <3>3, <3>5, <4>1
      <4> QED  BY <4>2 DEF y
    <3>7. before \div nsectr = x /\ (before % nsectr) = o - ws_min
      <4> HIDE DEF x, o
      <4> QED  BY <1>6, <3>6, RemainderIsUnique
    <3>8. o - ws_min < wp[x]
      <4> HIDE DEF x, o
      <4> QED  BY <1>4, <1>5, <3>3, <3>4, <3>7 DEF DeviceHolds
    <3>9. Whole(o - ws_min)
      <4>1. Whole(before % nsectr)
        BY <1>6, <3>3, WholeMod, WholeChunk
      <4> QED  BY <3>7, <4>1
    <3>10. (o - ws_min) + ws_min <= wp[x]
      BY <1>6, <3>8, <3>9, WholeFits
    <3> HIDE DEF o, x
    <3> QED  BY <1>6, <3>10
  <2> QED  BY <2>1, <2>2
<1>9. o = wp[x]
  <2> HIDE DEF o, x
  <2> QED  BY <1>6, <1>7, <1>8
<1> QED  BY <1>3, <1>4, <1>9 DEF Accepts

LEMMA WriteKeepsDevice ==
  ASSUME StripesFit, WriterInv, RunInv, DeviceInv, NEW t \in Thread, Write(t)
  PROVE  DeviceInv'
<1> DEFINE page == thread[t].page
           x == page \div nsectr
           c == call.channel
<1>1. /\ UNCHANGED coordVars /\ ThreadTypes /\ Active(t) /\ Running /\ thread[t].state = "start"
      /\ c \in Channel /\ DeviceTypes
  BY DEF WriterInv, CoordTypes, Write, Active
<1>2. used' = used /\ call' = call
  BY <1>1 DEF coordVars
<1>3. \/ /\ Accepts(page) /\ wp' = [wp EXCEPT ![x] = @ + ws_min]
         /\ Goto(t, "load") /\ status' = status
      \/ ~ Accepts(page) /\ status' = "refused" /\ wp' = wp
      \/ status' = "exited" /\ wp' = wp
  BY DEF Write, End, deviceVars
<1>4. \A d \in Channel : RoomOf(d)' = RoomOf(d)
  BY Zenon DEF RoomOf, StartOf, Channel, lun_width
<1>5. CASE status' = "exited" /\ wp' = wp
  BY <1>2, <1>5, SameDevice DEF Running
<1>6. CASE ~ Accepts(page) /\ status' = "refused" /\ wp' = wp
  <2>1. (\A y \in Chunk : Whole(wp[y]))'
    BY <1>6, Zenon DEF DeviceInv, Whole, Chunk
  <2>2. \E d \in Channel : used[d] >= RoomOf(d)
    <3> SUFFICES ASSUME \A d \in Channel : ~ (used[d] >= RoomOf(d)) PROVE FALSE
      OBVIOUS
    <3>1. \A d \in Channel : used[d] < RoomOf(d)
      BY StripesInRow DEF RunInv, PointersPlaced
    <3> QED  BY <1>1, <1>6, <3>1, AcceptsWithRoom
  <2>3. RefusedOnlyWhenFull'
    BY <1>2, <1>4, <2>2, Zenon DEF RefusedOnlyWhenFull, Channel, RoomOf, StartOf, lun_width
  <2> QED  BY <1>6, <2>1, <2>3 DEF DeviceInv, Running
<1>7. ASSUME Accepts(page), wp' = [wp EXCEPT ![x] = @ + ws_min], Goto(t, "load"),
             status' = status
      PROVE  DeviceInv'
  <2>1. \A s \in Thread : Wrote(s)' <=> (Wrote(s) \/ s = t)
    BY <1>7, PageTaken
  <2>2. InPlace(t)
    BY <1>1, ActiveMeansBusy
  <2>3. x \in Chunk /\ (page % nsectr) = wp[x]
    BY <1>7 DEF Accepts
  <2>4. \A y \in Chunk : wp'[y] = IF y = x THEN wp[x] + ws_min ELSE wp[y]
    BY <1>1, <1>7, <2>3 DEF DeviceTypes
  <2>5. (\A y \in Chunk : Whole(wp[y]))'
    <3>1. \A y \in Chunk : Whole(wp[y]) /\ Whole(wp[y] + ws_min)
      BY WholeSum, WholeChunk DEF DeviceInv
    <3>2. \A y \in Chunk : Whole(wp'[y])
      BY <2>4, <3>1
    <3> QED  BY <3>2, Zenon DEF Whole, Chunk
  <2>6. RefusedOnlyWhenFull'
    BY <1>1, <1>7 DEF RefusedOnlyWhenFull, Running
  <2>7. ASSUME AllInRoom PROVE DeviceHolds'
    <3>1. DeviceHolds
      BY <1>1, <2>7 DEF DeviceInv
    <3>2. page = Place(c, used[c] + t) /\ used[c] \in Nat /\ t \in Nat /\ used[c] + t \in Nat
      <4>1. page = Place(c, used[c] + t)
        BY <1>1, <2>2, <2>7, PageOfStripe DEF InPlace, AllInRoom
      <4>2. used[c] \in Nat /\ t \in Nat
        BY <1>1 DEF RunInv, PointersPlaced, Thread
      <4> QED  BY <4>1, <4>2
    <3>3. ASSUME NEW p \in Nat PROVE Written(p)' <=> (Written(p) \/ p = page)
      <4>1. Written(p)' <=>
              \E d \in Channel, n \in Nat :
                /\ p = Place(d, n)
                /\ \/ n < used[d]
                   \/ d = c /\ \E s \in Thread : (Wrote(s) \/ s = t) /\ n = used[d] + s
        BY <1>2, <2>1, Zenon DEF Written, Place, Luns, StartOf, Channel, lun_width, Thread
      <4>2. Written(p) <=>
              \E d \in Channel, n \in Nat :
                /\ p = Place(d, n)
                /\ \/ n < used[d]
                   \/ d = c /\ \E s \in Thread : Wrote(s) /\ n = used[d] + s
        BY Zenon DEF Written
      <4> HIDE DEF c, page
      <4>3. p = page => Written(p)'
        BY <1>1, <3>2, <4>1, Zenon
      <4> QED  BY <3>2, <4>1, <4>2, <4>3, Zenon
    <3> SUFFICES ASSUME NEW p \in Nat, Whole(p), p \div nsectr \in Chunk
                 PROVE  (p % nsectr) < wp'[p \div nsectr] <=> Written(p)'
      BY Zenon DEF DeviceHolds, Whole, Chunk
    <3> DEFINE y == p \div nsectr
               o == (p % nsectr)
    <3>4. o < wp[y] <=> Written(p)
      BY <3>1 DEF DeviceHolds
    <3>5. /\ nsectr \in Nat \ {0} /\ ws_min \in Nat \ {0} /\ o \in Nat /\ Whole(o)
          /\ p = nsectr * y + o
      <4>1. nsectr \in Nat \ {0} /\ ws_min \in Nat \ {0}
        OBVIOUS
      <4>2. Whole(o) /\ o \in 0 .. (nsectr - 1)
        BY <4>1, WholeMod, WholeChunk
      <4>3. p = nsectr * y + o
        BY <4>1, QuotientAndRemainder
      <4> HIDE DEF o
      <4> QED  BY <4>1, <4>2, <4>3
    <3>6. CASE y # x
      <4>1. p # page
        BY <3>6
      <4> QED  BY <2>4, <3>3, <3>4, <3>6, <4>1
    <3>7. CASE y = x
      <4>1. page \in Nat /\ page = nsectr * x + wp[x] /\ wp[x] \in Nat /\ Whole(wp[x])
        <5>1. page \in Nat
          <6>1. Whole(channel_current_pointer[c]) /\ Whole(t * lun_width)
            BY <1>1, <3>2, WholeChunk, WholeTimes DEF WriterInv, PointersWhole
          <6>2. page = channel_current_pointer[c] + t * lun_width
            BY <2>2 DEF InPlace, PageOf
          <6> QED  BY <6>1, <6>2, WholeSum, WholeIsNat
        <5>2. wp[x] \in Nat /\ Whole(wp[x])
          BY <1>1, <2>3 DEF DeviceTypes, DeviceInv
        <5>3. page = nsectr * x + (page % nsectr)
          <6> HIDE DEF page
          <6> QED  BY <3>5, <5>1, QuotientAndRemainder
        <5> QED  BY <2>3, <5>1, <5>2, <5>3
      <4>2. o < wp[x] + ws_min <=> (o < wp[x] \/ o = wp[x])
        <5>1. ASSUME wp[x] < o PROVE wp[x] + ws_min <= o
          BY <3>5, <4>1, <5>1, WholeFits
        <5> HIDE DEF o, x
        <5> QED  BY <3>5, <4>1, <5>1
      <4>3. o = wp[x] <=> p = page
        <5>1. p = page => o = wp[x]
          BY <2>3
        <5>2. o = wp[x] => p = page
          BY <3>5, <3>7, <4>1
        <5> QED  BY <5>1, <5>2
      <4>4. wp'[y] = wp[x] + ws_min
        BY <2>4, <3>7
      <4> HIDE DEF o, y, x, page
      <4>5. o < wp'[y] <=> (Written(p) \/ p = page)
        BY <3>4, <3>7, <4>2, <4>3, <4>4
      <4> QED  BY <3>3, <4>5 DEF o, y
    <3> QED  BY <3>6, <3>7
  <2>8. (Running /\ AllInRoom => DeviceHolds)'
    <3>1. AllInRoom' => AllInRoom
      BY <1>2, <1>4, Zenon DEF AllInRoom, Channel
    <3> QED  BY <2>7, <3>1
  <2> QED  BY <2>5, <2>6, <2>8 DEF DeviceInv
<1> QED  BY <1>3, <1>5, <1>6, <1>7

LEMMA NextKeepsDevice ==
  ASSUME StripesFit, WriterInv, RunInv, DeviceInv, [Next]_vars
  PROVE  DeviceInv'
<1>1. CASE \E c \in Channel, n \in RunPages : Call(c, n)
  BY <1>1, CoordinatorKeepsDevice
<1>2. CASE Coordinate
  BY <1>2, CoordinatorKeepsDevice, AdvanceKeepsDevice DEF Coordinate
<1>3. ASSUME NEW t \in Thread, Work(t) PROVE DeviceInv'
  <2>1. CASE LoadWrites(t) \/ StoreWrites(t) \/ Verify(t)
    <3>1. /\ UNCHANGED coordVars /\ UNCHANGED deviceVars /\ Running
          /\ \/ status' = status /\ ThreadsGoOn
             \/ status' = "exited"
      BY <2>1, ThreadGoesOn DEF LoadWrites, StoreWrites, Verify
    <3>2. wp' = wp /\ used' = used /\ call' = call /\ \A s \in Thread : InStripe(s)' <=> InStripe(s)
      BY <3>1 DEF coordVars, deviceVars, InStripe
    <3>3. ThreadsGoOn => \A s \in Thread : Wrote(s)' <=> Wrote(s)
      BY <3>2 DEF ThreadsGoOn, Wrote
    <3>4. ThreadsGoOn => \A p \in Nat : Written(p)' <=> Written(p)
      BY <3>2, <3>3, SameWritten
    <3> QED  BY <3>1, <3>2, <3>4, SameDevice DEF Running
  <2> QED  BY <1>3, <2>1, WriteKeepsDevice DEF Work
<1>4. CASE UNCHANGED vars
  <2>1. wp' = wp /\ used' = used /\ call' = call /\ status' = status
        /\ \A s \in Thread : Wrote(s)' <=> Wrote(s)
    BY <1>4 DEF vars, coordVars, deviceVars, Wrote, InStripe
  <2> QED  BY <2>1, SameWritten, SameDevice DEF Running
<1> QED  BY <1>1, <1>2, <1>3, <1>4 DEF Next

\* For every geometry whose channels take whole stripes: as long as every channel has
\* room, the device accepts each page the coordinator chooses
\* (parallel_writer.cpp:228-233, 257-264).
THEOREM PagesAreAccepted ==
  ASSUME StripesFit
  PROVE  Spec => []RefusedOnlyWhenFull
<1>1. Init => WriterInv /\ RunInv /\ DeviceInv
  BY InitEstablishesWriter, InitEstablishesRun, InitEstablishesDevice
<1>2. WriterInv /\ RunInv /\ DeviceInv /\ [Next]_vars => (WriterInv /\ RunInv /\ DeviceInv)'
  BY NextKeepsWriter, NextKeepsRun, NextKeepsDevice
<1>3. DeviceInv => RefusedOnlyWhenFull
  BY DEF DeviceInv
<1> QED  BY <1>1, <1>2, <1>3, PTL DEF Spec
=============================================================================
