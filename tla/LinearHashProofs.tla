-------------------------- MODULE LinearHashProofs --------------------------
(***************************************************************************)
(* The linear hash index: the state stays well formed, and before a mishap *)
(* entries lie where their keys are looked for, no page is shared and a    *)
(* search finds what a key was last given, for all keys and values, sizes  *)
(* of a page and first sizes of the table, through any number of rounds.   *)
(*                                                                         *)
(* As in the extendible hash a bucket that was split keeps the page it had *)
(* and looks there while it has no entry.  ContentsInv says what is on it: *)
(* no key that leads to the bucket, unless it waits to be put there again. *)
(* Nor is anything merged into such a bucket: its other half is full then, *)
(* as the split has put all entries there (Emptied).  That, and that after *)
(* a split the table has both halves or ends the run with an index beyond  *)
(* it, rests on counting: until the entry that made the bucket split is    *)
(* put, the two halves and what waits are a full page (SplitFor).          *)
(***************************************************************************)
EXTENDS LinearHash, BasicLemmas

USE LinearAssumption

-----------------------------------------------------------------------------
(* Types.                                                                  *)

Item == [key : Nat, val : Nat]

Bucket == [size : Nat, PageNum : Nat \cup {NoPage}, bucket : Contents]

\* A bucket counts at least the entries it has in memory, and a page has room for
\* what is written to it.
Good == {bk \in Bucket : Cardinality(DOMAIN bk.bucket) <= bk.size}
PageContents == {c \in Contents : Cardinality(DOMAIN c) <= BucketMax}

TableOK(t) == \E n \in Nat : t \in [0 .. (n - 1) -> Good]
PagesOK(pg) == \E n \in Nat : pg \in [0 .. (n - 1) -> PageContents]

LinTypes ==
  /\ h1 \in Nat \ {0}
  /\ SplitFlag \subseteq 0 .. (h2 - 1)
  /\ TableOK(BucketTable) /\ PagesOK(page)
  /\ todo \in Seq(Item) /\ then \in Seq(Item) /\ to \in Nat \cup {Rehash}
  /\ status \in {"running", "exited", "aborted", "undefined"}
  /\ dict \in [Key -> Nat]

LEMMA NothingAndBlank ==
  /\ Nothing \in Contents /\ DOMAIN Nothing = {} /\ Cardinality(DOMAIN Nothing) = 0
  /\ Blank \in Contents /\ DOMAIN Blank = {0} /\ Cardinality(DOMAIN Blank) = 1
  /\ NewBucket \in Good /\ Blank \in PageContents
<1>1. DOMAIN Nothing = {} /\ Nothing \in [{} -> Nat]
  BY DEF Nothing
<1>2. DOMAIN Blank = {0} /\ Blank \in [{0} -> Nat]
  BY DEF Blank
<1>3. IsFiniteSet({}) /\ Cardinality({}) = 0 /\ IsFiniteSet({0}) /\ Cardinality({0}) = 1
  BY FS_EmptySet, FS_Singleton
<1>4. Nothing \in Contents /\ Blank \in Contents
  <2>1. Nothing \in Contents
    BY <1>1, <1>3 DEF Contents
  <2>2. Blank \in Contents
    BY <1>2, <1>3 DEF Contents
  <2> QED  BY <2>1, <2>2
<1>5. BucketMax \in Nat /\ BucketMax >= 2
  OBVIOUS
<1> QED  BY <1>1, <1>2, <1>3, <1>4, <1>5 DEF NewBucket, Good, Bucket, NoPage, PageContents

LEMMA SetKeepsContents ==
  ASSUME NEW c \in Contents, NEW k \in Nat, NEW v \in Nat
  PROVE  /\ Set(c, k, v) \in Contents
         /\ DOMAIN Set(c, k, v) = DOMAIN c \cup {k}
         /\ Cardinality(DOMAIN Set(c, k, v)) =
              IF k \in DOMAIN c THEN Cardinality(DOMAIN c) ELSE Cardinality(DOMAIN c) + 1
<1>1. DOMAIN c \in SUBSET Nat /\ IsFiniteSet(DOMAIN c) /\ c \in [DOMAIN c -> Nat]
  BY ContentsFacts
<1>2. DOMAIN Set(c, k, v) = DOMAIN c \cup {k} /\ Set(c, k, v) \in [DOMAIN c \cup {k} -> Nat]
  BY <1>1 DEF Set
<1>3. /\ IsFiniteSet(DOMAIN c \cup {k})
      /\ Cardinality(DOMAIN c \cup {k}) =
           IF k \in DOMAIN c THEN Cardinality(DOMAIN c) ELSE Cardinality(DOMAIN c) + 1
  BY <1>1, FS_AddElement
<1> QED  BY <1>1, <1>2, <1>3, ContentsFacts

LEMMA WithoutKeepsContents ==
  ASSUME NEW c \in Contents, NEW k
  PROVE  /\ Without(c, k) \in Contents
         /\ DOMAIN Without(c, k) = DOMAIN c \ {k}
         /\ Cardinality(DOMAIN Without(c, k)) =
              IF k \in DOMAIN c THEN Cardinality(DOMAIN c) - 1 ELSE Cardinality(DOMAIN c)
<1>1. DOMAIN c \in SUBSET Nat /\ IsFiniteSet(DOMAIN c) /\ c \in [DOMAIN c -> Nat]
  BY ContentsFacts
<1>2. DOMAIN Without(c, k) = DOMAIN c \ {k} /\ Without(c, k) \in [DOMAIN c \ {k} -> Nat]
  BY <1>1 DEF Without
<1>3. /\ IsFiniteSet(DOMAIN c \ {k})
      /\ Cardinality(DOMAIN c \ {k}) =
           IF k \in DOMAIN c THEN Cardinality(DOMAIN c) - 1 ELSE Cardinality(DOMAIN c)
  BY <1>1, FS_RemoveElement
<1> QED  BY <1>1, <1>2, <1>3, ContentsFacts

LEMMA GoodFacts ==
  ASSUME NEW bk \in Good
  PROVE  /\ bk \in Bucket
         /\ bk.size \in Nat /\ bk.PageNum \in Nat \cup {NoPage} /\ bk.bucket \in Contents
         /\ Cardinality(DOMAIN bk.bucket) \in Nat /\ Cardinality(DOMAIN bk.bucket) <= bk.size
BY ContentsCount DEF Good, Bucket

LEMMA IntervalCount ==
  ASSUME NEW n \in Nat
  PROVE  Cardinality(0 .. (n - 1)) = n /\ IsFiniteSet(0 .. (n - 1))
<1>1. 0 \in Int /\ n - 1 \in Int
  OBVIOUS
<1>2. /\ IsFiniteSet(0 .. (n - 1))
      /\ Cardinality(0 .. (n - 1)) = IF 0 > n - 1 THEN 0 ELSE (n - 1) - 0 + 1
  BY <1>1, FS_Interval
<1> QED  BY <1>2

LEMMA PagesCount ==
  ASSUME NEW pg, PagesOK(pg)
  PROVE  /\ Cardinality(DOMAIN pg) \in Nat
         /\ DOMAIN pg = 0 .. (Cardinality(DOMAIN pg) - 1)
         /\ pg \in [DOMAIN pg -> PageContents]
         /\ Cardinality(DOMAIN pg) \notin DOMAIN pg
<1>1. PICK n \in Nat : pg \in [0 .. (n - 1) -> PageContents]
  BY DEF PagesOK
<1>2. DOMAIN pg = 0 .. (n - 1) /\ Cardinality(0 .. (n - 1)) = n
  BY <1>1, IntervalCount
<1> QED  BY <1>1, <1>2

LEMMA TableCount ==
  ASSUME NEW t, TableOK(t)
  PROVE  /\ Cardinality(DOMAIN t) \in Nat
         /\ DOMAIN t = 0 .. (Cardinality(DOMAIN t) - 1)
         /\ t \in [DOMAIN t -> Good]
<1>1. PICK n \in Nat : t \in [0 .. (n - 1) -> Good]
  BY DEF TableOK
<1>2. DOMAIN t = 0 .. (n - 1) /\ Cardinality(0 .. (n - 1)) = n
  BY <1>1, IntervalCount
<1> QED  BY <1>1, <1>2

LEMMA ReplaceKeepsTable ==
  ASSUME NEW t, TableOK(t), NEW b \in DOMAIN t, NEW bk \in Good
  PROVE  TableOK([t EXCEPT ![b] = bk])
<1>1. PICK n \in Nat : t \in [0 .. (n - 1) -> Good]
  BY DEF TableOK
<1>2. [t EXCEPT ![b] = bk] \in [0 .. (n - 1) -> Good]
  BY <1>1
<1> QED  BY <1>2 DEF TableOK

LEMMA TableGrows ==
  ASSUME NEW t, TableOK(t), NEW m \in Nat
  PROVE  /\ TableOK(Table(t, m)) /\ DOMAIN Table(t, m) = 0 .. (m - 1)
         /\ \A b \in 0 .. (m - 1) :
              Table(t, m)[b] = IF b \in DOMAIN t THEN t[b] ELSE NewBucket
<1>1. t \in [DOMAIN t -> Good]
  BY TableCount
<1>2. Table(t, m) \in [0 .. (m - 1) -> Good]
  BY <1>1, NothingAndBlank DEF Table
<1>3. TableOK(Table(t, m))
  BY <1>2 DEF TableOK
<1> QED  BY <1>2, <1>3 DEF Table

LEMMA PageReadType ==
  ASSUME PagesOK(page), NEW p
  PROVE  PageRead(p) \in PageContents
<1>1. page \in [DOMAIN page -> PageContents]
  BY PagesCount
<1> QED  BY <1>1, NothingAndBlank DEF PageRead

LEMMA PageUpdateType ==
  ASSUME PagesOK(page), NEW p, NEW entries \in PageContents, PageUpdate(p, entries)
  PROVE  PagesOK(page')
<1>1. PICK n \in Nat : page \in [0 .. (n - 1) -> PageContents]
  BY DEF PagesOK
<1>2. Blank \in PageContents
  BY NothingAndBlank
<1>3. CASE UNCHANGED page
  BY <1>1, <1>3 DEF PagesOK
<1>4. ASSUME NEW lost,
             page' = [q \in DOMAIN page |-> IF q \in lost THEN Blank
                                            ELSE IF q = p THEN entries ELSE page[q]]
      PROVE  PagesOK(page')
  <2>1. page' \in [0 .. (n - 1) -> PageContents]
    BY <1>1, <1>2, <1>4
  <2> QED  BY <2>1 DEF PagesOK
<1> QED  BY <1>3, <1>4 DEF PageUpdate

LEMMA PageAppendType ==
  ASSUME PagesOK(page), NEW entries \in PageContents, PageAppend(entries)
  PROVE  PagesOK(page')
<1>1. PICK n \in Nat : page \in [0 .. (n - 1) -> PageContents]
  BY DEF PagesOK
<1>2. CASE UNCHANGED page
  BY <1>1, <1>2 DEF PagesOK
<1>3. CASE page' = Set(page, sectorpointer, entries)
  <2>1. sectorpointer \in Nat /\ DOMAIN page = 0 .. (sectorpointer - 1)
    BY PagesCount DEF sectorpointer
  <2> DEFINE s == sectorpointer
  <2> HIDE DEF s
  <2>2. s \in Nat /\ DOMAIN page = 0 .. (s - 1) /\ page' = Set(page, s, entries)
    BY <1>3, <2>1 DEF s
  <2>3. 0 .. (s - 1) \cup {s} = 0 .. ((s + 1) - 1)
    BY <2>2
  <2>4. page' \in [0 .. ((s + 1) - 1) -> PageContents]
    BY <1>1, <2>2, <2>3 DEF Set
  <2>5. s + 1 \in Nat
    BY <2>2
  <2> QED  BY <2>4, <2>5 DEF PagesOK
<1> QED  BY <1>2, <1>3 DEF PageAppend

LEMMA BucketWriteTypes ==
  ASSUME PagesOK(page), NEW t, TableOK(t), NEW b \in DOMAIN t, NEW bk \in Bucket,
         bk.bucket \in PageContents, BucketWrite(t, b, bk)
  PROVE  PagesOK(page') /\ TableOK(BucketTable')
<1>1. PagesOK(page')
  BY PageUpdateType, PageAppendType DEF BucketWrite
<1>2. \E p \in Nat \cup {NoPage} :
        BucketTable' = [t EXCEPT ![b] = [bk EXCEPT !.PageNum = p, !.bucket = Nothing]]
  <2>1. CASE BucketTable' = [t EXCEPT ![b] = [bk EXCEPT !.PageNum = sectorpointer, !.bucket = Nothing]]
    <3>1. sectorpointer \in Nat
      BY PagesCount DEF sectorpointer
    <3> QED  BY <2>1, <3>1
  <2>2. CASE BucketTable' = [t EXCEPT ![b] = [bk EXCEPT !.bucket = Nothing]]
    <3>1. bk.PageNum \in Nat \cup {NoPage}
      BY DEF Bucket
    <3>2. [bk EXCEPT !.bucket = Nothing] = [bk EXCEPT !.PageNum = bk.PageNum, !.bucket = Nothing]
      BY DEF Bucket
    <3> QED  BY <2>2, <3>1, <3>2
  <2> QED  BY <2>1, <2>2 DEF BucketWrite
<1>3. PICK p \in Nat \cup {NoPage} :
        BucketTable' = [t EXCEPT ![b] = [bk EXCEPT !.PageNum = p, !.bucket = Nothing]]
  BY <1>2
<1> DEFINE next == [bk EXCEPT !.PageNum = p, !.bucket = Nothing]
<1>4. next \in Good
  <2>1. next \in Bucket /\ next.bucket = Nothing /\ next.size \in Nat
    BY NothingAndBlank DEF Bucket
  <2> HIDE DEF next
  <2>2. 0 <= next.size
    BY <2>1
  <2> QED  BY <2>1, <2>2, NothingAndBlank DEF Good
<1> HIDE DEF next
<1>5. TableOK(BucketTable')
  BY <1>3, <1>4, ReplaceKeepsTable DEF next
<1> QED  BY <1>1, <1>5

\* What LBucket::Insert makes of a bucket.
More(bk, e) == [bk EXCEPT !.bucket = Set(bk.bucket, e.key, e.val), !.size = bk.size + 1]

LEMMA MoreType ==
  ASSUME NEW bk \in Good, NEW e \in Item
  PROVE  /\ More(bk, e) \in Good /\ More(bk, e).size = bk.size + 1
         /\ More(bk, e).PageNum = bk.PageNum
         /\ More(bk, e).bucket = Set(bk.bucket, e.key, e.val)
<1>1. e.key \in Nat /\ e.val \in Nat
  BY DEF Item
<1>2. /\ bk \in Bucket /\ bk.size \in Nat /\ bk.bucket \in Contents
      /\ Cardinality(DOMAIN bk.bucket) \in Nat /\ Cardinality(DOMAIN bk.bucket) <= bk.size
  BY GoodFacts
<1> DEFINE c == Set(bk.bucket, e.key, e.val)
<1>3. c \in Contents /\ Cardinality(DOMAIN c) <= bk.size + 1
  <2> DEFINE old == bk.bucket
             k == e.key
             v == e.val
             n == bk.size
  <2>1. /\ old \in Contents /\ k \in Nat /\ v \in Nat /\ n \in Nat
        /\ Cardinality(DOMAIN old) \in Nat /\ Cardinality(DOMAIN old) <= n
    BY <1>1, <1>2
  <2> HIDE DEF old, k, v, n
  <2>2. /\ Set(old, k, v) \in Contents
        /\ Cardinality(DOMAIN Set(old, k, v)) \in {Cardinality(DOMAIN old), Cardinality(DOMAIN old) + 1}
    BY <2>1, SetKeepsContents
  <2>3. Cardinality(DOMAIN Set(old, k, v)) <= n + 1
    BY <2>1, <2>2
  <2> QED  BY <2>2, <2>3 DEF old, k, v, n
<1> HIDE DEF c
<1>4. More(bk, e) = [bk EXCEPT !.bucket = c, !.size = bk.size + 1]
  BY DEF More, c
<1>5. [bk EXCEPT !.bucket = c, !.size = bk.size + 1] \in Good
  <2> DEFINE n == bk.size + 1
             m == [bk EXCEPT !.bucket = c, !.size = n]
  <2>1. n \in Nat /\ Cardinality(DOMAIN c) <= n
    BY <1>2, <1>3
  <2> HIDE DEF n
  <2>2. m \in Bucket /\ m.bucket = c /\ m.size = n
    BY <1>2, <1>3, <2>1 DEF Bucket
  <2> HIDE DEF m
  <2>3. m \in Good
    BY <2>1, <2>2 DEF Good
  <2> QED  BY <2>3 DEF m, n
<1>6. More(bk, e).size = bk.size + 1 /\ More(bk, e).PageNum = bk.PageNum /\ More(bk, e).bucket = c
  BY <1>2, <1>4 DEF Bucket
<1> QED  BY <1>4, <1>5, <1>6 DEF c

LEMMA BucketInsertTypes ==
  ASSUME PagesOK(page), NEW t, TableOK(t), NEW b \in DOMAIN t, NEW e \in Item,
         BucketInsert(t, b, e)
  PROVE  PagesOK(page') /\ TableOK(BucketTable')
<1> DEFINE more == More(t[b], e)
<1>1. t[b] \in Good
  BY TableCount
<1>2. more \in Good /\ more \in Bucket /\ more.bucket \in Contents
      /\ Cardinality(DOMAIN more.bucket) <= more.size
  BY <1>1, MoreType, GoodFacts
<1>3. more = [t[b] EXCEPT !.bucket = Set(@, e.key, e.val), !.size = @ + 1]
  BY DEF More
<1> HIDE DEF more
<1>4. \/ more.size = BucketMax /\ BucketWrite(t, b, more)
      \/ BucketTable' = [t EXCEPT ![b] = more] /\ page' = page
  BY <1>3 DEF BucketInsert
<1>5. CASE more.size = BucketMax /\ BucketWrite(t, b, more)
  <2>1. more.bucket \in PageContents
    BY <1>2, <1>5 DEF PageContents
  <2> QED  BY <1>2, <1>5, <2>1, BucketWriteTypes
<1>6. CASE BucketTable' = [t EXCEPT ![b] = more] /\ page' = page
  BY <1>2, <1>6, ReplaceKeepsTable DEF PagesOK
<1> QED  BY <1>4, <1>5, <1>6

-----------------------------------------------------------------------------
(* Entries in order.                                                       *)

LEMMA InOrderProperties ==
  ASSUME NEW c \in Contents
  PROVE  /\ InOrder(c) \in Seq(Item)
         /\ \A i \in DOMAIN InOrder(c) :
              InOrder(c)[i].key \in DOMAIN c /\ InOrder(c)[i].val = c[InOrder(c)[i].key]
         /\ c # Blank =>
              /\ Len(InOrder(c)) = Cardinality(DOMAIN c)
              /\ \A k \in DOMAIN c : \E i \in DOMAIN InOrder(c) :
                   \A j \in DOMAIN InOrder(c) : InOrder(c)[j].key = k <=> j = i
<1> DEFINE keys == IF c = Blank THEN [i \in 1 .. BucketMax |-> 0] ELSE Ascending(DOMAIN c)
           S == DOMAIN c
<1>1. S \in SUBSET Nat /\ IsFiniteSet(S) /\ c \in [S -> Nat]
  BY ContentsFacts
<1>2. InOrder(c) = [i \in DOMAIN keys |-> [key |-> keys[i], val |-> c[keys[i]]]]
  BY DEF InOrder
<1>3. /\ Ascending(S) = Ranked(S)
  BY DEF Ascending, Ranked
<1>4. /\ Ranked(S) \in Seq(S) /\ Len(Ranked(S)) = Cardinality(S)
      /\ \A k \in S : \E i \in DOMAIN Ranked(S) :
              \A j \in DOMAIN Ranked(S) : Ranked(S)[j] = k <=> j = i
  <2> HIDE DEF S
  <2> QED  BY <1>1, RankedProperties
<1>5. c # Blank => keys = Ranked(S)
  BY <1>3
<1>6. keys \in Seq(S)
  <2>1. CASE c = Blank
    <3>1. 0 \in S
      BY <2>1, NothingAndBlank
    <3>2. keys = [i \in 1 .. BucketMax |-> 0]
      BY <2>1
    <3>3. BucketMax \in Nat
      OBVIOUS
    <3> HIDE DEF keys, S
    <3> QED  BY <3>1, <3>2, <3>3
  <2>2. CASE c # Blank
    BY <1>4, <1>5, <2>2
  <2> QED  BY <2>1, <2>2
<1> HIDE DEF keys, S
<1>7. \A i \in DOMAIN keys : keys[i] \in S
  BY <1>6
<1>8. DOMAIN keys = 1 .. Len(keys) /\ Len(keys) \in Nat
  BY <1>6
<1>9. \A i \in 1 .. Len(keys) : keys[i] \in Nat /\ c[keys[i]] \in Nat
  BY <1>1, <1>7, <1>8
<1>10. InOrder(c) \in [1 .. Len(keys) -> Item]
  BY <1>2, <1>8, <1>9 DEF Item
<1>11. InOrder(c) \in Seq(Item) /\ Len(InOrder(c)) = Len(keys)
  BY <1>8, <1>10
<1>12. /\ DOMAIN InOrder(c) = DOMAIN keys
       /\ \A j \in DOMAIN keys : InOrder(c)[j].key = keys[j] /\ InOrder(c)[j].val = c[keys[j]]
  BY <1>2
<1>13. \A i \in DOMAIN InOrder(c) :
         InOrder(c)[i].key \in S /\ InOrder(c)[i].val = c[InOrder(c)[i].key]
  BY <1>7, <1>12
<1>14. ASSUME c # Blank
       PROVE  /\ Len(InOrder(c)) = Cardinality(S)
              /\ \A k \in S : \E i \in DOMAIN InOrder(c) :
                   \A j \in DOMAIN InOrder(c) : InOrder(c)[j].key = k <=> j = i
  <2>1. /\ Len(keys) = Cardinality(S)
        /\ \A k \in S : \E i \in DOMAIN keys : \A j \in DOMAIN keys : keys[j] = k <=> j = i
    BY <1>4, <1>5, <1>14
  <2> QED  BY ONLY <1>11, <1>12, <2>1
<1> QED  BY <1>11, <1>13, <1>14 DEF S

-----------------------------------------------------------------------------
(* The operations keep the types.                                          *)

LEMMA BucketNoType ==
  ASSUME h1 \in Nat \ {0}, NEW k \in Nat
  PROVE  /\ h2 \in Nat \ {0} /\ h2 = 2 * h1
         /\ (k % h1) \in 0 .. (h1 - 1) /\ (k % h2) \in {(k % h1), (k % h1) + h1}
         /\ (k % h2) \in 0 .. (h2 - 1) /\ bucketno(k) \in 0 .. (h2 - 1)
<1>1. h2 \in Nat \ {0} /\ h2 = 2 * h1
  BY DEF h2
<1>2. (k % h1) \in 0 .. (h1 - 1) /\ (k % h2) \in 0 .. (h2 - 1)
  BY <1>1, QuotientAndRemainder
<1>3. (k % h2) \in {(k % h1), (k % h1) + h1}
  BY <1>1, RemainderOfDouble
<1>4. bucketno(k) \in {(k % h1), (k % h2)}
  BY DEF bucketno
<1> DEFINE r == (k % h1)
           s == (k % h2)
           b == bucketno(k)
<1>5. r \in 0 .. (h1 - 1) /\ s \in 0 .. (h2 - 1) /\ b \in {r, s}
  BY <1>2, <1>4
<1> HIDE DEF r, s, b
<1>6. b \in 0 .. (h2 - 1)
  BY <1>1, <1>5
<1> QED  BY <1>1, <1>2, <1>3, <1>6 DEF b

LEMMA StopKeepsTypes ==
  ASSUME LinTypes, NEW how \in {"exited", "aborted", "undefined"}, Stop(how),
         dict' \in [Key -> Nat]
  PROVE  LinTypes'
BY DEF LinTypes, Stop, pending, TableOK, PagesOK, h2

LEMMA SplitKeepsTypes ==
  ASSUME LinTypes, NEW b \in DOMAIN BucketTable, b \in 0 .. (h2 - 1), NEW e \in Item,
         split(b, e), dict' \in [Key -> Nat]
  PROVE  LinTypes'
<1>1. CASE Stop("exited") \/ Stop("aborted")
  BY <1>1, StopKeepsTypes
<1>2. CASE /\ ~InMemory(b)
           /\ todo' = InOrder(PageRead(BucketTable[b].PageNum))
           /\ to' = Rehash /\ then' = <<e>>
           /\ BucketTable' = Erased(b)
           /\ SplitFlag' = SplitFlag \cup {b}
           /\ UNCHANGED <<h1, page, status, strayed>>
  <2>1. PageRead(BucketTable[b].PageNum) \in Contents
    BY PageReadType DEF LinTypes, PageContents
  <2>2. todo' \in Seq(Item)
    BY <1>2, <2>1, InOrderProperties
  <2>3. TableOK(BucketTable')
    <3> DEFINE bk == [BucketTable[b] EXCEPT !.size = 0]
    <3>1. BucketTable \in [DOMAIN BucketTable -> Good]
      BY TableCount DEF LinTypes
    <3>2. BucketTable[b] \in Good /\ BucketTable[b].bucket \in Contents
      BY <3>1, GoodFacts
    <3>3. BucketTable[b] \in Bucket /\ Cardinality(DOMAIN BucketTable[b].bucket) = 0
      BY <1>2, <3>2, ContentsCount, GoodFacts DEF InMemory
    <3>4. bk \in Good
      BY <3>3 DEF Bucket, Good
    <3>5. BucketTable' = [BucketTable EXCEPT ![b] = bk]
      BY <1>2 DEF Erased
    <3> HIDE DEF bk
    <3> QED  BY <3>4, <3>5, ReplaceKeepsTable DEF LinTypes
  <2>4. then' \in Seq(Item) /\ to' \in Nat \cup {Rehash}
    BY <1>2
  <2>5. SplitFlag' \subseteq 0 .. (h2' - 1)
    <3>1. h2' = h2
      BY <1>2 DEF h2
    <3>2. SplitFlag \subseteq 0 .. (h2 - 1) /\ SplitFlag' = SplitFlag \cup {b}
      BY <1>2 DEF LinTypes
    <3> QED  BY <3>1, <3>2
  <2> QED  BY <1>2, <2>2, <2>3, <2>4, <2>5 DEF LinTypes, PagesOK
<1> QED  BY <1>1, <1>2 DEF split

\* An entry put into one bucket of a table.
LEMMA PutKeepsTypes ==
  ASSUME LinTypes, NEW t, TableOK(t), NEW b \in DOMAIN t, NEW e \in Item,
         BucketInsert(t, b, e), h1' \in Nat \ {0}, SplitFlag' \subseteq 0 .. (h2' - 1),
         todo' \in Seq(Item), then' \in Seq(Item), to' \in Nat \cup {Rehash},
         status' = status, dict' \in [Key -> Nat]
  PROVE  LinTypes'
<1>1. PagesOK(page') /\ TableOK(BucketTable')
  BY BucketInsertTypes DEF LinTypes
<1> QED  BY <1>1 DEF LinTypes

LEMMA InsertKeepsTypes ==
  ASSUME LinTypes, NEW k \in Key, NEW v \in Value, Insert(k, v)
  PROVE  LinTypes'
<1> DEFINE b == bucketno(k)
           e == [key |-> k, val |-> v]
<1>1. k \in Nat /\ v \in Nat /\ e \in Item
  BY DEF Item
<1>2. b \in 0 .. (h2 - 1)
  BY <1>1, BucketNoType DEF LinTypes
<1>3. dict' \in [Key -> Nat]
  BY <1>1 DEF LinTypes, Insert
<1> HIDE DEF e, b
<1>4. \/ Stop("undefined")
      \/ InTable(b) /\ split(b, e)
      \/ /\ InTable(b) /\ BucketInsert(BucketTable, b, e)
         /\ UNCHANGED <<h1, SplitFlag, pending, status>>
  BY DEF Insert, b, e
<1>5. CASE Stop("undefined")
  BY <1>3, <1>5, StopKeepsTypes
<1>6. CASE InTable(b) /\ split(b, e)
  BY <1>1, <1>2, <1>3, <1>6, SplitKeepsTypes DEF InTable
<1>7. CASE /\ InTable(b) /\ BucketInsert(BucketTable, b, e)
           /\ UNCHANGED <<h1, SplitFlag, pending, status>>
  <2>1. /\ h1' \in Nat \ {0} /\ SplitFlag' \subseteq 0 .. (h2' - 1)
        /\ todo' \in Seq(Item) /\ then' \in Seq(Item) /\ to' \in Nat \cup {Rehash}
        /\ status' = status /\ TableOK(BucketTable) /\ b \in DOMAIN BucketTable
    BY <1>7 DEF LinTypes, pending, h2, InTable
  <2> QED  BY <1>1, <1>3, <1>7, <2>1, PutKeepsTypes
<1> QED  BY <1>4, <1>5, <1>6, <1>7

\* The loop that puts the entries of a bucket in other ones.
LEMMA ReachingType ==
  ASSUME LinTypes, NEW b
  PROVE  /\ TableOK(Reaching(b)) /\ DOMAIN BucketTable \subseteq DOMAIN Reaching(b)
         /\ \A x \in DOMAIN Reaching(b) :
              Reaching(b)[x] = IF x \in DOMAIN BucketTable THEN BucketTable[x] ELSE NewBucket
<1> DEFINE n == Cardinality(DOMAIN BucketTable)
<1>1. n \in Nat /\ DOMAIN BucketTable = 0 .. (n - 1) /\ TableOK(BucketTable) /\ h1 \in Nat
  BY TableCount DEF LinTypes
<1>2. CASE InTable(b)
  BY <1>1, <1>2 DEF Reaching
<1>3. CASE ~InTable(b)
  <2>1. Reaching(b) = Table(BucketTable, n + h1)
    BY <1>3 DEF Reaching
  <2> DEFINE m == n + h1
             t == Reaching(b)
  <2>2. m \in Nat /\ t = Table(BucketTable, m)
    BY <1>1, <2>1
  <2> HIDE DEF m, t, n
  <2>3. /\ TableOK(t) /\ DOMAIN t = 0 .. (m - 1)
        /\ \A x \in 0 .. (m - 1) : t[x] = IF x \in DOMAIN BucketTable THEN BucketTable[x] ELSE NewBucket
    BY <1>1, <2>2, TableGrows
  <2>4. 0 .. (n - 1) \subseteq 0 .. (m - 1)
    BY <1>1 DEF m
  <2> QED  BY <1>1, <2>3, <2>4 DEF t
<1> QED  BY <1>2, <1>3

LEMMA PutNextKeepsTypes ==
  ASSUME LinTypes, PutNext
  PROVE  LinTypes'
<1> DEFINE e == Head(todo)
           b == IF to = Rehash THEN e.key % h2 ELSE to
<1>1. e \in Item /\ Tail(todo) \in Seq(Item) /\ dict' \in [Key -> Nat]
  BY DEF LinTypes, PutNext
<1> HIDE DEF e, b
<1>2. \/ Stop("undefined")
      \/ /\ b \in DOMAIN Reaching(b) /\ BucketInsert(Reaching(b), b, e)
         /\ todo' = Tail(todo) /\ UNCHANGED <<h1, SplitFlag, to, then, status>>
  BY DEF PutNext, e, b
<1>3. CASE Stop("undefined")
  BY <1>1, <1>3, StopKeepsTypes
<1>4. CASE /\ b \in DOMAIN Reaching(b) /\ BucketInsert(Reaching(b), b, e)
           /\ todo' = Tail(todo) /\ UNCHANGED <<h1, SplitFlag, to, then, status>>
  <2>1. /\ h1' \in Nat \ {0} /\ SplitFlag' \subseteq 0 .. (h2' - 1)
        /\ todo' \in Seq(Item) /\ then' \in Seq(Item) /\ to' \in Nat \cup {Rehash}
        /\ status' = status /\ TableOK(Reaching(b))
    BY <1>1, <1>4, ReachingType DEF LinTypes, h2
  <2> QED  BY <1>1, <1>4, <2>1, PutKeepsTypes
<1> QED  BY <1>2, <1>3, <1>4

LEMMA NextRoundTypes ==
  ASSUME LinTypes, NextRound
  PROVE  h1' \in Nat \ {0} /\ SplitFlag' \subseteq 0 .. (h2' - 1)
<1>1. CASE h1' = 2 * h1 /\ SplitFlag' = {}
  BY <1>1 DEF LinTypes
<1>2. CASE UNCHANGED <<h1, SplitFlag>>
  BY <1>2 DEF LinTypes, h2
<1> QED  BY <1>1, <1>2 DEF NextRound

LEMMA SplitEndKeepsTypes ==
  ASSUME LinTypes, SplitEnd
  PROVE  LinTypes'
<1> DEFINE e == Head(then)
<1>1. e \in Item /\ dict' \in [Key -> Nat] /\ todo' = todo /\ to' = to
  BY DEF LinTypes, SplitEnd
<1>2. h1' \in Nat \ {0} /\ SplitFlag' \subseteq 0 .. (h2' - 1)
  BY NextRoundTypes DEF SplitEnd
<1>3. PICK b : b = e.key % h2'
  OBVIOUS
<1> HIDE DEF e
<1>4. \/ status' = "undefined" /\ UNCHANGED <<BucketTable, page, then>>
      \/ /\ InTable(b) /\ BucketInsert(BucketTable, b, e)
         /\ then' = << >> /\ status' = status
  BY <1>3 DEF SplitEnd, e
<1>5. CASE status' = "undefined" /\ UNCHANGED <<BucketTable, page, then>>
  BY <1>1, <1>2, <1>5 DEF LinTypes, TableOK, PagesOK
<1>6. CASE /\ InTable(b) /\ BucketInsert(BucketTable, b, e)
           /\ then' = << >> /\ status' = status
  <2>1. /\ then' \in Seq(Item) /\ todo' \in Seq(Item) /\ to' \in Nat \cup {Rehash}
        /\ TableOK(BucketTable) /\ b \in DOMAIN BucketTable
    BY <1>1, <1>6 DEF LinTypes, InTable
  <2> QED  BY <1>1, <1>2, <1>6, <2>1, PutKeepsTypes
<1> QED  BY <1>4, <1>5, <1>6

LEMMA LoadedType ==
  ASSUME LinTypes, NEW b \in DOMAIN BucketTable
  PROVE  /\ Loaded(b) \in Good /\ Loaded(b).PageNum = BucketTable[b].PageNum
         /\ InMemory(b) => Loaded(b) = BucketTable[b]
         /\ ~InMemory(b) => /\ Loaded(b).bucket = PageRead(BucketTable[b].PageNum)
                            /\ Loaded(b).size = BucketTable[b].size + BucketMax
<1> DEFINE bk == BucketTable[b]
           c == PageRead(bk.PageNum)
           n == bk.size + BucketMax
           new == [bk EXCEPT !.bucket = c, !.size = n]
<1>1. bk \in Good
  BY TableCount DEF LinTypes
<1>2. bk \in Bucket /\ bk.size \in Nat
  BY <1>1, GoodFacts
<1>3. c \in Contents /\ Cardinality(DOMAIN c) <= BucketMax /\ Cardinality(DOMAIN c) \in Nat
  <2>1. c \in PageContents
    BY PageReadType DEF LinTypes
  <2> QED  BY <2>1, ContentsCount DEF PageContents
<1>4. n \in Nat /\ Cardinality(DOMAIN c) <= n
  <2> HIDE DEF c
  <2> QED  BY <1>2, <1>3
<1>5. Loaded(b) = IF InMemory(b) THEN bk ELSE new
  BY DEF Loaded
<1> HIDE DEF c, n, bk
<1>6. new \in Bucket /\ new.bucket = c /\ new.size = n /\ new.PageNum = bk.PageNum
  BY <1>2, <1>3, <1>4 DEF Bucket
<1> HIDE DEF new
<1>7. new \in Good
  BY <1>4, <1>6 DEF Good
<1> QED  BY <1>1, <1>5, <1>6, <1>7 DEF bk, c, n

LEMMA LeftType ==
  ASSUME LinTypes, NEW b \in DOMAIN BucketTable, NEW k
  PROVE  /\ Left(b, k) \in Good /\ Left(b, k).PageNum = BucketTable[b].PageNum
         /\ k \notin DOMAIN Loaded(b).bucket => Left(b, k) = Loaded(b)
         /\ k \in DOMAIN Loaded(b).bucket =>
              /\ Left(b, k).bucket = Without(Loaded(b).bucket, k)
              /\ Left(b, k).size = Loaded(b).size - 1
<1> DEFINE bk == Loaded(b)
<1>1. bk \in Good /\ bk.PageNum = BucketTable[b].PageNum
  BY LoadedType
<1>2. Left(b, k) = IF k \in DOMAIN bk.bucket
                   THEN [bk EXCEPT !.bucket = Without(bk.bucket, k), !.size = bk.size - 1] ELSE bk
  BY DEF Left
<1> HIDE DEF bk
<1>3. CASE k \notin DOMAIN bk.bucket
  BY <1>1, <1>2, <1>3 DEF bk
<1>4. CASE k \in DOMAIN bk.bucket
  <2> DEFINE c == Without(bk.bucket, k)
             n == bk.size - 1
             new == [bk EXCEPT !.bucket = c, !.size = n]
  <2>1. /\ bk \in Bucket /\ bk.size \in Nat /\ bk.bucket \in Contents
        /\ Cardinality(DOMAIN bk.bucket) \in Nat /\ Cardinality(DOMAIN bk.bucket) <= bk.size
    BY <1>1, GoodFacts
  <2>2. c \in Contents /\ Cardinality(DOMAIN c) = Cardinality(DOMAIN bk.bucket) - 1
    <3> DEFINE old == bk.bucket
    <3>1. old \in Contents /\ k \in DOMAIN old
      BY <1>4, <2>1
    <3> HIDE DEF old
    <3>2. Without(old, k) \in Contents /\ Cardinality(DOMAIN Without(old, k)) = Cardinality(DOMAIN old) - 1
      BY <3>1, WithoutKeepsContents
    <3> QED  BY <3>2 DEF old
  <2>3. Cardinality(DOMAIN c) \in Nat
    BY <2>2, ContentsCount
  <2>4. n \in Nat /\ Cardinality(DOMAIN c) <= n
    <3> DEFINE x == Cardinality(DOMAIN c)
               y == Cardinality(DOMAIN bk.bucket)
               s == bk.size
    <3>1. x \in Nat /\ y \in Nat /\ s \in Nat /\ x = y - 1 /\ y <= s
      BY <2>1, <2>2, <2>3
    <3> HIDE DEF x, y, s
    <3>2. s - 1 \in Nat /\ x <= s - 1
      BY <3>1
    <3> QED  BY <3>2 DEF x, s
  <2>5. Left(b, k) = new
    BY <1>2, <1>4
  <2> HIDE DEF c, n
  <2>6. new \in Bucket /\ new.bucket = c /\ new.size = n /\ new.PageNum = bk.PageNum
    BY <2>1, <2>2, <2>4 DEF Bucket
  <2> HIDE DEF new
  <2>7. new \in Good
    BY <2>4, <2>6 DEF Good
  <2> QED  BY <1>1, <1>4, <2>5, <2>6, <2>7 DEF c, n, bk
<1> QED  BY <1>3, <1>4

LEMMA MergedTypes ==
  ASSUME LinTypes, NEW t, TableOK(t), NEW b \in DOMAIN t, b \in Nat, Upper(b) \in DOMAIN t,
         SplitFlag' = SplitFlag \ {Lower(b)},
         todo' = GetBucket(t[Upper(b)]), to' = Lower(b),
         BucketTable' = BucketErase(t, Upper(b)),
         UNCHANGED <<h1, page, then, status>>, dict' \in [Key -> Nat]
  PROVE  LinTypes'
<1>1. TableOK(BucketTable')
  BY ReplaceKeepsTable, NothingAndBlank DEF BucketErase
<1>2. Lower(b) \in Nat
  BY DEF Lower, LinTypes
<1>3. todo' \in Seq(Item)
  <2>1. t[Upper(b)] \in Good
    BY TableCount
  <2> QED  BY <2>1, GoodFacts, InOrderProperties DEF GetBucket
<1>4. SplitFlag' \subseteq 0 .. (h2' - 1)
  BY DEF LinTypes, h2
<1> QED  BY <1>1, <1>2, <1>3, <1>4 DEF LinTypes, PagesOK

LEMMA DeleteKeepsTypes ==
  ASSUME LinTypes, NEW k \in Key, Delete(k)
  PROVE  LinTypes'
<1> DEFINE b == bucketno(k)
           left == [BucketTable EXCEPT ![b] = Left(b, k)]
<1>1. dict' \in [Key -> Nat] /\ k \in Nat
  BY DEF LinTypes, Delete
<1>2. b \in Nat
  BY <1>1, BucketNoType DEF LinTypes
<1>3. InTable(b) => TableOK(left) /\ DOMAIN left = DOMAIN BucketTable
  BY LeftType, ReplaceKeepsTable DEF LinTypes, InTable
<1> HIDE DEF b, left
<1>4. \/ Stop("undefined") \/ Stop("exited")
      \/ /\ InTable(b) /\ BucketTable' = left
         /\ UNCHANGED <<h1, SplitFlag, page, todo, to, then, status>>
      \/ status' = "undefined" /\ UNCHANGED <<h1, SplitFlag, BucketTable, page, todo, to, then>>
      \/ /\ InTable(b) /\ InTable(Upper(b)) /\ Merge(left, b)
         /\ UNCHANGED <<h1, page, then, status>>
  BY DEF Delete, LoadFails, b, left
<1>5. CASE Stop("undefined") \/ Stop("exited")
  BY <1>1, <1>5, StopKeepsTypes
<1>6. CASE /\ InTable(b) /\ BucketTable' = left
           /\ UNCHANGED <<h1, SplitFlag, page, todo, to, then, status>>
  BY <1>1, <1>3, <1>6 DEF LinTypes, PagesOK, h2
<1>7. CASE status' = "undefined" /\ UNCHANGED <<h1, SplitFlag, BucketTable, page, todo, to, then>>
  BY <1>1, <1>7 DEF LinTypes, PagesOK, TableOK, h2
<1>8. CASE /\ InTable(b) /\ InTable(Upper(b)) /\ Merge(left, b)
           /\ UNCHANGED <<h1, page, then, status>>
  <2>1. b \in DOMAIN left /\ Upper(b) \in DOMAIN left /\ TableOK(left)
    BY <1>3, <1>8 DEF InTable
  <2>2. /\ SplitFlag' = SplitFlag \ {Lower(b)}
        /\ todo' = GetBucket(left[Upper(b)]) /\ to' = Lower(b)
        /\ BucketTable' = BucketErase(left, Upper(b))
    BY <1>8 DEF Merge
  <2> QED  BY <1>1, <1>2, <1>8, <2>1, <2>2, MergedTypes
<1> QED  BY <1>4, <1>5, <1>6, <1>7, <1>8

LEMMA ValueUpdateKeepsTypes ==
  ASSUME LinTypes, NEW b \in DOMAIN BucketTable, NEW k \in Nat, NEW v \in Nat,
         ValueUpdate(b, k, v), UNCHANGED <<h1, SplitFlag, pending, status>>,
         dict' \in [Key -> Nat]
  PROVE  LinTypes'
<1> DEFINE bk == BucketTable[b]
           loaded == PageRead(bk.PageNum)
           changed == IF k \in DOMAIN loaded THEN Set(loaded, k, v) ELSE loaded
<1>1. bk \in Good /\ bk \in Bucket /\ bk.bucket \in Contents
  BY TableCount, GoodFacts DEF LinTypes
<1>2. TableOK(BucketTable) /\ PagesOK(page) /\ BucketTable \in [DOMAIN BucketTable -> Good]
  BY TableCount DEF LinTypes
<1>3. ASSUME InMemory(b), k \in DOMAIN bk.bucket,
             BucketTable' = [BucketTable EXCEPT ![b].bucket[k] = v], page' = page
      PROVE  TableOK(BucketTable') /\ PagesOK(page')
  <2> DEFINE c == [bk.bucket EXCEPT ![k] = v]
             new == [bk EXCEPT !.bucket = c]
  <2>1. c \in Contents /\ DOMAIN c = DOMAIN bk.bucket
    <3> DEFINE old == bk.bucket
    <3>1. DOMAIN old \in SUBSET Nat /\ IsFiniteSet(DOMAIN old) /\ old \in [DOMAIN old -> Nat]
      BY <1>1, ContentsFacts
    <3>2. c = [old EXCEPT ![k] = v]
      OBVIOUS
    <3> HIDE DEF old, c
    <3>3. DOMAIN c = DOMAIN old /\ c \in [DOMAIN old -> Nat]
      BY <3>1, <3>2
    <3> QED  BY <3>1, <3>3, ContentsFacts DEF old
  <2>2. BucketTable' = [BucketTable EXCEPT ![b] = new]
    BY <1>1, <1>2, <1>3
  <2> HIDE DEF c, bk
  <2>3. new \in Bucket /\ new.bucket = c /\ new.size = bk.size
    BY <1>1, <2>1 DEF Bucket
  <2> HIDE DEF new
  <2>4. new \in Good
    <3>1. bk.size \in Nat /\ Cardinality(DOMAIN bk.bucket) <= bk.size
      BY <1>1, GoodFacts
    <3>2. Cardinality(DOMAIN new.bucket) <= new.size
      BY <2>1, <2>3, <3>1
    <3> QED  BY <2>3, <3>2 DEF Good
  <2>5. TableOK(BucketTable')
    BY <1>2, <2>2, <2>4, ReplaceKeepsTable
  <2>6. PagesOK(page')
    BY <1>2, <1>3
  <2> QED  BY <2>5, <2>6
<1>4. changed \in PageContents
  <2>1. loaded \in PageContents
    BY <1>2, PageReadType
  <2> HIDE DEF loaded
  <2>2. Cardinality(DOMAIN loaded) <= BucketMax /\ loaded \in Contents
    BY <2>1 DEF PageContents
  <2>3. CASE k \in DOMAIN loaded
    <3>1. Set(loaded, k, v) \in Contents /\ Cardinality(DOMAIN Set(loaded, k, v)) = Cardinality(DOMAIN loaded)
      BY <2>2, <2>3, SetKeepsContents
    <3> QED  BY <2>2, <2>3, <3>1 DEF PageContents
  <2> QED  BY <2>1, <2>3
<1>5. ASSUME BucketWrite(BucketTable, b, [bk EXCEPT !.bucket = changed])
      PROVE  TableOK(BucketTable') /\ PagesOK(page')
  <2> DEFINE new == [bk EXCEPT !.bucket = changed]
  <2>1. changed \in Contents
    BY <1>4 DEF PageContents
  <2> HIDE DEF changed, bk
  <2>2. new \in Bucket /\ new.bucket = changed
    BY <1>1, <2>1 DEF Bucket
  <2>3. BucketWrite(BucketTable, b, new)
    BY <1>5
  <2> HIDE DEF new
  <2> QED  BY <1>2, <1>4, <2>2, <2>3, BucketWriteTypes
<1>6. TableOK(BucketTable') /\ PagesOK(page')
  BY <1>3, <1>5 DEF ValueUpdate
<1> QED  BY <1>6 DEF LinTypes, pending, h2

LEMMA UpdateKeepsTypes ==
  ASSUME LinTypes, NEW k \in Key, NEW v \in Value, Update(k, v)
  PROVE  LinTypes'
<1> DEFINE b == bucketno(k)
<1>1. k \in Nat /\ v \in Nat
  OBVIOUS
<1>2. dict' \in [Key -> Nat]
  BY <1>1 DEF LinTypes, Update
<1> HIDE DEF b
<1>3. \/ Stop("undefined") \/ Stop("exited")
      \/ /\ InTable(b) /\ ValueUpdate(b, k, v)
         /\ UNCHANGED <<h1, SplitFlag, pending, status>>
  BY DEF Update, LoadFails, b
<1>4. CASE Stop("undefined") \/ Stop("exited")
  BY <1>2, <1>4, StopKeepsTypes
<1>5. CASE /\ InTable(b) /\ ValueUpdate(b, k, v)
           /\ UNCHANGED <<h1, SplitFlag, pending, status>>
  BY <1>1, <1>2, <1>5, ValueUpdateKeepsTypes DEF InTable
<1> QED  BY <1>3, <1>4, <1>5

LEMMA SearchKeepsTypes ==
  ASSUME LinTypes, NEW k \in Key, Search(k)
  PROVE  LinTypes'
<1>1. dict' \in [Key -> Nat]
  BY DEF LinTypes, Search
<1>2. Stop("undefined") \/ Stop("exited")
  BY DEF Search
<1> QED  BY <1>1, <1>2, StopKeepsTypes

LEMMA InitEstablishesTypes == Init => LinTypes
<1> SUFFICES ASSUME Init PROVE LinTypes
  OBVIOUS
<1>1. Initialsize \in Nat \ {0}
  OBVIOUS
<1>2. TableOK(Table(Nothing, Initialsize))
  <2>1. Table(Nothing, Initialsize) \in [0 .. (Initialsize - 1) -> Good]
    BY NothingAndBlank DEF Table
  <2> QED  BY <1>1, <2>1 DEF TableOK
<1>3. PagesOK(Nothing)
  <2>1. 0 .. (0 - 1) = {} /\ Nothing \in [{} -> PageContents]
    BY DEF Nothing
  <2> QED  BY <2>1 DEF PagesOK
<1> QED  BY <1>1, <1>2, <1>3 DEF Init, LinTypes

LEMMA NextKeepsTypes == LinTypes /\ [Next]_vars => LinTypes'
<1> SUFFICES ASSUME LinTypes, [Next]_vars PROVE LinTypes'
  OBVIOUS
<1>1. ASSUME NEW k \in Key, NEW v \in Value, Insert(k, v) \/ Update(k, v) PROVE LinTypes'
  BY <1>1, InsertKeepsTypes, UpdateKeepsTypes
<1>2. ASSUME NEW k \in Key, Delete(k) \/ Search(k) PROVE LinTypes'
  BY <1>2, DeleteKeepsTypes, SearchKeepsTypes
<1>3. CASE PutNext \/ SplitEnd
  BY <1>3, PutNextKeepsTypes, SplitEndKeepsTypes
<1>4. CASE UNCHANGED vars
  BY <1>4 DEF vars, pending, LinTypes, TableOK, PagesOK, h2
<1> QED  BY <1>1, <1>2, <1>3, <1>4 DEF Next

LEMMA LinTypesHold == Spec => []LinTypes
BY InitEstablishesTypes, NextKeepsTypes, PTL DEF Spec

\* The state stays well formed; in particular no size is ever counted down below
\* what is in memory (LiHash.cpp:99-140), also after a mishap.
THEOREM LinearTypesAreKept == Spec => []TypeOK
<1>1. LinTypes => TypeOK
  <2> SUFFICES ASSUME LinTypes PROVE TypeOK
    OBVIOUS
  <2>1. /\ BucketTable \in [DOMAIN BucketTable -> Good]
        /\ DOMAIN BucketTable = 0 .. (Cardinality(DOMAIN BucketTable) - 1)
        /\ DOMAIN page = 0 .. (sectorpointer - 1)
    BY TableCount, PagesCount DEF LinTypes, sectorpointer
  <2>2. \A b \in DOMAIN BucketTable :
          BucketTable[b].size \in Nat /\ BucketTable[b].PageNum \in Nat \cup {NoPage}
    BY <2>1, GoodFacts
  <2> QED  BY <2>1, <2>2 DEF LinTypes, TypeOK
<1> QED  BY <1>1, LinTypesHold, PTL

-----------------------------------------------------------------------------
(* Contents.  These are stated for a table t, the pages pg and the buckets *)
(* W the keys lead to, whether they are the state's or what a step makes   *)
(* of them.  Q is the set of the keys that wait to be put in a bucket.     *)

Leads == [k \in Nat |-> bucketno(k)]
WaitingKeys == {todo[i].key : i \in DOMAIN todo} \cup {then[i].key : i \in DOMAIN then}

Current(t, pg, b) == IF t[b].PageNum \in DOMAIN pg THEN pg[t[b].PageNum] ELSE Blank

InPlace(c, W, b) == \A k \in DOMAIN c : k \in Key /\ c[k] \in Value /\ W[k] = b

\* A bucket has its entries in memory, or they fill its page, or they have been
\* loaded from there; its size is then too large by the size of a page.
Light(bk) == bk.size < BucketMax /\ bk.size = Cardinality(DOMAIN bk.bucket)
Written(bk, c, W, b) ==
  /\ bk.size = BucketMax /\ DOMAIN bk.bucket = {} /\ bk.PageNum # NoPage
  /\ Cardinality(DOMAIN c) = BucketMax /\ InPlace(c, W, b)
Reloaded(bk) ==
  /\ DOMAIN bk.bucket # {} /\ bk.PageNum # NoPage
  /\ bk.size = BucketMax + Cardinality(DOMAIN bk.bucket)

Held(bk, c, W, b) ==
  /\ InPlace(bk.bucket, W, b)
  /\ Light(bk) \/ Written(bk, c, W, b) \/ Reloaded(bk)

\* A bucket that was split and has got no entry since still has the page from
\* before.  No key on it leads here, unless it waits.
Old(bk) == bk.size = 0 /\ bk.PageNum # NoPage
OldOK(bk, c, W, b, Q) ==
  Old(bk) => \A k \in DOMAIN c : k \in Key /\ (W[k] = b => k \in Q)

StoredIn(t, pg, W, Q) ==
  /\ \A b \in DOMAIN t : Held(t[b], Current(t, pg, b), W, b)
  /\ \A b \in DOMAIN t : OldOK(t[b], Current(t, pg, b), W, b, Q)
  /\ \A b \in DOMAIN t : t[b].PageNum \in DOMAIN pg \cup {NoPage}
  /\ \A b, c \in DOMAIN t : b # c /\ t[b].PageNum # NoPage => t[b].PageNum # t[c].PageNum

\* The entries of a bucket, and the one of k.
ContentOf(bk, c) == IF bk.size >= BucketMax /\ DOMAIN bk.bucket = {} THEN c ELSE bk.bucket
ValueIn(c, k) == IF k \in DOMAIN c THEN c[k] ELSE 0
EntryIn(t, pg, b, k) ==
  IF b \in DOMAIN t THEN ValueIn(ContentOf(t[b], Current(t, pg, b)), k) ELSE 0

AnswersIn(t, pg, W, Q, d) ==
  \A k \in Key : EntryIn(t, pg, W[k], k) = IF k \in Q THEN 0 ELSE d[k]

SizeIn(t, b) == IF b \in DOMAIN t THEN t[b].size ELSE 0

LEMMA NoPageIsNoPage ==
  ASSUME NEW pg, PagesOK(pg)
  PROVE  NoPage \notin DOMAIN pg /\ DOMAIN pg \subseteq Nat
BY PagesCount DEF NoPage

\* The buckets other than b keep their pages, which are not b's page p.
PagesKept(t, b, p, pg, pg2) ==
  \A c \in DOMAIN t \ {b} : t[c].PageNum # NoPage =>
    /\ t[c].PageNum # p
    /\ t[c].PageNum \in DOMAIN pg2 /\ pg2[t[c].PageNum] = pg[t[c].PageNum]

LeadTo(W, b, keys) == \A k \in keys : W[k] = b

\* All but bucket b stay as they are, and so do their pages.
Replaced(t, pg, W, Q, b, t2, pg2, Q2) ==
  /\ StoredIn(t, pg, W, Q) /\ PagesOK(pg) /\ PagesOK(pg2)
  /\ b \in DOMAIN t /\ DOMAIN t2 = DOMAIN t /\ \A c \in DOMAIN t \ {b} : t2[c] = t[c]
  /\ PagesKept(t, b, t2[b].PageNum, pg, pg2) /\ t2[b].PageNum \in DOMAIN pg2 \cup {NoPage}
  /\ Held(t2[b], Current(t2, pg2, b), W, b)
  /\ OldOK(t2[b], Current(t2, pg2, b), W, b, Q2) /\ LeadTo(W, b, Q \ Q2)

LEMMA ReplaceKeepsStored ==
  ASSUME NEW t, NEW pg, NEW W, NEW Q, NEW b, NEW t2, NEW pg2, NEW Q2,
         Replaced(t, pg, W, Q, b, t2, pg2, Q2)
  PROVE  /\ StoredIn(t2, pg2, W, Q2)
         /\ \A c : c # b => \A k : EntryIn(t2, pg2, c, k) = EntryIn(t, pg, c, k)
<1> USE DEF Replaced
<1>1. \A c \in DOMAIN t \ {b} : Current(t2, pg2, c) = Current(t, pg, c)
  <2>1. SUFFICES ASSUME NEW c \in DOMAIN t \ {b} PROVE Current(t2, pg2, c) = Current(t, pg, c)
    OBVIOUS
  <2>2. t2[c] = t[c] /\ t[c].PageNum \in DOMAIN pg \cup {NoPage}
    BY DEF StoredIn
  <2>3. CASE t[c].PageNum = NoPage
    BY <2>2, <2>3, NoPageIsNoPage DEF Current
  <2>4. CASE t[c].PageNum # NoPage
    BY <2>2, <2>4 DEF Current, PagesKept
  <2> QED  BY <2>3, <2>4
<1>2. \A c \in DOMAIN t2 : Held(t2[c], Current(t2, pg2, c), W, c)
  BY <1>1 DEF StoredIn
<1>3. \A c \in DOMAIN t2 : OldOK(t2[c], Current(t2, pg2, c), W, c, Q2)
  <2>1. SUFFICES ASSUME NEW c \in DOMAIN t \ {b}, Old(t[c]), NEW k \in DOMAIN Current(t, pg, c)
                 PROVE  k \in Key /\ (W[k] = c => k \in Q2)
    BY <1>1 DEF OldOK
  <2>2. k \in Key /\ (W[k] = c => k \in Q)
    BY <2>1 DEF StoredIn, OldOK
  <2> QED  BY <2>2 DEF LeadTo
<1>4. \A c \in DOMAIN t2 : t2[c].PageNum \in DOMAIN pg2 \cup {NoPage}
  <2>1. SUFFICES ASSUME NEW c \in DOMAIN t \ {b} PROVE t[c].PageNum \in DOMAIN pg2 \cup {NoPage}
    OBVIOUS
  <2> QED  BY DEF PagesKept, StoredIn
<1>5. \A c, d \in DOMAIN t2 : c # d /\ t2[c].PageNum # NoPage => t2[c].PageNum # t2[d].PageNum
  <2>1. SUFFICES ASSUME NEW c \in DOMAIN t, NEW d \in DOMAIN t, c # d, t2[c].PageNum # NoPage
                 PROVE  t2[c].PageNum # t2[d].PageNum
    OBVIOUS
  <2>2. CASE c # b /\ d # b
    BY <2>1, <2>2 DEF StoredIn
  <2>3. CASE c # b /\ d = b
    BY <2>1, <2>3 DEF PagesKept
  <2>4. CASE c = b /\ d # b
    <3>1. CASE t[d].PageNum = NoPage
      BY <2>1, <2>4, <3>1
    <3>2. CASE t[d].PageNum # NoPage
      BY <2>1, <2>4, <3>2 DEF PagesKept
    <3> QED  BY <3>1, <3>2
  <2> QED  BY <2>1, <2>2, <2>3, <2>4
<1>6. ASSUME NEW c, c # b, NEW k PROVE EntryIn(t2, pg2, c, k) = EntryIn(t, pg, c, k)
  BY <1>1, <1>6 DEF EntryIn
<1> QED  BY <1>2, <1>3, <1>4, <1>5, <1>6 DEF StoredIn

\* The bucket keeps its page, and does not depend on what is there.
LEMMA ChangeKeepsStored ==
  ASSUME NEW t, NEW pg, NEW W, NEW Q, StoredIn(t, pg, W, Q), PagesOK(pg),
         NEW b \in DOMAIN t, NEW t2, NEW Q2,
         DOMAIN t2 = DOMAIN t, \A c \in DOMAIN t \ {b} : t2[c] = t[c],
         t2[b].PageNum = t[b].PageNum, ~Old(t2[b]),
         Held(t2[b], Current(t2, pg, b), W, b), LeadTo(W, b, Q \ Q2)
  PROVE  /\ StoredIn(t2, pg, W, Q2)
         /\ \A c : c # b => \A k : EntryIn(t2, pg, c, k) = EntryIn(t, pg, c, k)
<1>1. PagesKept(t, b, t2[b].PageNum, pg, pg) /\ t2[b].PageNum \in DOMAIN pg \cup {NoPage}
  BY DEF StoredIn, PagesKept
<1>2. OldOK(t2[b], Current(t2, pg, b), W, b, Q2)
  BY DEF OldOK
<1>3. Replaced(t, pg, W, Q, b, t2, pg, Q2)
  BY <1>1, <1>2 DEF Replaced
<1> QED  BY <1>3, ReplaceKeepsStored

\* Some keys that led to b lead to u from now on.
LEMMA ReleadKeepsStored ==
  ASSUME NEW t, NEW pg, NEW W, NEW Q, StoredIn(t, pg, W, Q), PagesOK(pg),
         NEW b \in DOMAIN t, NEW u, NEW t2, NEW W2, NEW Q2,
         DOMAIN t2 = DOMAIN t, \A c \in DOMAIN t \ {b} : t2[c] = t[c],
         t2[b].PageNum \in {t[b].PageNum, NoPage},
         Held(t2[b], Current(t2, pg, b), W2, b),
         OldOK(t2[b], Current(t2, pg, b), W2, b, Q2),
         Q \subseteq Q2,
         \A k \in Key : W2[k] # W[k] => W[k] = b /\ W2[k] = u,
         u \in DOMAIN t => ~Old(t2[u]) \/ u = b
  PROVE  /\ StoredIn(t2, pg, W2, Q2)
         /\ \A c : c # b => \A k : EntryIn(t2, pg, c, k) = EntryIn(t, pg, c, k)
<1>1. \A c \in DOMAIN t \ {b} : Current(t2, pg, c) = Current(t, pg, c)
  BY DEF Current
<1>2. \A c \in DOMAIN t2 : Held(t2[c], Current(t2, pg, c), W2, c)
  <2>1. SUFFICES ASSUME NEW c \in DOMAIN t \ {b} PROVE Held(t[c], Current(t, pg, c), W2, c)
    BY <1>1
  <2>2. Held(t[c], Current(t, pg, c), W, c)
    BY DEF StoredIn
  <2>3. \A x : InPlace(x, W, c) => InPlace(x, W2, c)
    BY DEF InPlace
  <2> QED  BY <2>2, <2>3 DEF Held, Written
<1>3. \A c \in DOMAIN t2 : OldOK(t2[c], Current(t2, pg, c), W2, c, Q2)
  <2>1. SUFFICES ASSUME NEW c \in DOMAIN t \ {b}, Old(t[c]), NEW k \in DOMAIN Current(t, pg, c)
                 PROVE  k \in Key /\ (W2[k] = c => k \in Q2)
    BY <1>1 DEF OldOK
  <2>2. k \in Key /\ (W[k] = c => k \in Q)
    BY <2>1 DEF StoredIn, OldOK
  <2>3. c # u
    BY <2>1
  <2> QED  BY <2>2, <2>3
<1>4. \A c \in DOMAIN t2 : t2[c].PageNum \in DOMAIN pg \cup {NoPage}
  BY DEF StoredIn
<1>5. \A c, d \in DOMAIN t2 : c # d /\ t2[c].PageNum # NoPage => t2[c].PageNum # t2[d].PageNum
  <2>1. SUFFICES ASSUME NEW c \in DOMAIN t, NEW d \in DOMAIN t, c # d, t2[c].PageNum # NoPage
                 PROVE  t2[c].PageNum # t2[d].PageNum
    OBVIOUS
  <2>2. \A x \in DOMAIN t : t2[x].PageNum \in {t[x].PageNum, NoPage}
    OBVIOUS
  <2>3. t2[c].PageNum = t[c].PageNum /\ t[c].PageNum # t[d].PageNum
    BY <2>1, <2>2 DEF StoredIn
  <2> QED  BY <2>1, <2>2, <2>3
<1>6. ASSUME NEW c, c # b, NEW k PROVE EntryIn(t2, pg, c, k) = EntryIn(t, pg, c, k)
  BY <1>1, <1>6 DEF EntryIn
<1> QED  BY <1>2, <1>3, <1>4, <1>5, <1>6 DEF StoredIn

LEMMA NewBucketHeld ==
  ASSUME NEW c, NEW W, NEW b, NEW Q
  PROVE  /\ Held(NewBucket, c, W, b) /\ OldOK(NewBucket, c, W, b, Q)
         /\ NewBucket.PageNum = NoPage /\ NewBucket.size = 0
         /\ \A k : ValueIn(ContentOf(NewBucket, c), k) = 0
<1>1. DOMAIN NewBucket.bucket = {} /\ NewBucket.size = 0 /\ NewBucket.PageNum = NoPage
  BY NothingAndBlank DEF NewBucket
<1>2. BucketMax \in Nat /\ BucketMax >= 2
  OBVIOUS
<1>3. Cardinality({}) = 0
  BY FS_EmptySet
<1>4. Light(NewBucket)
  BY <1>1, <1>2, <1>3 DEF Light
<1>5. Held(NewBucket, c, W, b)
  BY <1>1, <1>4 DEF Held, InPlace
<1>6. \A k : ValueIn(ContentOf(NewBucket, c), k) = 0
  BY <1>1, <1>2 DEF ValueIn, ContentOf
<1> QED  BY <1>1, <1>5, <1>6 DEF OldOK, Old

\* New buckets behind those there are change nothing.
LEMMA GrowthKeepsStored ==
  ASSUME NEW t, NEW pg, NEW W, NEW Q, StoredIn(t, pg, W, Q), NEW t2,
         DOMAIN t \subseteq DOMAIN t2,
         \A b \in DOMAIN t2 : t2[b] = IF b \in DOMAIN t THEN t[b] ELSE NewBucket
  PROVE  /\ StoredIn(t2, pg, W, Q)
         /\ \A b, k : EntryIn(t2, pg, b, k) = EntryIn(t, pg, b, k)
         /\ \A b : SizeIn(t2, b) = SizeIn(t, b)
<1>1. \A b \in DOMAIN t : t2[b] = t[b] /\ Current(t2, pg, b) = Current(t, pg, b)
  BY DEF Current
<1>2. \A b \in DOMAIN t2 : Held(t2[b], Current(t2, pg, b), W, b)
  <2>1. SUFFICES ASSUME NEW b \in DOMAIN t2 PROVE Held(t2[b], Current(t2, pg, b), W, b)
    OBVIOUS
  <2>2. CASE b \in DOMAIN t
    BY <1>1, <2>2 DEF StoredIn
  <2>3. CASE b \notin DOMAIN t
    BY <2>3, NewBucketHeld
  <2> QED  BY <2>2, <2>3
<1>3. \A b \in DOMAIN t2 : OldOK(t2[b], Current(t2, pg, b), W, b, Q)
  <2>1. SUFFICES ASSUME NEW b \in DOMAIN t2 PROVE OldOK(t2[b], Current(t2, pg, b), W, b, Q)
    OBVIOUS
  <2>2. CASE b \in DOMAIN t
    BY <1>1, <2>2 DEF StoredIn
  <2>3. CASE b \notin DOMAIN t
    BY <2>3, NewBucketHeld
  <2> QED  BY <2>2, <2>3
<1>4. \A b \in DOMAIN t2 : t2[b].PageNum = IF b \in DOMAIN t THEN t[b].PageNum ELSE NoPage
  BY NewBucketHeld
<1>5. /\ \A b \in DOMAIN t2 : t2[b].PageNum \in DOMAIN pg \cup {NoPage}
      /\ \A b, c \in DOMAIN t2 : b # c /\ t2[b].PageNum # NoPage => t2[b].PageNum # t2[c].PageNum
  BY <1>4 DEF StoredIn
<1>6. ASSUME NEW b, NEW k
      PROVE  EntryIn(t2, pg, b, k) = EntryIn(t, pg, b, k) /\ SizeIn(t2, b) = SizeIn(t, b)
  <2>1. CASE b \in DOMAIN t
    BY <1>1, <2>1 DEF EntryIn, SizeIn
  <2>2. CASE b \in DOMAIN t2 \ DOMAIN t
    <3>1. t2[b] = NewBucket
      BY <2>2
    <3>2. ValueIn(ContentOf(NewBucket, Current(t2, pg, b)), k) = 0 /\ NewBucket.size = 0
      BY NewBucketHeld
    <3> QED  BY ONLY <2>2, <3>1, <3>2 DEF EntryIn, SizeIn
  <2>3. CASE b \notin DOMAIN t2
    BY <2>3 DEF EntryIn, SizeIn
  <2> QED  BY <2>1, <2>2, <2>3
<1> QED  BY <1>2, <1>3, <1>5, <1>6 DEF StoredIn

\* Without a mishap BucketWrite writes a page that is this bucket's alone, and no other.
LEMMA BucketWriteEffect ==
  ASSUME PagesOK(page), NEW t, NEW W, NEW Q, StoredIn(t, page, W, Q),
         NEW b \in DOMAIN t, NEW bk \in Bucket, bk.PageNum = t[b].PageNum,
         BucketWrite(t, b, bk), ~strayed'
  PROVE  /\ ~strayed
         /\ \E p \in Nat :
              /\ p \in DOMAIN page' /\ page'[p] = bk.bucket
              /\ BucketTable' = [t EXCEPT ![b] = [bk EXCEPT !.PageNum = p, !.bucket = Nothing]]
              /\ PagesKept(t, b, p, page, page')
<1>1. sectorpointer \in Nat /\ sectorpointer \notin DOMAIN page /\ DOMAIN page \subseteq Nat
  BY PagesCount, NoPageIsNoPage DEF sectorpointer
<1>2. \A c \in DOMAIN t : t[c].PageNum # NoPage => t[c].PageNum \in DOMAIN page
  BY DEF StoredIn
<1>3. CASE bk.PageNum = NoPage /\ PageAppend(bk.bucket)
           /\ BucketTable' = [t EXCEPT ![b] = [bk EXCEPT !.PageNum = sectorpointer, !.bucket = Nothing]]
  <2> DEFINE s == sectorpointer
  <2>1. page' = Set(page, s, bk.bucket) /\ ~strayed
    BY <1>3 DEF PageAppend
  <2>2. s \in Nat /\ s \notin DOMAIN page
    BY <1>1
  <2>3. BucketTable' = [t EXCEPT ![b] = [bk EXCEPT !.PageNum = s, !.bucket = Nothing]]
    BY <1>3
  <2> HIDE DEF s
  <2>4. /\ DOMAIN page' = DOMAIN page \cup {s} /\ page'[s] = bk.bucket
        /\ \A q \in DOMAIN page : q # s => page'[q] = page[q]
    BY <2>1 DEF Set
  <2>5. ASSUME NEW c \in DOMAIN t \ {b}, t[c].PageNum # NoPage
        PROVE  /\ t[c].PageNum # s
               /\ t[c].PageNum \in DOMAIN page' /\ page'[t[c].PageNum] = page[t[c].PageNum]
    BY <1>2, <2>2, <2>4, <2>5
  <2>6. PagesKept(t, b, s, page, page')
    BY <2>5 DEF PagesKept
  <2> QED  BY <2>1, <2>2, <2>3, <2>4, <2>6
<1>4. CASE bk.PageNum # NoPage /\ PageUpdate(bk.PageNum, bk.bucket)
           /\ BucketTable' = [t EXCEPT ![b] = [bk EXCEPT !.bucket = Nothing]]
  <2> DEFINE p == bk.PageNum
  <2>1. p \in DOMAIN page /\ p \in Nat
    BY <1>1, <1>2, <1>4
  <2>2. ~strayed /\ page' = [q \in DOMAIN page |-> IF q = p THEN bk.bucket ELSE page[q]]
    <3>1. PICK lost : /\ page' = [q \in DOMAIN page |-> IF q \in lost THEN Blank
                                         ELSE IF q = p THEN bk.bucket ELSE page[q]]
                      /\ strayed' = (strayed \/ lost # {})
      BY <1>4 DEF PageUpdate
    <3>2. lost = {} /\ ~strayed
      BY <3>1
    <3> QED  BY <3>1, <3>2
  <2>3. BucketTable' = [t EXCEPT ![b] = [bk EXCEPT !.PageNum = p, !.bucket = Nothing]]
    <3>1. [bk EXCEPT !.PageNum = p, !.bucket = Nothing] = [bk EXCEPT !.bucket = Nothing]
      BY DEF Bucket
    <3> QED  BY <1>4, <3>1
  <2>4. p = t[b].PageNum
    OBVIOUS
  <2> HIDE DEF p
  <2>5. ASSUME NEW c \in DOMAIN t \ {b}, t[c].PageNum # NoPage
        PROVE  /\ t[c].PageNum # p
               /\ t[c].PageNum \in DOMAIN page' /\ page'[t[c].PageNum] = page[t[c].PageNum]
    <3>1. t[c].PageNum # p
      BY <2>4, <2>5 DEF StoredIn
    <3> QED  BY <1>2, <2>2, <2>5, <3>1
  <2>6. PagesKept(t, b, p, page, page')
    BY <2>5 DEF PagesKept
  <2> QED  BY <2>1, <2>2, <2>3, <2>6
<1> QED  BY <1>3, <1>4 DEF BucketWrite

\* A full bucket is written, and what its page has is what it held.
WritesFull(t, W, Q, b, bk, Q2) ==
  /\ PagesOK(page) /\ TableOK(t) /\ StoredIn(t, page, W, Q) /\ b \in DOMAIN t
  /\ bk \in Bucket /\ bk.PageNum = t[b].PageNum /\ BucketWrite(t, b, bk)
  /\ ~strayed' /\ PagesOK(page') /\ bk.size = BucketMax
  /\ Cardinality(DOMAIN bk.bucket) = BucketMax /\ InPlace(bk.bucket, W, b)
  /\ LeadTo(W, b, Q \ Q2)

LEMMA WriteKeepsStored ==
  ASSUME NEW t, NEW W, NEW Q, NEW b, NEW bk, NEW Q2, WritesFull(t, W, Q, b, bk, Q2)
  PROVE  /\ ~strayed /\ StoredIn(BucketTable', page', W, Q2)
         /\ DOMAIN BucketTable' = DOMAIN t /\ \A c \in DOMAIN t \ {b} : BucketTable'[c] = t[c]
         /\ BucketTable'[b].size = BucketMax
         /\ \A k : EntryIn(BucketTable', page', b, k) = ValueIn(bk.bucket, k)
         /\ \A c : c # b => \A k : EntryIn(BucketTable', page', c, k) = EntryIn(t, page, c, k)
<1> USE DEF WritesFull
<1>1. PICK p \in Nat :
        /\ p \in DOMAIN page' /\ page'[p] = bk.bucket
        /\ BucketTable' = [t EXCEPT ![b] = [bk EXCEPT !.PageNum = p, !.bucket = Nothing]]
        /\ PagesKept(t, b, p, page, page')
  BY BucketWriteEffect
<1>2. ~strayed
  BY BucketWriteEffect
<1> DEFINE t2 == BucketTable'
<1>3. /\ DOMAIN t2 = DOMAIN t /\ \A c \in DOMAIN t \ {b} : t2[c] = t[c]
      /\ t2[b].size = BucketMax /\ t2[b].PageNum = p /\ t2[b].bucket = Nothing
  BY <1>1, TableCount DEF Bucket
<1> HIDE DEF t2
<1>4. BucketMax \in Nat /\ BucketMax >= 2 /\ p # NoPage /\ DOMAIN Nothing = {}
  BY NothingAndBlank DEF NoPage
<1>5. Current(t2, page', b) = bk.bucket
  BY <1>1, <1>3 DEF Current
<1>6. Held(t2[b], Current(t2, page', b), W, b)
  BY <1>3, <1>4, <1>5 DEF Held, Written, InPlace
<1>7. OldOK(t2[b], Current(t2, page', b), W, b, Q2)
  BY <1>3, <1>4 DEF OldOK, Old
<1>8. /\ StoredIn(t2, page', W, Q2)
      /\ \A c : c # b => \A k : EntryIn(t2, page', c, k) = EntryIn(t, page, c, k)
  <2> DEFINE pg2 == page'
  <2>1. /\ PagesOK(pg2) /\ t2[b].PageNum \in DOMAIN pg2 \cup {NoPage}
        /\ PagesKept(t, b, t2[b].PageNum, page, pg2)
    BY <1>1, <1>3
  <2>2. Held(t2[b], Current(t2, pg2, b), W, b) /\ OldOK(t2[b], Current(t2, pg2, b), W, b, Q2)
    BY <1>6, <1>7
  <2> HIDE DEF pg2
  <2>3. /\ StoredIn(t2, pg2, W, Q2)
        /\ \A c : c # b => \A k : EntryIn(t2, pg2, c, k) = EntryIn(t, page, c, k)
    <3>1. /\ StoredIn(t, page, W, Q) /\ PagesOK(page) /\ b \in DOMAIN t /\ LeadTo(W, b, Q \ Q2)
      OBVIOUS
    <3>2. Replaced(t, page, W, Q, b, t2, pg2, Q2)
      BY <1>3, <2>1, <2>2, <3>1 DEF Replaced
    <3> QED  BY <3>2, ReplaceKeepsStored
  <2> QED  BY <2>3 DEF pg2
<1>9. \A k : EntryIn(t2, page', b, k) = ValueIn(bk.bucket, k)
  BY <1>3, <1>4, <1>5 DEF EntryIn, ContentOf
<1> QED  BY <1>2, <1>3, <1>8, <1>9 DEF t2

\* A bucket that is not full has its entries in memory.
LEMMA ContentOfLight ==
  ASSUME NEW bk \in Good, NEW c, NEW W, NEW b, Held(bk, c, W, b), bk.size < BucketMax
  PROVE  Light(bk) /\ ContentOf(bk, c) = bk.bucket /\ InPlace(bk.bucket, W, b)
<1>1. bk.size \in Nat /\ Cardinality(DOMAIN bk.bucket) \in Nat
  BY GoodFacts
<1> DEFINE n == Cardinality(DOMAIN bk.bucket)
           s == bk.size
<1>2. n \in Nat /\ s \in Nat /\ s < BucketMax /\ BucketMax \in Nat
  BY <1>1
<1>3. ~Written(bk, c, W, b)
  BY <1>2 DEF Written
<1>4. ~Reloaded(bk)
  <2>1. Reloaded(bk) => s = BucketMax + n
    BY DEF Reloaded
  <2> HIDE DEF s, n
  <2> QED  BY <1>2, <2>1
<1>5. ~(s >= BucketMax)
  <2> HIDE DEF s, n
  <2> QED  BY <1>2
<1> QED  BY <1>3, <1>4, <1>5 DEF Held, ContentOf

\* No bucket has an entry whose key leads elsewhere.
LEMMA NoEntryElsewhere ==
  ASSUME NEW t, TableOK(t), NEW pg, PagesOK(pg), NEW W, NEW Q, StoredIn(t, pg, W, Q),
         NEW b, NEW k, W[k] # b
  PROVE  EntryIn(t, pg, b, k) = 0
<1>1. CASE b \notin DOMAIN t
  BY <1>1 DEF EntryIn
<1>2. CASE b \in DOMAIN t
  <2> DEFINE bk == t[b]
             c == Current(t, pg, b)
  <2>1. Held(bk, c, W, b) /\ bk \in Good
    BY <1>2, TableCount DEF StoredIn
  <2>2. EntryIn(t, pg, b, k) = ValueIn(ContentOf(bk, c), k)
    BY <1>2 DEF EntryIn
  <2> HIDE DEF bk, c
  <2>3. k \notin DOMAIN bk.bucket
    BY <2>1 DEF Held, InPlace
  <2>4. CASE Written(bk, c, W, b)
    <3>1. k \notin DOMAIN c
      BY <2>4 DEF Written, InPlace
    <3> QED  BY <2>2, <2>3, <3>1 DEF ContentOf, ValueIn
  <2>5. CASE Light(bk)
    <3>1. ContentOf(bk, c) = bk.bucket
      BY <2>1, <2>5, ContentOfLight DEF Light
    <3> QED  BY <2>2, <2>3, <3>1 DEF ValueIn
  <2>6. CASE Reloaded(bk)
    <3>1. ContentOf(bk, c) = bk.bucket
      BY <2>6 DEF Reloaded, ContentOf
    <3> QED  BY <2>2, <2>3, <3>1 DEF ValueIn
  <2> QED  BY <2>1, <2>4, <2>5, <2>6 DEF Held
<1> QED  BY <1>1, <1>2

\* An entry of a key that a bucket does not have is put in it.  Without a mishap there
\* was room for it.
LEMMA PutEffect ==
  ASSUME PagesOK(page), NEW t, TableOK(t), NEW W, NEW Q, StoredIn(t, page, W, Q),
         NEW b \in DOMAIN t, NEW e \in Item, e.key \in Key, e.val \in Value, W[e.key] = b,
         EntryIn(t, page, b, e.key) = 0,
         BucketInsert(t, b, e), ~strayed',
         NEW Q2, Q \ Q2 \subseteq {e.key}
  PROVE  /\ ~strayed /\ StoredIn(BucketTable', page', W, Q2)
         /\ DOMAIN BucketTable' = DOMAIN t /\ \A c \in DOMAIN t \ {b} : BucketTable'[c] = t[c]
         /\ t[b].size \in Nat /\ t[b].size < BucketMax /\ BucketTable'[b].size = t[b].size + 1
         /\ \A k : EntryIn(BucketTable', page', b, k) =
                     IF k = e.key THEN e.val ELSE EntryIn(t, page, b, k)
         /\ \A c : c # b => \A k : EntryIn(BucketTable', page', c, k) = EntryIn(t, page, c, k)
<1> DEFINE bk == t[b]
           more == More(bk, e)
           x == e.key
           n == bk.size
           old == bk.bucket
<1>1. bk \in Good /\ PagesOK(page') /\ n \in Nat /\ BucketMax \in Nat /\ BucketMax >= 2
      /\ old \in Contents /\ x \in Nat /\ e.val \in Nat
  BY TableCount, BucketInsertTypes, GoodFacts DEF Item
<1>2. /\ more \in Good /\ more \in Bucket /\ more.size = n + 1 /\ more.PageNum = bk.PageNum
      /\ more.bucket = Set(old, x, e.val)
  BY <1>1, MoreType, GoodFacts
<1>3. more = [t[b] EXCEPT !.bucket = Set(@, e.key, e.val), !.size = @ + 1]
  BY DEF More
<1>4. Held(bk, Current(t, page, b), W, b)
  BY DEF StoredIn
<1>5. EntryIn(t, page, b, x) = 0 /\ \A k : EntryIn(t, page, b, k) = ValueIn(ContentOf(bk, Current(t, page, b)), k)
  BY DEF EntryIn
<1>6. \/ more.size = BucketMax /\ BucketWrite(t, b, more)
      \/ /\ more.size # BucketMax /\ BucketTable' = [t EXCEPT ![b] = more] /\ page' = page
         /\ strayed' = (strayed \/ more.size > BucketMax)
  <2> HIDE DEF more
  <2> QED  BY <1>3 DEF BucketInsert
<1> HIDE DEF more, bk
<1>7. n < BucketMax
  <2>1. CASE more.size = BucketMax
    BY <1>1, <1>2, <2>1
  <2>2. CASE more.size # BucketMax
    <3>1. ~(more.size > BucketMax)
      BY <1>6, <2>2
    <3> QED  BY <1>1, <1>2, <3>1
  <2> QED  BY <2>1, <2>2
<1>8. /\ Light(bk) /\ ContentOf(bk, Current(t, page, b)) = old /\ InPlace(old, W, b)
  BY <1>1, <1>4, <1>7, ContentOfLight
<1>9. x \notin DOMAIN old
  <2>1. SUFFICES ASSUME x \in DOMAIN old PROVE FALSE
    OBVIOUS
  <2>2. old[x] = 0 /\ old[x] \in Value
    BY <1>5, <1>8, <2>1 DEF ValueIn, InPlace
  <2> QED  BY <2>2
<1>10. /\ more.bucket \in Contents /\ DOMAIN more.bucket = DOMAIN old \cup {x}
       /\ Cardinality(DOMAIN more.bucket) = Cardinality(DOMAIN old) + 1
       /\ Cardinality(DOMAIN old) = n
       /\ \A k \in DOMAIN more.bucket : more.bucket[k] = IF k = x THEN e.val ELSE old[k]
  <2> HIDE DEF old, x
  <2>1. more.bucket = Set(old, x, e.val)
    BY <1>2
  <2>2. Cardinality(DOMAIN old) = n
    BY <1>8 DEF Light, old
  <2>3. /\ Set(old, x, e.val) \in Contents /\ DOMAIN Set(old, x, e.val) = DOMAIN old \cup {x}
        /\ Cardinality(DOMAIN Set(old, x, e.val)) = Cardinality(DOMAIN old) + 1
    BY ONLY <1>1, <1>9, SetKeepsContents
  <2>4. \A k \in DOMAIN old \cup {x} : Set(old, x, e.val)[k] = IF k = x THEN e.val ELSE old[k]
    BY DEF Set
  <2> QED  BY ONLY <2>1, <2>2, <2>3, <2>4
<1>11. InPlace(more.bucket, W, b)
  BY <1>8, <1>10 DEF InPlace
<1>12. \A k : ValueIn(more.bucket, k) = IF k = x THEN e.val ELSE EntryIn(t, page, b, k)
  BY <1>5, <1>8, <1>10 DEF ValueIn
<1>13. LeadTo(W, b, Q \ Q2)
  BY DEF LeadTo
<1>14. CASE more.size = BucketMax /\ BucketWrite(t, b, more)
  <2>1. Cardinality(DOMAIN more.bucket) = BucketMax
    BY <1>2, <1>10, <1>14
  <2>2. /\ ~strayed /\ StoredIn(BucketTable', page', W, Q2)
        /\ DOMAIN BucketTable' = DOMAIN t /\ \A c \in DOMAIN t \ {b} : BucketTable'[c] = t[c]
        /\ BucketTable'[b].size = BucketMax
        /\ \A k : EntryIn(BucketTable', page', b, k) = ValueIn(more.bucket, k)
        /\ \A c : c # b => \A k : EntryIn(BucketTable', page', c, k) = EntryIn(t, page, c, k)
    <3>1. WritesFull(t, W, Q, b, more, Q2)
      BY <1>1, <1>2, <1>11, <1>13, <1>14, <2>1 DEF bk, WritesFull
    <3> QED  BY <1>14, <3>1, WriteKeepsStored
  <2> QED  BY <1>1, <1>2, <1>7, <1>12, <1>14, <2>2 DEF bk
<1>15. CASE /\ more.size # BucketMax /\ BucketTable' = [t EXCEPT ![b] = more] /\ page' = page
            /\ strayed' = (strayed \/ more.size > BucketMax)
  <2> DEFINE t2 == [t EXCEPT ![b] = more]
  <2>1. DOMAIN t2 = DOMAIN t /\ t2[b] = more /\ \A c \in DOMAIN t \ {b} : t2[c] = t[c]
    BY TableCount
  <2> HIDE DEF t2
  <2>2. more.size < BucketMax /\ Light(more) /\ more.size # 0
    <3>1. more.size < BucketMax /\ more.size # 0
      BY <1>1, <1>2, <1>7, <1>15
    <3>2. more.size = Cardinality(DOMAIN more.bucket)
      BY <1>2, <1>10
    <3> QED  BY <3>1, <3>2 DEF Light
  <2>3. Held(t2[b], Current(t2, page, b), W, b) /\ ~Old(t2[b])
    BY <1>11, <2>1, <2>2 DEF Held, Old
  <2>4. t2[b].PageNum = t[b].PageNum
    BY <1>2, <2>1 DEF bk
  <2>5. StoredIn(t, page, W, Q) /\ PagesOK(page) /\ b \in DOMAIN t
    OBVIOUS
  <2>6. /\ StoredIn(t2, page, W, Q2)
        /\ \A c : c # b => \A k : EntryIn(t2, page, c, k) = EntryIn(t, page, c, k)
    BY ONLY <1>13, <2>1, <2>3, <2>4, <2>5, ChangeKeepsStored
  <2>7. \A k : EntryIn(t2, page, b, k) = ValueIn(more.bucket, k)
    <3>1. ContentOf(more, Current(t2, page, b)) = more.bucket
      BY <1>1, <1>2, <2>2 DEF ContentOf
    <3> QED  BY <2>1, <3>1 DEF EntryIn
  <2>8. BucketTable' = t2
    BY <1>15 DEF t2
  <2>9. ~strayed /\ page' = page
    BY <1>15
  <2>10. \A k : EntryIn(t2, page, b, k) = IF k = x THEN e.val ELSE EntryIn(t, page, b, k)
    BY <1>12, <2>7
  <2>11. t[b].size \in Nat /\ t[b].size < BucketMax /\ t2[b].size = t[b].size + 1
    BY <1>1, <1>2, <1>7, <2>1 DEF bk
  <2> QED  BY <2>1, <2>6, <2>8, <2>9, <2>10, <2>11
<1> QED  BY <1>6, <1>14, <1>15

-----------------------------------------------------------------------------
(* Where keys lead, and the shape of the table: m stands for h1, F for     *)
(* SplitFlag and S for the bucket that is being split, if any.             *)

LeadsIn(m, F) == [k \in Nat |-> IF (k % m) \in F THEN (k % (2 * m)) ELSE (k % m)]

LEMMA LeadsFacts ==
  ASSUME NEW m \in Nat \ {0}, NEW F, NEW k \in Nat
  PROVE  LET b == LeadsIn(m, F)[k]
             l == (k % m) IN
         /\ l \in 0 .. (m - 1) /\ b \in {l, l + m} /\ b \in 0 .. (2 * m - 1) /\ (b % m) = l
         /\ (k % (2 * m)) \in {l, l + m}
         /\ b = l + m => l \in F
         /\ l \in F => b = (k % (2 * m))
         /\ l \notin F => b = l
         /\ \A x \in 0 .. (m - 1) : x = b \/ x + m = b => x = l
<1> DEFINE l == (k % m)
           d == (k % (2 * m))
           b == LeadsIn(m, F)[k]
<1>1. l \in 0 .. (m - 1) /\ d \in {l, l + m}
  BY QuotientAndRemainder, RemainderOfDouble
<1>2. b = IF l \in F THEN d ELSE l
  BY DEF LeadsIn
<1> HIDE DEF l, d, b
<1>3. b \in {l, l + m} /\ b \in 0 .. (2 * m - 1)
  BY <1>1, <1>2
<1>4. (b % m) = l
  <2>1. PICK q \in {0, 1} : b = m * q + l
    <3>1. l = m * 0 + l /\ l + m = m * 1 + l
      BY <1>1
    <3> QED  BY <1>3, <3>1
  <2>2. ((m * q + l) % m) = l
    BY <1>1, RemainderIsUnique
  <2> QED  BY <2>1, <2>2
<1>5. b = l + m => l \in F
  <2>1. l # l + m
    BY <1>1
  <2> QED  BY <1>2, <2>1
<1>6. \A x \in 0 .. (m - 1) : x = b \/ x + m = b => x = l
  BY <1>1, <1>3
<1> QED  BY <1>1, <1>2, <1>3, <1>4, <1>5, <1>6 DEF b, l, d

LEMMA LeadsPlace ==
  ASSUME NEW m \in Nat \ {0}, NEW F, NEW k \in Nat, NEW b, b = LeadsIn(m, F)[k]
  PROVE  /\ (k % m) \in 0 .. (m - 1) /\ b \in {(k % m), (k % m) + m} /\ b \in 0 .. (2 * m - 1)
         /\ b = (k % m) + m => (k % m) \in F
         /\ b = IF (k % m) \in F THEN (k % (2 * m)) ELSE (k % m)
BY LeadsFacts

LEMMA LeadsRemainder ==
  ASSUME NEW m \in Nat \ {0}, NEW F, NEW k \in Nat
  PROVE  (LeadsIn(m, F)[k] % m) = (k % m)
BY LeadsFacts

\* What a round leads to is where the next one starts.
LEMMA NextRoundLeads ==
  ASSUME NEW m \in Nat \ {0}, NEW F, 0 .. (m - 1) \subseteq F
  PROVE  LeadsIn(2 * m, {}) = LeadsIn(m, F)
<1>1. \A k \in Nat : (k % m) \in F
  BY QuotientAndRemainder
<1> QED  BY <1>1 DEF LeadsIn

Tabled(m, F, t, S) ==
  \/ DOMAIN t = 0 .. (2 * m - 1)
  \/ DOMAIN t = 0 .. (m - 1) /\ F \subseteq S

\* The other half of a bucket that has not been split is new.
UppersNew(m, F, t) ==
  \A l \in 0 .. (m - 1) : l \notin F /\ (l + m) \in DOMAIN t => t[l + m] = NewBucket

\* What a split has emptied is not merged: the entries are all in the other half,
\* and fill it.
Emptied(m, F, t, S) ==
  \A l \in 0 .. (m - 1) :
    l \in F \ S /\ l \in DOMAIN t /\ Old(t[l]) => SizeIn(t, l + m) >= BucketMax

\* One bucket is replaced, which some key leads to.
LEMMA ReplaceKeepsShape ==
  ASSUME NEW m \in Nat \ {0}, NEW F, NEW S, NEW t, UppersNew(m, F, t), Emptied(m, F, t, S),
         NEW b \in DOMAIN t, NEW k \in Nat, b = LeadsIn(m, F)[k],
         NEW t2, DOMAIN t2 = DOMAIN t, \A c \in DOMAIN t \ {b} : t2[c] = t[c],
         Old(t2[b]) => Old(t[b]), t[b].size >= BucketMax => t2[b].size >= BucketMax
  PROVE  UppersNew(m, F, t2) /\ Emptied(m, F, t2, S)
<1>1. ASSUME NEW l \in 0 .. (m - 1), l \notin F, (l + m) \in DOMAIN t2 PROVE t2[l + m] = NewBucket
  <2>1. l + m # b
    <3> DEFINE y == (k % m)
    <3>1. y \in 0 .. (m - 1) /\ b \in {y, y + m} /\ (b = y + m => y \in F)
      BY LeadsPlace
    <3> HIDE DEF y
    <3> QED  BY <1>1, <3>1
  <2> QED  BY <1>1, <2>1 DEF UppersNew
<1>2. ASSUME NEW l \in 0 .. (m - 1), l \in F \ S, l \in DOMAIN t2, Old(t2[l])
      PROVE  SizeIn(t2, l + m) >= BucketMax
  <2>1. Old(t[l])
    BY <1>2
  <2>2. SizeIn(t, l + m) >= BucketMax
    BY <1>2, <2>1 DEF Emptied
  <2> QED  BY <2>2 DEF SizeIn
<1> QED  BY <1>1, <1>2 DEF UppersNew, Emptied

LEMMA GrowthKeepsShape ==
  ASSUME NEW m \in Nat \ {0}, NEW F, NEW S, NEW t, UppersNew(m, F, t), Emptied(m, F, t, S),
         NEW t2, DOMAIN t \subseteq DOMAIN t2,
         \A b \in DOMAIN t2 : t2[b] = IF b \in DOMAIN t THEN t[b] ELSE NewBucket
  PROVE  UppersNew(m, F, t2) /\ Emptied(m, F, t2, S)
<1>1. ~Old(NewBucket) /\ NewBucket.size = 0
  BY NewBucketHeld DEF Old
<1>2. \A b : SizeIn(t2, b) = SizeIn(t, b)
  BY <1>1 DEF SizeIn
<1>3. ASSUME NEW l \in 0 .. (m - 1), l \notin F, (l + m) \in DOMAIN t2 PROVE t2[l + m] = NewBucket
  BY <1>3 DEF UppersNew
<1>4. ASSUME NEW l \in 0 .. (m - 1), l \in F \ S, l \in DOMAIN t2, Old(t2[l])
      PROVE  SizeIn(t2, l + m) >= BucketMax
  <2>1. l \in DOMAIN t /\ Old(t[l])
    BY <1>1, <1>4
  <2> QED  BY <1>2, <1>4, <2>1 DEF Emptied
<1> QED  BY <1>3, <1>4 DEF UppersNew, Emptied

-----------------------------------------------------------------------------
(* The invariant.                                                          *)

Splits == IF then = << >> THEN {} ELSE {(Head(then).key % h1)}

\* Until the entry that made a bucket split is put, the entries of that bucket are
\* in its two halves, or wait.
Halves(e, t) == SizeIn(t, (e.key % h1)) + SizeIn(t, (e.key % h1) + h1)
SplitFor(e) ==
  /\ e.key \in Key /\ e.val \in Value /\ e.val = dict[e.key]
  /\ to = Rehash /\ (e.key % h1) \in SplitFlag
  /\ Halves(e, BucketTable) + Len(todo) >= BucketMax
Splitting == then = << >> \/ \E e \in Item : then = <<e>> /\ SplitFor(e)

ItemOK(e) ==
  /\ e.key \in Key /\ e.val \in Value /\ e.val = dict[e.key]
  /\ Leads[e.key] = IF to = Rehash THEN (e.key % h2) ELSE to
  /\ \A x \in Item : then = <<x>> => e.key # x.key /\ (e.key % h1) = (x.key % h1)
TodoOK ==
  /\ \A i \in DOMAIN todo : ItemOK(todo[i])
  /\ \A i, j \in DOMAIN todo : i # j => todo[i].key # todo[j].key

Stored == StoredIn(BucketTable, page, Leads, WaitingKeys)

Running ==
  /\ Tabled(h1, SplitFlag, BucketTable, Splits)
  /\ UppersNew(h1, SplitFlag, BucketTable)
  /\ Emptied(h1, SplitFlag, BucketTable, Splits)
  /\ Splitting /\ TodoOK
  /\ AnswersIn(BucketTable, page, Leads, WaitingKeys, dict)

ContentsInv == ~strayed => Stored /\ (status = "running" => Running)

LEMMA LeadsIs ==
  /\ Leads = LeadsIn(h1, SplitFlag)
  /\ \A k \in Nat : Leads[k] = bucketno(k)
BY DEF Leads, LeadsIn, bucketno, h2

LEMMA LeadsIsNext ==
  Leads' = LeadsIn(h1', SplitFlag')
BY DEF Leads, LeadsIn, bucketno, h2

\* When the process ends nothing has changed.
LEMMA StopKeepsContents ==
  ASSUME Stored, ~strayed, NEW how, how # "running", Stop(how)
  PROVE  ContentsInv'
<1>1. UNCHANGED <<BucketTable, page, h1, SplitFlag, todo, then>> /\ status' # "running"
  BY DEF Stop, pending
<1>2. Leads' = Leads /\ WaitingKeys' = WaitingKeys
  BY <1>1, LeadsIs, LeadsIsNext DEF WaitingKeys
<1> QED  BY <1>1, <1>2 DEF Stored, ContentsInv

LEMMA NothingWaits ==
  ASSUME todo = << >>, then = << >>
  PROVE  WaitingKeys = {} /\ Splits = {} /\ TodoOK /\ Splitting
BY DEF WaitingKeys, Splits, TodoOK, Splitting

LEMMA NothingWaitsNext ==
  ASSUME todo' = << >>, then' = << >>
  PROVE  WaitingKeys' = {} /\ Splits' = {} /\ TodoOK' /\ Splitting'
BY DEF WaitingKeys, Splits, TodoOK, Splitting

\* Insert of a key in a bucket with room.
LEMMA PlainInsertKeepsContents ==
  ASSUME LinTypes, Stored, Running, Quiet, ~strayed',
         NEW k \in Key, NEW v \in Value, dict[k] = 0, dict' = [dict EXCEPT ![k] = v],
         InTable(bucketno(k)), BucketInsert(BucketTable, bucketno(k), [key |-> k, val |-> v]),
         UNCHANGED <<h1, SplitFlag, pending, status>>
  PROVE  ContentsInv'
<1> DEFINE W == Leads
           b == W[k]
           e == [key |-> k, val |-> v]
           t == BucketTable
<1>1. /\ k \in Nat /\ v \in Nat /\ e \in Item /\ e.key = k /\ e.val = v /\ b = bucketno(k)
      /\ b \in DOMAIN t /\ TableOK(t) /\ PagesOK(page) /\ h1 \in Nat \ {0} /\ DOMAIN dict = Key
  BY LeadsIs DEF Item, InTable, LinTypes
<1>2. /\ todo = << >> /\ then = << >> /\ todo' = << >> /\ then' = << >>
  BY DEF Quiet, pending
<1>3. /\ WaitingKeys = {} /\ WaitingKeys' = {} /\ Splits = {} /\ Splits' = {} /\ TodoOK' /\ Splitting'
      /\ W' = W /\ W = LeadsIn(h1, SplitFlag)
  BY <1>2, NothingWaits, NothingWaitsNext, LeadsIs, LeadsIsNext
<1>4. StoredIn(t, page, W, {}) /\ AnswersIn(t, page, W, {}, dict)
  BY <1>3 DEF Stored, Running
<1>5. EntryIn(t, page, b, k) = 0
  BY <1>4 DEF AnswersIn
<1> HIDE DEF W
<1>6. BucketInsert(t, b, e)
  BY <1>1
<1> HIDE DEF e, b
<1>7. /\ ~strayed /\ StoredIn(BucketTable', page', W, {})
      /\ DOMAIN BucketTable' = DOMAIN t /\ \A c \in DOMAIN t \ {b} : BucketTable'[c] = t[c]
      /\ t[b].size \in Nat /\ t[b].size < BucketMax /\ BucketTable'[b].size = t[b].size + 1
      /\ \A x : EntryIn(BucketTable', page', b, x) =
                  IF x = e.key THEN e.val ELSE EntryIn(t, page, b, x)
      /\ \A c : c # b => \A x : EntryIn(BucketTable', page', c, x) = EntryIn(t, page, c, x)
  <2>1. e.key \in Key /\ e.val \in Value /\ W[e.key] = b /\ EntryIn(t, page, b, e.key) = 0 /\ {} \ {} \subseteq {e.key}
    BY <1>1, <1>5 DEF b
  <2> QED  BY <1>1, <1>4, <1>6, <2>1, PutEffect
<1>8. UppersNew(h1', SplitFlag', BucketTable') /\ Emptied(h1', SplitFlag', BucketTable', Splits')
  <2> DEFINE t2 == BucketTable'
  <2>1. UppersNew(h1, SplitFlag, t) /\ Emptied(h1, SplitFlag, t, {})
    BY <1>3 DEF Running
  <2>2. /\ DOMAIN t2 = DOMAIN t /\ \A c \in DOMAIN t \ {b} : t2[c] = t[c]
        /\ ~Old(t2[b]) /\ ~(t[b].size >= BucketMax)
    BY <1>7 DEF Old
  <2>3. b = LeadsIn(h1, SplitFlag)[k]
    BY <1>3 DEF b
  <2> HIDE DEF t2
  <2>4. UppersNew(h1, SplitFlag, t2) /\ Emptied(h1, SplitFlag, t2, {})
    BY <1>1, <2>1, <2>2, <2>3, ReplaceKeepsShape
  <2> QED  BY <1>3, <2>4 DEF t2
<1>9. Tabled(h1', SplitFlag', BucketTable', Splits')
  BY <1>3, <1>7 DEF Running, Tabled
<1>10. AnswersIn(BucketTable', page', W, {}, dict')
  <2>1. ASSUME NEW x \in Key PROVE EntryIn(BucketTable', page', W[x], x) = dict'[x]
    <3>1. EntryIn(t, page, W[x], x) = dict[x]
      BY <1>4 DEF AnswersIn
    <3>2. CASE x = k
      BY <1>1, <1>7, <3>2 DEF b
    <3>3. CASE x # k
      <4>1. dict'[x] = dict[x]
        BY <3>3
      <4>2. EntryIn(BucketTable', page', W[x], x) = EntryIn(t, page, W[x], x)
        BY <1>1, <1>7, <3>3
      <4> QED  BY <3>1, <4>1, <4>2
    <3> QED  BY <3>2, <3>3
  <2> QED  BY <2>1 DEF AnswersIn
<1> QED  BY <1>3, <1>7, <1>8, <1>9, <1>10 DEF ContentsInv, Stored, Running, W

-----------------------------------------------------------------------------
(* Insert in a full bucket, up to the loop of split.                       *)

\* The entries on the page of a full bucket.
LEMMA FullBucket ==
  ASSUME NEW t, TableOK(t), NEW pg, PagesOK(pg), NEW W, NEW Q, StoredIn(t, pg, W, Q),
         NEW b \in DOMAIN t, t[b].size = BucketMax, DOMAIN t[b].bucket = {}
  PROVE  LET c == Current(t, pg, b) IN
         /\ t[b].PageNum # NoPage /\ Cardinality(DOMAIN c) = BucketMax /\ InPlace(c, W, b)
         /\ c \in Contents /\ c # Blank
         /\ \A k : EntryIn(t, pg, b, k) = ValueIn(c, k)
<1> DEFINE bk == t[b]
           c == Current(t, pg, b)
<1>1. Held(bk, c, W, b) /\ bk \in Good
  BY TableCount DEF StoredIn
<1>2. c \in Contents
  <2>1. pg \in [DOMAIN pg -> PageContents]
    BY PagesCount
  <2> QED  BY <2>1, NothingAndBlank DEF Current, PageContents
<1>3. BucketMax \in Nat /\ BucketMax >= 2
  OBVIOUS
<1>4. \A k : EntryIn(t, pg, b, k) = ValueIn(c, k)
  BY <1>3 DEF EntryIn, ContentOf
<1> HIDE DEF c
<1>5. Written(bk, c, W, b)
  BY <1>1, <1>3 DEF Held, Light, Reloaded
<1>6. c # Blank
  BY <1>3, <1>5, NothingAndBlank DEF Written
<1> QED  BY <1>2, <1>4, <1>5, <1>6 DEF Written, c

LEMMA SizeType ==
  ASSUME NEW t, TableOK(t), NEW b
  PROVE  SizeIn(t, b) \in Nat
BY TableCount, GoodFacts DEF SizeIn

LEMMA SplitKeepsContents ==
  ASSUME LinTypes, LinTypes', Stored, Running, Quiet, ~strayed,
         NEW k \in Key, NEW v \in Value, dict[k] = 0, dict' = [dict EXCEPT ![k] = v],
         NEW b, b = bucketno(k), b \in DOMAIN BucketTable,
         NEW e, e = [key |-> k, val |-> v],
         BucketTable[b].size = BucketMax, ~InMemory(b),
         todo' = InOrder(PageRead(BucketTable[b].PageNum)), to' = Rehash, then' = <<e>>,
         BucketTable' = Erased(b), SplitFlag' = SplitFlag \cup {b},
         UNCHANGED <<h1, page, status, strayed>>
  PROVE  ContentsInv'
<1> DEFINE m == h1
           F == SplitFlag
           F2 == SplitFlag \cup {b}
           W == Leads
           W2 == LeadsIn(m, F2)
           t == BucketTable
           t2 == BucketTable'
           c == Current(t, page, b)
           l == (k % m)
           u == IF b = l /\ l \notin F THEN l + m ELSE b
<1> PICK s : s = InOrder(c)
  OBVIOUS
<1> DEFINE Q2 == {s[i].key : i \in DOMAIN s} \cup {k}
<1>1. /\ k \in Nat /\ v \in Nat /\ e \in Item /\ e.key = k /\ e.val = v /\ b = W[k]
      /\ TableOK(t) /\ PagesOK(page) /\ m \in Nat \ {0} /\ DOMAIN dict = Key
      /\ todo = << >> /\ then = << >> /\ WaitingKeys = {} /\ Splits = {}
      /\ W = LeadsIn(m, F) /\ Leads' = W2 /\ BucketMax \in Nat /\ BucketMax >= 2
  BY LeadsIs, LeadsIsNext, NothingWaits DEF Item, LinTypes, Quiet
<1>2. StoredIn(t, page, W, {}) /\ AnswersIn(t, page, W, {}, dict)
  BY <1>1 DEF Stored, Running
<1>3. /\ t[b].PageNum # NoPage /\ Cardinality(DOMAIN c) = BucketMax /\ InPlace(c, W, b)
      /\ c \in Contents /\ c # Blank /\ \A x : EntryIn(t, page, b, x) = ValueIn(c, x)
  BY <1>1, <1>2, FullBucket DEF InMemory
<1>4. todo' = s
  BY DEF PageRead, Current
<1>5. /\ DOMAIN t2 = DOMAIN t /\ \A x \in DOMAIN t \ {b} : t2[x] = t[x]
      /\ t2[b].size = 0 /\ t2[b].PageNum = t[b].PageNum /\ DOMAIN t2[b].bucket = {}
  <2>1. t \in [DOMAIN t -> Good] /\ t[b] \in Bucket
    BY <1>1, TableCount, GoodFacts
  <2>2. t2 = [t EXCEPT ![b] = [t[b] EXCEPT !.size = 0]]
    BY DEF Erased
  <2> QED  BY <2>1, <2>2 DEF Bucket, InMemory
<1>6. /\ s \in Seq(Item) /\ Len(s) = BucketMax
      /\ \A i \in DOMAIN s : s[i].key \in DOMAIN c /\ s[i].val = c[s[i].key]
      /\ \A x \in DOMAIN c : \E i \in DOMAIN s : \A j \in DOMAIN s : s[j].key = x <=> j = i
  <2>1. /\ InOrder(c) \in Seq(Item) /\ Len(InOrder(c)) = Cardinality(DOMAIN c)
        /\ \A i \in DOMAIN InOrder(c) :
             InOrder(c)[i].key \in DOMAIN c /\ InOrder(c)[i].val = c[InOrder(c)[i].key]
        /\ \A x \in DOMAIN c : \E i \in DOMAIN InOrder(c) :
             \A j \in DOMAIN InOrder(c) : InOrder(c)[j].key = x <=> j = i
    BY <1>3, InOrderProperties
  <2>2. InOrder(c) = s
    OBVIOUS
  <2> QED  BY ONLY <1>3, <2>1, <2>2
<1>7. WaitingKeys' = Q2
  <2>1. DOMAIN then' = {1} /\ then'[1].key = k
    BY <1>1
  <2> QED  BY <1>4, <2>1 DEF WaitingKeys
<1>8. /\ l \in 0 .. (m - 1) /\ b \in {l, l + m} /\ b \in 0 .. (2 * m - 1)
      /\ (k % (2 * m)) \in {l, l + m}
      /\ (b = l + m => l \in F) /\ l \in F2
      /\ (l \in F => b = (k % (2 * m))) /\ (l \notin F => b = l)
      /\ \A x \in 0 .. (m - 1) : x = b \/ x + m = b => x = l
  BY <1>1, LeadsFacts
<1>9. ASSUME NEW x \in Nat
      PROVE  /\ W[x] = b => (x % m) = l
             /\ W2[x] # W[x] => W[x] = b /\ W2[x] = u
             /\ W[x] = b => W2[x] = (x % (2 * m))
  <2> DEFINE y == (x % m)
             d == (x % (2 * m))
  <2>1. /\ W[x] = IF y \in F THEN d ELSE y
        /\ W2[x] = IF y \in F2 THEN d ELSE y
    BY <1>1 DEF LeadsIn
  <2>2. y \in 0 .. (m - 1) /\ d \in {y, y + m}
    BY <1>1, LeadsFacts
  <2>3. W[x] = b => y = l
    <3>1. m \in Nat \ {0} /\ W = LeadsIn(m, F) /\ k \in Nat /\ b = W[k]
      BY <1>1
    <3> HIDE DEF m, F, W
    <3>2. (W[x] % m) = y
      BY <3>1, LeadsRemainder
    <3>3. (b % m) = l
      BY <3>1, LeadsRemainder
    <3> QED  BY <3>2, <3>3
  <2> HIDE DEF y, d, W, W2, l
  <2>4. W2[x] # W[x] => W[x] = b /\ W2[x] = u
    BY <1>1, <1>8, <2>1, <2>2
  <2>5. W[x] = b => W2[x] = d
    BY <1>8, <2>1, <2>3
  <2> QED  BY <2>3, <2>4, <2>5 DEF y, d
<1> HIDE DEF W, W2, t2, c, l, u, Q2, t
<1>10. k \notin DOMAIN c
  <2>1. EntryIn(t, page, b, k) = 0
    BY <1>1, <1>2 DEF AnswersIn
  <2> QED  BY <1>3, <2>1 DEF ValueIn, InPlace
<1>11. \A x : x \in Q2 <=> x \in DOMAIN c \/ x = k
  BY <1>6 DEF Q2
<1>12. u \in DOMAIN t2 => ~Old(t2[u]) \/ u = b
  <2>1. SUFFICES ASSUME u \in DOMAIN t2, u # b PROVE ~Old(t2[u])
    OBVIOUS
  <2>2. u = l + m /\ l \notin F /\ u \in DOMAIN t /\ t2[u] = t[u]
    BY <1>5, <2>1 DEF u
  <2>3. t[u] = NewBucket
    BY <1>8, <2>2 DEF Running, UppersNew, t
  <2> QED  BY <2>2, <2>3, NewBucketHeld DEF Old
<1>13. Current(t2, page, b) = c
  BY <1>5 DEF Current, c
<1>14. StoredIn(t2, page, W2, Q2) /\ \A a : a # b => \A x : EntryIn(t2, page, a, x) = EntryIn(t, page, a, x)
  <2>1. Held(t2[b], Current(t2, page, b), W2, b)
    <3>1. DOMAIN t2[b].bucket = {} /\ t2[b].size = 0 /\ Cardinality({}) = 0 /\ 0 < BucketMax
      BY <1>1, <1>5, FS_EmptySet
    <3>2. InPlace(t2[b].bucket, W2, b) /\ Light(t2[b])
      BY <3>1 DEF InPlace, Light
    <3> QED  BY <3>2 DEF Held
  <2>2. OldOK(t2[b], Current(t2, page, b), W2, b, Q2)
    BY <1>3, <1>11, <1>13 DEF OldOK, InPlace
  <2>3. \A x \in Key : W2[x] # W[x] => W[x] = b /\ W2[x] = u
    BY <1>9
  <2>4. b \in DOMAIN t /\ t2[b].PageNum \in {t[b].PageNum, NoPage} /\ {} \subseteq Q2
    BY <1>5 DEF t
  <2>5. StoredIn(t, page, W, {}) /\ PagesOK(page)
    BY <1>1, <1>2
  <2> QED  BY ONLY <1>5, <1>12, <2>1, <2>2, <2>3, <2>4, <2>5, ReleadKeepsStored
<1>15. \A x : EntryIn(t2, page, b, x) = 0
  BY <1>1, <1>5 DEF EntryIn, ContentOf, ValueIn
<1>16. AnswersIn(t2, page, W2, Q2, dict')
  <2>1. SUFFICES ASSUME NEW x \in Key
                 PROVE  EntryIn(t2, page, W2[x], x) = IF x \in Q2 THEN 0 ELSE dict'[x]
    BY DEF AnswersIn
  <2>2. /\ EntryIn(t, page, W[x], x) = dict[x] /\ (x # k => dict'[x] = dict[x])
        /\ x \in Nat
    BY <1>2 DEF AnswersIn
  <2>3. CASE W[x] # b
    <3>1. W2[x] = W[x]
      BY <1>9, <2>2, <2>3
    <3>2. x # k /\ x \notin DOMAIN c
      BY <1>1, <1>3, <2>3 DEF InPlace
    <3> QED  BY <1>11, <1>14, <2>2, <2>3, <3>1, <3>2
  <2>4. CASE W[x] = b
    <3>1. EntryIn(t2, page, W2[x], x) = 0
      <4>1. CASE W2[x] = b
        BY <1>15, <4>1
      <4>2. CASE W2[x] # b
        <5>1. W2[x] = u /\ u # b
          BY <1>9, <2>2, <2>4, <4>2
        <5>2. EntryIn(t2, page, u, x) = EntryIn(t, page, u, x)
          BY <1>14, <5>1
        <5>3. EntryIn(t, page, u, x) = 0
          BY <1>1, <1>2, <2>4, <5>1, NoEntryElsewhere
        <5> QED  BY <5>1, <5>2, <5>3
      <4> QED  BY <4>1, <4>2
    <3>2. x \notin Q2 => dict'[x] = 0
      BY <1>3, <1>11, <2>2, <2>4 DEF ValueIn
    <3> QED  BY <3>1, <3>2
  <2> QED  BY <2>3, <2>4
<1>17. ASSUME NEW i \in DOMAIN s PROVE ItemOK(s[i])'
  <2> DEFINE x == s[i].key
  <2>1. x \in DOMAIN c /\ s[i].val = c[x]
    BY <1>6
  <2>2. x \in Key /\ c[x] \in Value /\ W[x] = b /\ x # k
    BY <1>3, <1>10, <2>1 DEF InPlace
  <2>3. dict'[x] = c[x]
    <3>1. EntryIn(t, page, W[x], x) = dict[x]
      BY <1>2, <2>2 DEF AnswersIn
    <3>2. dict'[x] = dict[x]
      BY <2>2
    <3> QED  BY <1>3, <2>1, <2>2, <3>1, <3>2 DEF ValueIn
  <2>4. x \in Nat /\ W2[x] = (x % (2 * m)) /\ (x % m) = l
    BY <1>9, <2>2
  <2>5. \A y \in Item : then' = <<y>> => x # y.key /\ (x % m) = (y.key % m)
    <3>1. SUFFICES ASSUME NEW y \in Item, then' = <<y>> PROVE x # y.key /\ (x % m) = (y.key % m)
      OBVIOUS
    <3>2. y = e
      <4>1. <<y>>[1] = <<e>>[1]
        BY <3>1
      <4> QED  BY <4>1
    <3> QED  BY <1>1, <2>2, <2>4, <3>2 DEF l
  <2>6. s[i].key = x /\ s[i].val = c[x] /\ h1' = m /\ h2' = 2 * m /\ Leads' = W2
    BY <1>1, <2>1 DEF h2
  <2> HIDE DEF x
  <2> QED  BY <2>2, <2>3, <2>4, <2>5, <2>6 DEF ItemOK
<1>18. TodoOK'
  <2>1. \A i, j \in DOMAIN s : i # j => s[i].key # s[j].key
    BY <1>6
  <2> QED  BY <1>4, <1>17, <2>1 DEF TodoOK
<1>19. Splitting'
  <2>1. dict'[k] = v /\ to' = Rehash /\ h1' = m
    BY <1>1
  <2>2. Halves(e, BucketTable)' + Len(todo') >= BucketMax
    <3> DEFINE p == SizeIn(t2, l)
               q == SizeIn(t2, l + m)
    <3>1. p \in Nat /\ q \in Nat
      BY SizeType DEF LinTypes, t2
    <3>2. Halves(e, BucketTable)' = p + q /\ Len(todo') = BucketMax
      BY <1>1, <1>4, <1>6 DEF Halves, l, t2
    <3> HIDE DEF p, q
    <3> QED  BY <1>1, <3>1, <3>2
  <2>3. (k % h1') \in SplitFlag'
    BY <1>8 DEF l
  <2>4. SplitFor(e)'
    BY <1>1, <2>1, <2>2, <2>3 DEF SplitFor, t2
  <2> QED  BY <1>1, <2>4 DEF Splitting
<1>20. Splits' = {l}
  BY <1>1 DEF Splits, l
<1>21. UppersNew(m, F2, t2)
  <2>1. SUFFICES ASSUME NEW x \in 0 .. (m - 1), x \notin F2, (x + m) \in DOMAIN t2
                 PROVE  t2[x + m] = NewBucket
    BY DEF UppersNew
  <2>2. x + m # b
    BY <1>8, <2>1
  <2> QED  BY <1>5, <2>1, <2>2 DEF Running, UppersNew, t
<1>22. Emptied(m, F2, t2, {l})
  <2>1. SUFFICES ASSUME NEW x \in 0 .. (m - 1), x \in F2 \ {l}, x \in DOMAIN t2, Old(t2[x])
                 PROVE  SizeIn(t2, x + m) >= BucketMax
    BY DEF Emptied
  <2>2. x # b /\ x + m # b
    BY <1>8, <2>1
  <2>3. SizeIn(t, x + m) >= BucketMax
    BY <1>1, <1>5, <2>1, <2>2 DEF Running, Emptied, t
  <2> QED  BY <1>5, <2>2, <2>3 DEF SizeIn
<1>23. Tabled(m, F2, t2, {l})
  <2>1. CASE DOMAIN t = 0 .. (2 * m - 1)
    BY <1>5, <2>1 DEF Tabled
  <2>2. CASE DOMAIN t = 0 .. (m - 1) /\ F \subseteq {}
    <3>1. b = l
      BY <1>8, <2>2
    <3> QED  BY <1>5, <2>2, <3>1 DEF Tabled
  <2> QED  BY <1>1, <2>1, <2>2 DEF Running, Tabled, t
<1> QED  BY <1>1, <1>7, <1>14, <1>16, <1>18, <1>19, <1>20, <1>21, <1>22, <1>23 DEF ContentsInv, Stored, Running, t2, F2

LEMMA InsertKeepsContents ==
  ASSUME LinTypes, LinTypes', Stored, Running, ~strayed, ~strayed',
         NEW k \in Key, NEW v \in Value, Insert(k, v)
  PROVE  ContentsInv'
<1> DEFINE b == bucketno(k)
           e == [key |-> k, val |-> v]
<1>1. Quiet /\ dict[k] = 0 /\ dict' = [dict EXCEPT ![k] = v]
  BY DEF Insert
<1>2. CASE Stop("undefined") \/ Stop("exited") \/ Stop("aborted")
  BY <1>2, StopKeepsContents
<1>3. CASE InTable(b) /\ IsFull(b) /\ split(b, e)
  <2>1. CASE Stop("exited") \/ Stop("aborted")
    BY <1>2, <2>1
  <2>2. CASE /\ BucketTable[b].size = BucketMax /\ ~InMemory(b)
             /\ todo' = InOrder(PageRead(BucketTable[b].PageNum)) /\ to' = Rehash /\ then' = <<e>>
             /\ BucketTable' = Erased(b) /\ SplitFlag' = SplitFlag \cup {b}
             /\ UNCHANGED <<h1, page, status, strayed>>
    <3>1. b \in DOMAIN BucketTable
      BY <1>3 DEF InTable
    <3>2. b = bucketno(k) /\ e = [key |-> k, val |-> v]
      OBVIOUS
    <3> HIDE DEF b, e
    <3> QED  BY <1>1, <2>2, <3>1, <3>2, SplitKeepsContents
  <2> QED  BY <1>3, <2>1, <2>2 DEF split
<1>4. CASE /\ InTable(b) /\ BucketInsert(BucketTable, b, e)
           /\ UNCHANGED <<h1, SplitFlag, pending, status>>
  BY <1>1, <1>4, PlainInsertKeepsContents
<1> QED  BY <1>2, <1>3, <1>4 DEF Insert

-----------------------------------------------------------------------------
(* The loops, and the end of split.                                        *)

\* An entry that waits is put where its key leads, in a table t that may have grown.
LEMMA PutNextKeepsContents ==
  ASSUME LinTypes, LinTypes', Stored, Running, ~strayed, ~strayed', PutNext
  PROVE  ContentsInv'
<1> DEFINE e == Head(todo)
           k == e.key
           W == Leads
           m == h1
           F == SplitFlag
           S == Splits
           b == W[k]
           t == Reaching(b)
           Q == WaitingKeys
           Q2 == WaitingKeys'
<1>1. /\ todo \in Seq(Item) /\ todo # << >> /\ e \in Item /\ dict' = dict
      /\ TodoOK /\ 1 \in DOMAIN todo /\ e = todo[1] /\ k \in Nat
      /\ m \in Nat \ {0} /\ PagesOK(page) /\ TableOK(BucketTable)
  <2>1. todo \in Seq(Item) /\ todo # << >> /\ dict' = dict
    BY DEF LinTypes, PutNext
  <2>2. e \in Item /\ 1 \in DOMAIN todo /\ e = todo[1]
    BY <2>1
  <2>3. e.key \in Nat
    BY <2>2 DEF Item
  <2> QED  BY <2>1, <2>2, <2>3 DEF LinTypes, Running
<1>2. k \in Key /\ e.val \in Value /\ e.val = dict[k] /\ b = IF to = Rehash THEN (k % h2) ELSE to
  BY <1>1 DEF TodoOK, ItemOK
<1>3. W = LeadsIn(m, F)
  BY LeadsIs
<1>4. \/ Stop("undefined")
      \/ /\ b \in DOMAIN t /\ BucketInsert(t, b, e)
         /\ todo' = Tail(todo) /\ UNCHANGED <<h1, SplitFlag, to, then, status>>
  BY <1>2 DEF PutNext
<1>5. CASE Stop("undefined")
  BY <1>5, StopKeepsContents
<1>6. CASE /\ b \in DOMAIN t /\ BucketInsert(t, b, e)
           /\ todo' = Tail(todo) /\ UNCHANGED <<h1, SplitFlag, to, then, status>>
  <2>1. W' = W /\ S' = S /\ h2' = h2
    BY <1>3, <1>6, LeadsIsNext DEF Splits, h2
  <2>2. /\ TableOK(t) /\ DOMAIN BucketTable \subseteq DOMAIN t
        /\ \A x \in DOMAIN t : t[x] = IF x \in DOMAIN BucketTable THEN BucketTable[x] ELSE NewBucket
    BY ReachingType
  <2>3. /\ \A i \in 1 .. (Len(todo) - 1) : todo'[i] = todo[i + 1] /\ i + 1 \in DOMAIN todo /\ i + 1 # 1
        /\ DOMAIN todo' = 1 .. (Len(todo) - 1) /\ Len(todo') = Len(todo) - 1 /\ Len(todo) \in Nat
        /\ DOMAIN todo = 1 .. Len(todo)
    BY <1>1, <1>6
  <2>4. Q \ Q2 \subseteq {k} /\ Q2 \subseteq Q /\ k \in Q /\ k \notin Q2
    <3>1. \A i \in DOMAIN todo : i = 1 \/ (i - 1 \in DOMAIN todo' /\ todo'[i - 1] = todo[i])
      BY <2>3
    <3>2. \A i \in DOMAIN then : then[i].key # k
      <4>1. CASE then = << >>
        BY <4>1
      <4>2. ASSUME NEW x \in Item, then = <<x>> PROVE \A i \in DOMAIN then : then[i].key # k
        <5>1. k # x.key
          BY <1>1, <4>2 DEF TodoOK, ItemOK
        <5> QED  BY <4>2, <5>1
      <4> QED  BY <4>1, <4>2 DEF Running, Splitting
    <3>3. \A i \in DOMAIN todo' : todo'[i].key # k
      BY <1>1, <2>3 DEF TodoOK
    <3>4. Q2 = {todo'[i].key : i \in DOMAIN todo'} \cup {then[i].key : i \in DOMAIN then}
      BY <1>6 DEF WaitingKeys
    <3>5. Q = {todo[i].key : i \in DOMAIN todo} \cup {then[i].key : i \in DOMAIN then}
      BY DEF WaitingKeys
    <3> HIDE DEF Q, Q2
    <3>6. Q \ Q2 \subseteq {k} /\ k \in Q
      BY <1>1, <3>1, <3>4, <3>5
    <3>7. Q2 \subseteq Q
      <4>1. \A i \in DOMAIN todo' : \E j \in DOMAIN todo : todo'[i] = todo[j]
        BY <2>3
      <4> QED  BY ONLY <3>4, <3>5, <4>1
    <3>8. k \notin Q2
      BY ONLY <3>2, <3>3, <3>4
    <3> QED  BY <3>6, <3>7, <3>8
  <2>5. Tabled(m, F, t, S)
    <3>1. CASE InTable(b)
      BY <3>1 DEF Reaching, Running
    <3>2. CASE ~InTable(b)
      <4>1. b \in 0 .. (2 * m - 1)
        BY <1>1, <1>3, LeadsFacts
      <4>2. DOMAIN BucketTable = 0 .. (m - 1)
        BY <3>2, <4>1 DEF Running, Tabled, InTable
      <4>3. t = Table(BucketTable, m + m)
        BY <1>1, <3>2, <4>2, IntervalCount DEF Reaching
      <4>4. DOMAIN t = 0 .. ((m + m) - 1) /\ m + m = 2 * m
        BY <1>1, <4>3, TableGrows
      <4> QED  BY <4>4 DEF Tabled
    <3> QED  BY <3>1, <3>2
  <2> DEFINE t2 == BucketTable'
             pg2 == page'
  <2>6. /\ StoredIn(t2, pg2, W, Q2)
        /\ DOMAIN t2 = DOMAIN t /\ \A c \in DOMAIN t \ {b} : t2[c] = t[c]
        /\ t[b].size \in Nat /\ t[b].size < BucketMax /\ t2[b].size = t[b].size + 1
        /\ \A x : EntryIn(t2, pg2, b, x) =
                    IF x = k THEN e.val ELSE EntryIn(t, page, b, x)
        /\ \A c : c # b => \A x : EntryIn(t2, pg2, c, x) = EntryIn(t, page, c, x)
        /\ \A c, x : EntryIn(t, page, c, x) = EntryIn(BucketTable, page, c, x)
        /\ \A c : SizeIn(t, c) = SizeIn(BucketTable, c)
    <3> HIDE DEF t, W, Q, Q2, e
    <3>1. StoredIn(BucketTable, page, W, Q)
      BY DEF Stored, W, Q
    <3>2. /\ StoredIn(t, page, W, Q)
          /\ \A c, x : EntryIn(t, page, c, x) = EntryIn(BucketTable, page, c, x)
          /\ \A c : SizeIn(t, c) = SizeIn(BucketTable, c)
      BY <2>2, <3>1, GrowthKeepsStored
    <3>3. EntryIn(t, page, b, k) = 0
      <4>1. EntryIn(BucketTable, page, b, k) = 0
        BY <1>2, <2>4 DEF Running, AnswersIn, W, Q
      <4> QED  BY <3>2, <4>1
    <3>4. b \in DOMAIN t /\ W[k] = b /\ BucketInsert(t, b, e)
      BY <1>6
    <3> HIDE DEF b
    <3>5. /\ StoredIn(BucketTable', page', W, Q2)
          /\ DOMAIN BucketTable' = DOMAIN t /\ \A c \in DOMAIN t \ {b} : BucketTable'[c] = t[c]
          /\ t[b].size \in Nat /\ t[b].size < BucketMax /\ BucketTable'[b].size = t[b].size + 1
          /\ \A x : EntryIn(BucketTable', page', b, x) =
                      IF x = k THEN e.val ELSE EntryIn(t, page, b, x)
          /\ \A c : c # b => \A x : EntryIn(BucketTable', page', c, x) = EntryIn(t, page, c, x)
      <4>1. /\ PagesOK(page) /\ TableOK(t) /\ StoredIn(t, page, W, Q) /\ b \in DOMAIN t /\ e \in Item
            /\ k = e.key /\ e.key \in Key /\ e.val \in Value /\ W[e.key] = b
            /\ EntryIn(t, page, b, e.key) = 0 /\ BucketInsert(t, b, e) /\ ~strayed'
            /\ Q \ Q2 \subseteq {e.key}
        BY <1>1, <1>2, <2>2, <2>4, <3>2, <3>3, <3>4
      <4> HIDE DEF k
      <4> QED  BY ONLY <4>1, PutEffect
    <3> QED  BY <3>2, <3>5
  <2> HIDE DEF t2, pg2, t, Q, Q2, W
  <2>7. UppersNew(m, F, t2) /\ Emptied(m, F, t2, S)
    <3>1. UppersNew(m, F, t) /\ Emptied(m, F, t, S)
      BY <1>1, <2>2, GrowthKeepsShape DEF Running
    <3>2. ~Old(t2[b]) /\ ~(t[b].size >= BucketMax)
      BY <2>6 DEF Old
    <3>3. b = LeadsIn(m, F)[k] /\ b \in DOMAIN t
      BY <1>3, <1>6
    <3> HIDE DEF b, S, k
    <3> QED  BY <1>1, <2>6, <3>1, <3>2, <3>3, ReplaceKeepsShape
  <2>8. AnswersIn(t2, pg2, W, Q2, dict)
    <3>1. SUFFICES ASSUME NEW x \in Key
                   PROVE  EntryIn(t2, pg2, W[x], x) = IF x \in Q2 THEN 0 ELSE dict[x]
      BY DEF AnswersIn
    <3>2. EntryIn(t, page, W[x], x) = IF x \in Q THEN 0 ELSE dict[x]
      BY <2>6 DEF Running, AnswersIn, W, Q
    <3>3. CASE x = k
      BY <1>2, <2>4, <2>6, <3>3
    <3>4. CASE x # k
      <4>1. EntryIn(t2, pg2, W[x], x) = EntryIn(t, page, W[x], x) /\ (x \in Q <=> x \in Q2)
        BY <2>4, <2>6, <3>4
      <4> QED  BY <3>2, <4>1
    <3> QED  BY <3>3, <3>4
  <2>9. TodoOK'
    <3>1. ASSUME NEW x, ItemOK(x) PROVE ItemOK(x)'
      <4>1. x.key \in Key /\ x.val \in Value /\ x.val = dict'[x.key]
        BY <1>1, <3>1 DEF ItemOK
      <4>2. Leads'[x.key] = IF to' = Rehash THEN (x.key % h2') ELSE to'
        BY <1>6, <2>1, <3>1 DEF ItemOK, W
      <4>3. \A y \in Item : then' = <<y>> => x.key # y.key /\ (x.key % h1') = (y.key % h1')
        BY <1>6, <3>1 DEF ItemOK
      <4> QED  BY <4>1, <4>2, <4>3 DEF ItemOK
    <3>2. ASSUME NEW i \in DOMAIN todo' PROVE ItemOK(todo[i])'
      <4>1. PICK x : x = todo'[i]
        OBVIOUS
      <4>2. ItemOK(x)
        BY <1>1, <2>3, <4>1 DEF TodoOK
      <4>3. ItemOK(x)'
        BY <3>1, <4>2
      <4> QED  BY <4>1, <4>3 DEF ItemOK
    <3>3. ASSUME NEW i \in DOMAIN todo', NEW j \in DOMAIN todo', i # j
          PROVE  todo'[i].key # todo'[j].key
      <4>1. i \in Nat /\ j \in Nat /\ i + 1 # j + 1
        BY <2>3, <3>3
      <4> QED  BY <1>1, <2>3, <4>1 DEF TodoOK
    <3> QED  BY <3>2, <3>3 DEF TodoOK
  <2>10. Splitting'
    <3>1. CASE then = << >>
      BY <1>6, <3>1 DEF Splitting
    <3>2. ASSUME NEW x \in Item, then = <<x>>, SplitFor(x) PROVE SplitFor(x)'
      <4> DEFINE l == (x.key % m)
                 p == SizeIn(t, l)
                 q == SizeIn(t, l + m)
                 p2 == SizeIn(t2, l)
                 q2 == SizeIn(t2, l + m)
                 n == Len(todo)
      <4>1. (k % m) = l /\ b \in {l, l + m} /\ l # l + m
        <5>1. (k % m) = l
          BY <1>1, <3>2 DEF TodoOK, ItemOK
        <5>2. b \in {(k % m), (k % m) + m} /\ (k % m) \in 0 .. (m - 1)
          BY <1>1, <1>3, LeadsFacts
        <5> HIDE DEF l
        <5> QED  BY <1>1, <5>1, <5>2
      <4>2. p \in Nat /\ q \in Nat /\ p2 \in Nat /\ q2 \in Nat /\ n \in Nat /\ BucketMax \in Nat
        <5>1. TableOK(t2)
          BY DEF LinTypes, t2
        <5> QED  BY <2>2, <2>3, <5>1, SizeType
      <4>3. p + q + n >= BucketMax /\ Len(todo') = n - 1
        BY <2>3, <2>6, <3>2 DEF SplitFor, Halves
      <4>4. (p2 = p + 1 /\ q2 = q) \/ (p2 = p /\ q2 = q + 1)
        <5>1. SizeIn(t2, b) = SizeIn(t, b) + 1 /\ \A c : c # b => SizeIn(t2, c) = SizeIn(t, c)
          BY <1>6, <2>6 DEF SizeIn
        <5> HIDE DEF b, l
        <5> QED  BY <4>1, <5>1
      <4> HIDE DEF p, q, p2, q2, n
      <4>5. p2 + q2 + (n - 1) >= BucketMax
        BY <4>2, <4>3, <4>4
      <4>6. Halves(x, BucketTable)' = p2 + q2
        BY <1>6 DEF Halves, p2, q2, t2
      <4>7. Halves(x, BucketTable)' + Len(todo') >= BucketMax
        BY <4>3, <4>5, <4>6
      <4> QED  BY <1>1, <1>6, <3>2, <4>7 DEF SplitFor
    <3> QED  BY <1>6, <3>1, <3>2 DEF Running, Splitting
  <2> QED  BY <1>1, <1>6, <2>1, <2>5, <2>6, <2>7, <2>8, <2>9, <2>10 DEF ContentsInv, Stored, Running, Tabled, t2, pg2, W, Q2
<1> QED  BY <1>4, <1>5, <1>6

LEMMA SplitEndKeepsContents ==
  ASSUME LinTypes, LinTypes', Stored, Running, ~strayed, ~strayed', SplitEnd
  PROVE  ContentsInv'
<1>1. /\ todo = << >> /\ then # << >> /\ todo' = todo /\ dict' = dict
      /\ PagesOK(page) /\ TableOK(BucketTable) /\ h1 \in Nat \ {0}
      /\ \A e \in Item : e.key \in Nat
  BY DEF LinTypes, SplitEnd, Item
<1>2. PICK e \in Item : then = <<e>> /\ SplitFor(e)
  BY <1>1 DEF Running, Splitting
<1> DEFINE k == e.key
           W == Leads
           m == h1
           F == SplitFlag
           b == W[k]
           l == (k % m)
           t == BucketTable
           t2 == BucketTable'
           pg2 == page'
<1>3. /\ k \in Nat /\ k \in Key /\ e.val \in Value /\ e.val = dict[k] /\ l \in F /\ Head(then) = e
      /\ WaitingKeys = {k} /\ Splits = {l} /\ W = LeadsIn(m, F)
  <2>1. DOMAIN then = {1} /\ then[1] = e
    BY <1>2
  <2> QED  BY <1>1, <1>2, <2>1, LeadsIs DEF SplitFor, WaitingKeys, Splits
<1>4. /\ l \in 0 .. (m - 1) /\ b \in {l, l + m} /\ b = (k % (2 * m))
  <2>1. m \in Nat \ {0} /\ k \in Nat /\ b = LeadsIn(m, F)[k] /\ l \in F
    BY <1>1, <1>3
  <2> HIDE DEF m, F, b, k
  <2> QED  BY <2>1, LeadsPlace
<1>5. \/ 0 .. (m - 1) \subseteq F /\ h1' = 2 * m /\ SplitFlag' = {}
      \/ h1' = m /\ SplitFlag' = F
  BY DEF SplitEnd, NextRound
<1>6. Leads' = W
  BY <1>1, <1>3, <1>5, NextRoundLeads, LeadsIsNext
<1>7. PICK c : c = (k % h2')
  OBVIOUS
<1>8. \/ ~InTable(c) /\ status' = "undefined" /\ UNCHANGED <<BucketTable, page, then, strayed>>
      \/ InTable(c) /\ BucketInsert(BucketTable, c, e) /\ then' = << >>
  BY <1>3, <1>7 DEF SplitEnd
<1>9. CASE status' = "undefined" /\ UNCHANGED <<BucketTable, page, then, strayed>>
  <2>1. WaitingKeys' = WaitingKeys
    BY <1>1, <1>9 DEF WaitingKeys
  <2> QED  BY <1>6, <1>9, <2>1 DEF ContentsInv, Stored
<1>10. CASE InTable(c) /\ BucketInsert(BucketTable, c, e) /\ then' = << >>
  <2>1. c = b /\ b \in DOMAIN t
    <3>1. CASE h1' = m
      BY <1>4, <1>7, <1>10, <3>1 DEF h2, InTable
    <3>2. CASE h1' = 2 * m
      <4> DEFINE n == 2 * m
                 r == (k % n)
      <4>1. n \in Nat \ {0} /\ b = r /\ c = (k % (2 * n)) /\ r \in 0 .. (n - 1)
        <5>1. n \in Nat \ {0}
          BY <1>1
        <5>2. r \in 0 .. (n - 1)
          <6> HIDE DEF n
          <6> QED  BY <1>3, <5>1, QuotientAndRemainder
        <5> QED  BY <1>4, <1>7, <3>2, <5>1, <5>2 DEF h2
      <4>2. DOMAIN t \subseteq 0 .. (n - 1)
        BY <1>1 DEF Running, Tabled
      <4> HIDE DEF n, b, t
      <4>3. c \in {r, r + n}
        BY <1>3, <4>1, LeadsFacts
      <4>4. c \in DOMAIN t
        BY <1>10 DEF InTable, t
      <4> HIDE DEF r
      <4> QED  BY <4>1, <4>2, <4>3, <4>4
    <3> QED  BY <1>5, <3>1, <3>2
  <2>2. /\ StoredIn(t2, pg2, W, {})
        /\ DOMAIN t2 = DOMAIN t /\ \A x \in DOMAIN t \ {b} : t2[x] = t[x]
        /\ t[b].size \in Nat /\ t[b].size < BucketMax /\ t2[b].size = t[b].size + 1
        /\ \A x : EntryIn(t2, pg2, b, x) =
                    IF x = k THEN e.val ELSE EntryIn(t, page, b, x)
        /\ \A y : y # b => \A x : EntryIn(t2, pg2, y, x) = EntryIn(t, page, y, x)
    <3>1. StoredIn(t, page, W, {k})
      BY <1>3 DEF Stored
    <3>2. EntryIn(t, page, b, k) = 0
      BY <1>3 DEF Running, AnswersIn
    <3>3. BucketInsert(t, b, e) /\ W[k] = b /\ {k} \ {} \subseteq {k}
      BY <1>10, <2>1
    <3> HIDE DEF b, W
    <3>4. /\ PagesOK(page) /\ TableOK(t) /\ StoredIn(t, page, W, {k}) /\ b \in DOMAIN t /\ e \in Item
          /\ k = e.key /\ e.key \in Key /\ e.val \in Value /\ W[e.key] = b
          /\ EntryIn(t, page, b, e.key) = 0 /\ BucketInsert(t, b, e) /\ ~strayed'
          /\ {k} \ {} \subseteq {e.key}
      BY <1>1, <1>3, <2>1, <3>1, <3>2, <3>3
    <3> HIDE DEF k
    <3> QED  BY ONLY <3>4, PutEffect
  <2>3. WaitingKeys' = {} /\ Splits' = {} /\ TodoOK' /\ Splitting'
    BY <1>1, <1>10, NothingWaitsNext
  <2>4. SizeIn(t, l) + SizeIn(t, l + m) >= BucketMax /\ SizeIn(t, l) \in Nat /\ SizeIn(t, l + m) \in Nat
    <3>1. SizeIn(t, l) \in Nat /\ SizeIn(t, l + m) \in Nat
      BY <1>1, SizeType
    <3>2. Halves(e, t) + Len(todo) >= BucketMax /\ Len(todo) = 0
      BY <1>1, <1>2 DEF SplitFor
    <3>3. Halves(e, t) = SizeIn(t, l) + SizeIn(t, l + m)
      BY DEF Halves
    <3> DEFINE p == SizeIn(t, l)
               q == SizeIn(t, l + m)
    <3>4. p \in Nat /\ q \in Nat /\ BucketMax \in Nat /\ (p + q) + 0 >= BucketMax
      BY <3>1, <3>2, <3>3
    <3> HIDE DEF p, q
    <3>5. p + q >= BucketMax
      BY <3>4
    <3> QED  BY <3>1, <3>5 DEF p, q
  <2> HIDE DEF W, b, t, t2, pg2, l, k
  <2>5. DOMAIN t = 0 .. (2 * m - 1)
    <3>1. SUFFICES ASSUME DOMAIN t = 0 .. (m - 1) PROVE FALSE
      BY DEF Running, Tabled, t
    <3>2. (l + m) \notin DOMAIN t
      BY <1>1, <1>4, <3>1
    <3>3. b = l /\ SizeIn(t, l + m) = 0 /\ SizeIn(t, l) = t[b].size
      BY <1>4, <2>1, <3>2 DEF SizeIn
    <3> QED  BY <2>2, <2>4, <3>3
  <2>6. UppersNew(m, F, t2) /\ Emptied(m, F, t2, {l})
    <3>1. UppersNew(m, F, t) /\ Emptied(m, F, t, {l})
      BY <1>3 DEF Running, t
    <3>2. ~Old(t2[b]) /\ ~(t[b].size >= BucketMax)
      BY <2>2 DEF Old
    <3>3. b = LeadsIn(m, F)[k]
      BY <1>3 DEF b
    <3> QED  BY <1>1, <1>3, <2>1, <2>2, <3>1, <3>2, <3>3, ReplaceKeepsShape
  <2>7. Emptied(m, F, t2, {})
    <3>1. SUFFICES ASSUME l \in DOMAIN t2, Old(t2[l]) PROVE SizeIn(t2, l + m) >= BucketMax
      BY <2>6 DEF Emptied
    <3>2. l # b
      BY <2>2, <3>1 DEF Old
    <3>3. SizeIn(t, l) = 0 /\ b = l + m
      BY <1>4, <2>2, <3>1, <3>2 DEF SizeIn, Old
    <3>4. SizeIn(t, l + m) >= BucketMax
      BY <2>4, <3>3
    <3> QED  BY <2>1, <2>2, <3>3, <3>4 DEF SizeIn
  <2>8. AnswersIn(t2, pg2, W, {}, dict)
    <3>1. SUFFICES ASSUME NEW x \in Key PROVE EntryIn(t2, pg2, W[x], x) = dict[x]
      BY DEF AnswersIn
    <3>2. EntryIn(t, page, W[x], x) = IF x \in {k} THEN 0 ELSE dict[x]
      BY <1>3 DEF Running, AnswersIn, W, t
    <3>3. CASE x = k
      BY <1>3, <2>2, <3>3 DEF b
    <3>4. CASE x # k
      BY <2>2, <3>2, <3>4
    <3> QED  BY <3>3, <3>4
  <2>9. Tabled(h1', SplitFlag', t2, {}) /\ UppersNew(h1', SplitFlag', t2) /\ Emptied(h1', SplitFlag', t2, {})
    <3>1. CASE h1' = m /\ SplitFlag' = F
      BY <2>2, <2>5, <2>6, <2>7, <3>1 DEF Tabled
    <3>2. CASE h1' = 2 * m /\ SplitFlag' = {}
      <4> DEFINE n == 2 * m
      <4>1. n \in Nat /\ DOMAIN t2 = 0 .. (n - 1)
        BY <1>1, <2>2, <2>5
      <4> HIDE DEF n
      <4>2. Tabled(n, {}, t2, {})
        BY <4>1 DEF Tabled
      <4>3. UppersNew(n, {}, t2)
        <5>1. \A x \in 0 .. (n - 1) : (x + n) \notin DOMAIN t2
          BY <4>1
        <5> QED  BY <5>1 DEF UppersNew
      <4>4. Emptied(n, {}, t2, {})
        BY DEF Emptied
      <4> QED  BY <3>2, <4>2, <4>3, <4>4 DEF n
    <3> QED  BY <1>5, <3>1, <3>2
  <2> QED  BY <1>1, <1>6, <2>2, <2>3, <2>8, <2>9 DEF ContentsInv, Stored, Running, t2, pg2
<1> QED  BY <1>8, <1>9, <1>10

-----------------------------------------------------------------------------
(* Delete.                                                                 *)

\* What ValueDelet leaves of a bucket has the other entries.
LEMMA LeftEffect ==
  ASSUME LinTypes, NEW W, NEW Q, StoredIn(BucketTable, page, W, Q),
         NEW b \in DOMAIN BucketTable, NEW k, InMemory(b) \/ HasPage(b),
         ~LoadsOldPage(b), ~Uncovers(Left(b, k))
  PROVE  LET c == Current(BucketTable, page, b)
             bk == BucketTable[b]
             nb == Left(b, k) IN
         /\ nb \in Good /\ nb.PageNum = bk.PageNum /\ Held(nb, c, W, b) /\ ~Old(nb)
         /\ bk.size >= BucketMax => nb.size >= BucketMax
         /\ \A x : ValueIn(ContentOf(nb, c), x) = IF x = k THEN 0 ELSE ValueIn(ContentOf(bk, c), x)
<1> DEFINE bk == BucketTable[b]
           c == Current(BucketTable, page, b)
           nb == Left(b, k)
           ld == Loaded(b)
<1>1. /\ TableOK(BucketTable) /\ PagesOK(page) /\ bk \in Good /\ BucketMax \in Nat /\ BucketMax >= 2
  BY TableCount DEF LinTypes
<1>2. bk.size \in Nat /\ bk.bucket \in Contents /\ Held(bk, c, W, b)
  BY <1>1, GoodFacts DEF StoredIn
<1>3. /\ ld \in Good /\ ld.PageNum = bk.PageNum
      /\ InMemory(b) => ld = bk
      /\ ~InMemory(b) => ld.bucket = c /\ ld.size = bk.size + BucketMax
  BY LoadedType DEF PageRead, Current
<1>4. /\ nb \in Good /\ nb.PageNum = bk.PageNum
      /\ k \notin DOMAIN ld.bucket => nb = ld
      /\ k \in DOMAIN ld.bucket => nb.bucket = Without(ld.bucket, k) /\ nb.size = ld.size - 1
  BY LeftType
<1>5. ~(bk.size = 0 /\ ~InMemory(b)) /\ (bk.PageNum # NoPage => DOMAIN nb.bucket # {})
      /\ (InMemory(b) <=> DOMAIN bk.bucket # {}) /\ (InMemory(b) \/ bk.PageNum # NoPage)
  BY <1>4 DEF LoadsOldPage, Uncovers, InMemory, HasPage
<1> HIDE DEF bk, c, nb, ld
<1>6. /\ ld.bucket \in Contents /\ ld.size \in Nat /\ nb.bucket \in Contents /\ nb.size \in Nat
      /\ Cardinality(DOMAIN ld.bucket) \in Nat /\ Cardinality(DOMAIN nb.bucket) \in Nat
  BY <1>3, <1>4, GoodFacts
<1>7. /\ DOMAIN nb.bucket = DOMAIN ld.bucket \ {k}
      /\ \A x \in DOMAIN nb.bucket : nb.bucket[x] = ld.bucket[x]
      /\ ld.size - Cardinality(DOMAIN ld.bucket) = nb.size - Cardinality(DOMAIN nb.bucket)
      /\ nb.size <= ld.size
  <2>1. CASE k \notin DOMAIN ld.bucket
    BY <1>4, <1>6, <2>1
  <2>2. CASE k \in DOMAIN ld.bucket
    <3> DEFINE old == ld.bucket
               p == Cardinality(DOMAIN ld.bucket)
               q == Cardinality(DOMAIN nb.bucket)
    <3>1. old \in Contents /\ k \in DOMAIN old /\ nb.bucket = Without(old, k)
      BY <1>4, <1>6, <2>2
    <3> HIDE DEF old
    <3>2. /\ DOMAIN Without(old, k) = DOMAIN old \ {k}
          /\ Cardinality(DOMAIN Without(old, k)) = Cardinality(DOMAIN old) - 1
          /\ \A x \in DOMAIN Without(old, k) : Without(old, k)[x] = old[x]
      BY <3>1, WithoutKeepsContents DEF Without
    <3>3. q = p - 1 /\ p \in Nat /\ nb.size = ld.size - 1 /\ ld.size \in Nat
      BY <1>4, <1>6, <2>2, <3>1, <3>2 DEF old
    <3> HIDE DEF p, q
    <3>4. ld.size - p = nb.size - q /\ nb.size <= ld.size
      BY <3>3
    <3> QED  BY <3>1, <3>2, <3>4 DEF old, p, q
  <2> QED  BY <2>1, <2>2
<1>8. \/ Light(bk) /\ InMemory(b)
      \/ Reloaded(bk) /\ InMemory(b)
      \/ Written(bk, c, W, b) /\ ~InMemory(b)
  <2>1. CASE Light(bk)
    <3>1. SUFFICES ASSUME ~InMemory(b) PROVE FALSE
      BY <2>1
    <3>2. Cardinality(DOMAIN bk.bucket) = 0
      BY <1>5, <3>1, FS_EmptySet
    <3> QED  BY <1>5, <2>1, <3>1, <3>2 DEF Light
  <2>2. CASE Reloaded(bk)
    BY <1>5, <2>2 DEF Reloaded
  <2>3. CASE Written(bk, c, W, b)
    BY <1>5, <2>3 DEF Written
  <2> QED  BY <1>2, <2>1, <2>2, <2>3 DEF Held
<1>9. InPlace(nb.bucket, W, b)
  <2>1. InPlace(ld.bucket, W, b)
    BY <1>2, <1>3, <1>8 DEF Held, Written
  <2> QED  BY <1>7, <2>1 DEF InPlace
<1>10. ContentOf(bk, c) = ld.bucket
  <2>1. CASE InMemory(b)
    BY <1>3, <1>5, <2>1 DEF ContentOf
  <2>2. CASE Written(bk, c, W, b) /\ ~InMemory(b)
    BY <1>1, <1>3, <2>2 DEF ContentOf, Written
  <2> QED  BY <1>8, <2>1, <2>2
<1>11. /\ Light(nb) \/ Reloaded(nb)
       /\ bk.size >= BucketMax => nb.size >= BucketMax
       /\ ~Old(nb)
       /\ ContentOf(nb, c) = nb.bucket
  <2> DEFINE p == Cardinality(DOMAIN ld.bucket)
             q == Cardinality(DOMAIN nb.bucket)
             s == ld.size
             n == nb.size
  <2>1. /\ p \in Nat /\ q \in Nat /\ s \in Nat /\ n \in Nat /\ s - p = n - q /\ n <= s
    BY <1>6, <1>7
  <2>2. q = 0 <=> DOMAIN nb.bucket = {}
    BY <1>6, ContentsCount
  <2>3. CASE Light(bk) /\ InMemory(b)
    <3>1. s = p /\ s < BucketMax
      BY <1>3, <2>3 DEF Light
    <3> HIDE DEF p, q, s, n
    <3>2. n = q /\ n < BucketMax /\ ~(n >= BucketMax)
      BY <1>1, <2>1, <3>1
    <3>3. Light(nb)
      BY <3>2 DEF Light, n, q
    <3>4. ~Old(nb)
      BY <1>4, <1>5, <2>2, <3>2 DEF Old, n
    <3>5. ~(bk.size >= BucketMax)
      BY <1>3, <2>3, <3>1, <1>1, <1>2 DEF s
    <3> QED  BY <3>2, <3>3, <3>4, <3>5 DEF ContentOf, n
  <2>4. CASE (Reloaded(bk) /\ InMemory(b)) \/ (Written(bk, c, W, b) /\ ~InMemory(b))
    <3>1. s = BucketMax + p /\ nb.PageNum # NoPage
      BY <1>3, <1>4, <2>4 DEF Reloaded, Written
    <3> HIDE DEF p, q, s, n
    <3>2. n = BucketMax + q /\ n # 0 /\ n >= BucketMax
      BY <1>1, <2>1, <3>1
    <3>3. DOMAIN nb.bucket # {}
      BY <1>4, <1>5, <3>1
    <3> QED  BY <3>1, <3>2, <3>3 DEF Reloaded, Old, ContentOf, n, q
  <2> QED  BY <1>8, <2>3, <2>4
<1>12. \A x : ValueIn(nb.bucket, x) = IF x = k THEN 0 ELSE ValueIn(ld.bucket, x)
  BY <1>7 DEF ValueIn
<1>13. Held(nb, c, W, b)
  BY <1>9, <1>11 DEF Held
<1> QED  BY <1>4, <1>10, <1>11, <1>12, <1>13 DEF bk, c, nb

\* The table Delete goes on with.
LEMMA LeftKeepsContents ==
  ASSUME LinTypes, Stored, Running, Quiet, NEW k \in Key, NEW b, b = bucketno(k),
         b \in DOMAIN BucketTable, InMemory(b) \/ HasPage(b),
         ~LoadsOldPage(b), ~Uncovers(Left(b, k)),
         NEW L, L = [BucketTable EXCEPT ![b] = Left(b, k)],
         NEW d, d = [dict EXCEPT ![k] = 0]
  PROVE  /\ TableOK(L) /\ DOMAIN L = DOMAIN BucketTable /\ L[b] = Left(b, k)
         /\ StoredIn(L, page, Leads, {}) /\ AnswersIn(L, page, Leads, {}, d)
         /\ Tabled(h1, SplitFlag, L, {}) /\ UppersNew(h1, SplitFlag, L)
         /\ Emptied(h1, SplitFlag, L, {})
<1> DEFINE W == Leads
           t == BucketTable
           nb == Left(b, k)
           c == Current(t, page, b)
<1>1. /\ TableOK(t) /\ PagesOK(page) /\ h1 \in Nat \ {0} /\ k \in Nat /\ DOMAIN dict = Key
      /\ WaitingKeys = {} /\ Splits = {} /\ W = LeadsIn(h1, SplitFlag) /\ W[k] = b
  BY LeadsIs, NothingWaits DEF LinTypes, Quiet
<1>2. StoredIn(t, page, W, {}) /\ AnswersIn(t, page, W, {}, dict)
  BY <1>1 DEF Stored, Running
<1>3. /\ nb \in Good /\ nb.PageNum = t[b].PageNum /\ Held(nb, c, W, b) /\ ~Old(nb)
      /\ t[b].size >= BucketMax => nb.size >= BucketMax
      /\ \A x : ValueIn(ContentOf(nb, c), x) = IF x = k THEN 0 ELSE ValueIn(ContentOf(t[b], c), x)
  BY <1>2, LeftEffect
<1>4. /\ TableOK(L) /\ DOMAIN L = DOMAIN t /\ L[b] = nb /\ \A x \in DOMAIN t \ {b} : L[x] = t[x]
  BY <1>1, <1>3, ReplaceKeepsTable, TableCount
<1> HIDE DEF W, nb
<1>5. Current(L, page, b) = c
  BY <1>3, <1>4 DEF Current
<1>6. StoredIn(L, page, W, {}) /\ \A a : a # b => \A x : EntryIn(L, page, a, x) = EntryIn(t, page, a, x)
  <2>1. /\ StoredIn(t, page, W, {}) /\ PagesOK(page) /\ b \in DOMAIN t
        /\ DOMAIN L = DOMAIN t /\ \A x \in DOMAIN t \ {b} : L[x] = t[x]
    BY <1>1, <1>2, <1>4
  <2>2. Held(L[b], Current(L, page, b), W, b) /\ ~Old(L[b]) /\ L[b].PageNum = t[b].PageNum
    BY <1>3, <1>4, <1>5
  <2>3. LeadTo(W, b, {} \ {})
    BY DEF LeadTo
  <2> QED  BY ONLY <2>1, <2>2, <2>3, ChangeKeepsStored
<1>7. AnswersIn(L, page, W, {}, d)
  <2>1. SUFFICES ASSUME NEW x \in Key PROVE EntryIn(L, page, W[x], x) = d[x]
    BY DEF AnswersIn
  <2>2. EntryIn(t, page, W[x], x) = dict[x]
    BY <1>2 DEF AnswersIn
  <2>3. CASE W[x] # b
    BY <1>1, <1>6, <2>2, <2>3
  <2>4. CASE W[x] = b
    <3>1. EntryIn(L, page, b, x) = IF x = k THEN 0 ELSE EntryIn(t, page, b, x)
      BY <1>3, <1>4, <1>5 DEF EntryIn
    <3> QED  BY <1>1, <2>2, <2>4, <3>1
  <2> QED  BY <2>3, <2>4
<1>8. UppersNew(h1, SplitFlag, L) /\ Emptied(h1, SplitFlag, L, {})
  <2>1. UppersNew(h1, SplitFlag, t) /\ Emptied(h1, SplitFlag, t, {})
    BY <1>1 DEF Running
  <2>2. b = LeadsIn(h1, SplitFlag)[k]
    BY <1>1
  <2> QED  BY <1>1, <1>3, <1>4, <2>1, <2>2, ReplaceKeepsShape
<1>9. Tabled(h1, SplitFlag, L, {})
  BY <1>1, <1>4 DEF Running, Tabled
<1> QED  BY <1>4, <1>6, <1>7, <1>8, <1>9 DEF W, nb

\* Delete without a merge.
LEMMA PlainDeleteKeepsContents ==
  ASSUME LinTypes, Stored, Running, Quiet, NEW k \in Key, NEW b, b = bucketno(k),
         b \in DOMAIN BucketTable, InMemory(b) \/ HasPage(b),
         ~LoadsOldPage(b), ~Uncovers(Left(b, k)),
         BucketTable' = [BucketTable EXCEPT ![b] = Left(b, k)], dict' = [dict EXCEPT ![k] = 0],
         UNCHANGED <<SplitFlag, todo, to, status, h1, page, then>>
  PROVE  ContentsInv'
<1> PICK L : L = BucketTable'
  OBVIOUS
<1> PICK d : d = dict'
  OBVIOUS
<1>1. /\ StoredIn(L, page, Leads, {}) /\ AnswersIn(L, page, Leads, {}, d)
      /\ Tabled(h1, SplitFlag, L, {}) /\ UppersNew(h1, SplitFlag, L)
      /\ Emptied(h1, SplitFlag, L, {})
  BY LeftKeepsContents
<1>2. todo' = << >> /\ then' = << >>
  BY DEF Quiet
<1>3. WaitingKeys' = {} /\ Splits' = {} /\ TodoOK' /\ Splitting' /\ Leads' = Leads
  BY <1>2, NothingWaitsNext, LeadsIs, LeadsIsNext
<1> QED  BY <1>1, <1>3 DEF ContentsInv, Stored, Running

\* Delete with a merge, up to its loop.
LEMMA MergeKeepsContents ==
  ASSUME LinTypes, Stored, Running, Quiet, ~strayed, NEW k \in Key, NEW b, b = bucketno(k),
         b \in DOMAIN BucketTable, InMemory(b) \/ HasPage(b),
         ~LoadsOldPage(b), ~Uncovers(Left(b, k)),
         NEW L, L = [BucketTable EXCEPT ![b] = Left(b, k)], dict' = [dict EXCEPT ![k] = 0],
         b \in SplitFlag, Upper(b) \in DOMAIN BucketTable, Judge(L, b), Merge(L, b),
         L[Upper(b)].size # BucketMax,
         UNCHANGED <<status, h1, page, then>>
  PROVE  ContentsInv'
<1> DEFINE m == h1
           F == SplitFlag
           W == Leads
           l == Lower(b)
           u == Upper(b)
           F2 == F \ {l}
           W2 == LeadsIn(m, F2)
           t2 == BucketTable'
           c == L[u].bucket
<1> PICK s : s = InOrder(c)
  OBVIOUS
<1> DEFINE Q2 == {s[i].key : i \in DOMAIN s}
<1> PICK d : d = dict'
  OBVIOUS
<1>1. /\ TableOK(L) /\ DOMAIN L = DOMAIN BucketTable
      /\ StoredIn(L, page, W, {}) /\ AnswersIn(L, page, W, {}, d)
      /\ Tabled(m, F, L, {}) /\ UppersNew(m, F, L) /\ Emptied(m, F, L, {})
  BY LeftKeepsContents
<1>2. /\ k \in Nat /\ PagesOK(page) /\ m \in Nat \ {0} /\ BucketMax \in Nat /\ BucketMax >= 2
      /\ W = LeadsIn(m, F) /\ W[k] = b /\ todo = << >> /\ then' = << >>
  BY LeadsIs DEF LinTypes, Quiet
<1>3. l \in 0 .. (m - 1) /\ l \in F /\ u = l + m /\ l # u
  <2> DEFINE y == (k % m)
  <2>1. y \in 0 .. (m - 1) /\ b \in {y, y + m} /\ (b = y + m => y \in F)
    BY <1>2, LeadsPlace
  <2> HIDE DEF y
  <2>2. l = y
    BY <1>2, <2>1 DEF Lower
  <2> QED  BY <1>2, <2>1, <2>2 DEF Upper
<1>4. /\ SplitFlag' = F2 /\ todo' = s /\ to' = l /\ t2 = [L EXCEPT ![u] = NewBucket]
      /\ u \in DOMAIN L /\ L[l].size + L[u].size <= BucketMax /\ L[u].size # BucketMax
  BY <1>1 DEF Merge, GetBucket, BucketErase, Judge, Upper
<1> HIDE DEF l, u, W, W2, t2, F2, c, Q2
<1>5. l \in DOMAIN L
  BY <1>1, <1>2, <1>3, <1>4 DEF Tabled
<1>6. L[u].size < BucketMax /\ L[u] \in Good /\ c \in Contents
  <2> DEFINE p == L[l].size
             q == L[u].size
  <2>1. L[l] \in Good /\ L[u] \in Good
    BY <1>1, <1>4, <1>5, TableCount
  <2>2. p \in Nat /\ q \in Nat /\ p + q <= BucketMax /\ q # BucketMax
    BY <1>4, <2>1, GoodFacts
  <2> HIDE DEF p, q
  <2>3. q < BucketMax
    BY <1>2, <2>2
  <2> QED  BY <2>1, <2>3, GoodFacts DEF q, c
<1>7. /\ ContentOf(L[u], Current(L, page, u)) = c /\ InPlace(c, W, u)
      /\ \A x : EntryIn(L, page, u, x) = ValueIn(c, x)
  <2>1. Held(L[u], Current(L, page, u), W, u)
    BY <1>1, <1>4 DEF StoredIn
  <2>2. ContentOf(L[u], Current(L, page, u)) = c /\ InPlace(c, W, u)
    BY <1>6, <2>1, ContentOfLight DEF c
  <2> QED  BY <1>4, <2>2 DEF EntryIn
<1>8. c # Blank
  <2>1. 0 \notin Key
    OBVIOUS
  <2> QED  BY <1>7, <2>1, NothingAndBlank DEF InPlace
<1>9. /\ s \in Seq(Item)
      /\ \A i \in DOMAIN s : s[i].key \in DOMAIN c /\ s[i].val = c[s[i].key]
      /\ \A x \in DOMAIN c : \E i \in DOMAIN s : \A j \in DOMAIN s : s[j].key = x <=> j = i
  <2>1. /\ InOrder(c) \in Seq(Item)
        /\ \A i \in DOMAIN InOrder(c) :
             InOrder(c)[i].key \in DOMAIN c /\ InOrder(c)[i].val = c[InOrder(c)[i].key]
        /\ \A x \in DOMAIN c : \E i \in DOMAIN InOrder(c) :
             \A j \in DOMAIN InOrder(c) : InOrder(c)[j].key = x <=> j = i
    BY <1>6, <1>8, InOrderProperties
  <2>2. InOrder(c) = s
    OBVIOUS
  <2> QED  BY ONLY <2>1, <2>2
<1>10. \A x : x \in Q2 <=> x \in DOMAIN c
  BY ONLY <1>9 DEF Q2
<1>11. WaitingKeys' = Q2 /\ Splits' = {} /\ Splitting' /\ Leads' = W2
  BY <1>2, <1>4, LeadsIsNext DEF WaitingKeys, Splits, Splitting, Q2, W2, F2
<1>12. /\ DOMAIN t2 = DOMAIN L /\ t2[u] = NewBucket /\ \A x \in DOMAIN L \ {u} : t2[x] = L[x]
  <2>1. L \in [DOMAIN L -> Good]
    BY <1>1, TableCount
  <2> QED  BY <1>4, <2>1
<1>13. ASSUME NEW x \in Nat
       PROVE  /\ W2[x] # W[x] => W[x] = u /\ W2[x] = l
              /\ W[x] = u => W2[x] = l
  <2> DEFINE y == (x % m)
             z == (x % (2 * m))
  <2>1. /\ W[x] = IF y \in F THEN z ELSE y
        /\ W2[x] = IF y \in F2 THEN z ELSE y
    BY <1>2 DEF LeadsIn, W2
  <2>2. y \in 0 .. (m - 1) /\ z \in {y, y + m}
    BY <1>2, LeadsFacts
  <2> HIDE DEF y, z
  <2>3. W[x] = u => y = l
    BY <1>2, <1>3, <2>1, <2>2
  <2> QED  BY <1>2, <1>3, <2>1, <2>2, <2>3 DEF F2
<1>14. ~Old(t2[l])
  <2>1. SUFFICES ASSUME Old(L[l]) PROVE FALSE
    BY <1>3, <1>5, <1>12
  <2>2. SizeIn(L, u) >= BucketMax
    BY <1>1, <1>3, <1>5, <2>1 DEF Emptied
  <2>3. L[u].size \in Nat
    BY <1>6, GoodFacts
  <2> QED  BY <1>2, <1>4, <1>6, <2>2, <2>3 DEF SizeIn
<1>15. StoredIn(t2, page, W2, Q2) /\ \A a : a # u => \A x : EntryIn(t2, page, a, x) = EntryIn(L, page, a, x)
  <2>1. /\ t2[u].PageNum \in {L[u].PageNum, NoPage}
        /\ Held(t2[u], Current(t2, page, u), W2, u)
        /\ OldOK(t2[u], Current(t2, page, u), W2, u, Q2)
    BY <1>12, NewBucketHeld
  <2>2. \A x \in Key : W2[x] # W[x] => W[x] = u /\ W2[x] = l
    BY <1>13
  <2>3. /\ StoredIn(L, page, W, {}) /\ PagesOK(page) /\ u \in DOMAIN L /\ {} \subseteq Q2
        /\ DOMAIN t2 = DOMAIN L /\ \A x \in DOMAIN L \ {u} : t2[x] = L[x]
    BY <1>1, <1>2, <1>4, <1>12
  <2> QED  BY ONLY <1>14, <2>1, <2>2, <2>3, ReleadKeepsStored
<1>16. AnswersIn(t2, page, W2, Q2, d)
  <2>1. SUFFICES ASSUME NEW x \in Key
                 PROVE  EntryIn(t2, page, W2[x], x) = IF x \in Q2 THEN 0 ELSE d[x]
    BY DEF AnswersIn
  <2>2. EntryIn(L, page, W[x], x) = d[x] /\ x \in Nat
    BY <1>1 DEF AnswersIn
  <2>3. CASE W[x] # u
    <3>1. W2[x] = W[x] /\ x \notin Q2
      BY <1>7, <1>10, <1>13, <2>2, <2>3 DEF InPlace
    <3> QED  BY <1>15, <2>2, <2>3, <3>1
  <2>4. CASE W[x] = u
    <3>1. W2[x] = l
      BY <1>13, <2>2, <2>4
    <3>2. EntryIn(t2, page, l, x) = EntryIn(L, page, l, x)
      BY <1>3, <1>15
    <3>3. EntryIn(L, page, l, x) = 0
      BY <1>1, <1>2, <1>3, <2>4, NoEntryElsewhere
    <3>4. x \notin Q2 => d[x] = 0
      BY <1>7, <1>10, <2>2, <2>4 DEF ValueIn
    <3> QED  BY <3>1, <3>2, <3>3, <3>4
  <2> QED  BY <2>3, <2>4
<1>17. ASSUME NEW i \in DOMAIN s PROVE ItemOK(s[i])'
  <2> DEFINE x == s[i].key
  <2>1. x \in DOMAIN c /\ s[i].val = c[x]
    BY <1>9
  <2>2. x \in Key /\ c[x] \in Value /\ W[x] = u /\ x \in Nat
    BY <1>7, <2>1 DEF InPlace
  <2>3. d[x] = c[x]
    <3>1. EntryIn(L, page, W[x], x) = d[x]
      BY <1>1, <2>2 DEF AnswersIn
    <3>2. EntryIn(L, page, W[x], x) = ValueIn(c, x)
      BY <1>7, <2>2
    <3> QED  BY ONLY <2>1, <3>1, <3>2 DEF ValueIn
  <2>4. W2[x] = l /\ to' = l /\ l # Rehash
    BY <1>2, <1>3, <1>4, <1>13, <2>2 DEF Rehash
  <2>5. \A y \in Item : then' # <<y>>
    BY <1>2
  <2>6. s[i].key = x /\ s[i].val = c[x] /\ Leads' = W2
    BY <1>11, <2>1
  <2> HIDE DEF x
  <2> QED  BY <2>2, <2>3, <2>4, <2>5, <2>6 DEF ItemOK
<1>18. TodoOK'
  <2>1. \A i, j \in DOMAIN s : i # j => s[i].key # s[j].key
    BY <1>9
  <2> QED  BY <1>4, <1>17, <2>1 DEF TodoOK
<1>19. Tabled(m, F2, t2, {})
  BY <1>1, <1>3, <1>12 DEF Tabled, F2
<1>20. UppersNew(m, F2, t2)
  <2>1. SUFFICES ASSUME NEW x \in 0 .. (m - 1), x \notin F2, (x + m) \in DOMAIN t2
                 PROVE  t2[x + m] = NewBucket
    BY DEF UppersNew
  <2>2. CASE x = l
    BY <1>3, <1>12, <2>2
  <2>3. CASE x # l
    <3>1. x + m # u /\ x \notin F
      BY <1>2, <1>3, <2>1, <2>3 DEF F2
    <3> QED  BY <1>1, <1>12, <2>1, <3>1 DEF UppersNew
  <2> QED  BY <2>2, <2>3
<1>21. Emptied(m, F2, t2, {})
  <2>1. SUFFICES ASSUME NEW x \in 0 .. (m - 1), x \in F2 \ {}, x \in DOMAIN t2, Old(t2[x])
                 PROVE  SizeIn(t2, x + m) >= BucketMax
    BY DEF Emptied
  <2>2. x # l /\ x \in F /\ x + m # u /\ x # u
    BY <1>2, <1>3, <2>1 DEF F2
  <2>3. SizeIn(L, x + m) >= BucketMax
    BY <1>1, <1>12, <2>1, <2>2 DEF Emptied
  <2> QED  BY <1>12, <2>2, <2>3 DEF SizeIn
<1> QED  BY <1>11, <1>15, <1>16, <1>18, <1>19, <1>20, <1>21, <1>4 DEF ContentsInv, Stored, Running, t2

LEMMA DeleteKeepsContents ==
  ASSUME LinTypes, Stored, Running, ~strayed, ~strayed', NEW k \in Key, Delete(k)
  PROVE  ContentsInv'
<1> DEFINE b == bucketno(k)
           L == [BucketTable EXCEPT ![b] = Left(b, k)]
<1>1. Quiet /\ dict' = [dict EXCEPT ![k] = 0]
  BY DEF Delete
<1>2. CASE Stop("undefined") \/ Stop("exited")
  BY <1>2, StopKeepsContents
<1>3. CASE status' = "undefined" /\ UNCHANGED <<SplitFlag, BucketTable, todo, h1, page, then>>
  <2>1. Leads' = Leads /\ WaitingKeys' = WaitingKeys
    BY <1>3, LeadsIs, LeadsIsNext DEF WaitingKeys
  <2> QED  BY <1>3, <2>1 DEF ContentsInv, Stored
<1>4. L[b] = Left(b, k)  \/ b \notin DOMAIN BucketTable
  BY TableCount DEF LinTypes
<1>5. CASE /\ InTable(b) /\ (InMemory(b) \/ HasPage(b))
           /\ BucketTable' = L
           /\ strayed' = (strayed \/ LoadsOldPage(b) \/ Uncovers(L[b]))
           /\ UNCHANGED <<SplitFlag, todo, to, status, h1, page, then>>
  BY <1>1, <1>4, <1>5, PlainDeleteKeepsContents DEF InTable
<1>6. CASE /\ InTable(b) /\ (InMemory(b) \/ HasPage(b))
           /\ b \in SplitFlag /\ InTable(Upper(b)) /\ Judge(L, b) /\ Merge(L, b)
           /\ strayed' = (strayed \/ LoadsOldPage(b) \/ Uncovers(L[b])
                            \/ L[Upper(b)].size = BucketMax)
           /\ UNCHANGED <<status, h1, page, then>>
  <2>1. /\ ~LoadsOldPage(b) /\ ~Uncovers(Left(b, k)) /\ L[Upper(b)].size # BucketMax
        /\ b \in DOMAIN BucketTable /\ Upper(b) \in DOMAIN BucketTable
    BY <1>4, <1>6 DEF InTable
  <2>2. b = bucketno(k) /\ L = [BucketTable EXCEPT ![b] = Left(b, k)]
    OBVIOUS
  <2> HIDE DEF L, b
  <2> QED  BY <1>1, <1>6, <2>1, <2>2, MergeKeepsContents
<1> QED  BY <1>2, <1>3, <1>5, <1>6 DEF Delete, LoadFails

-----------------------------------------------------------------------------
(* Update and Search.                                                      *)

\* Update of an entry in memory.
LEMMA ChangeInMemory ==
  ASSUME LinTypes, LinTypes', Stored, Running, Quiet, NEW k \in Key, NEW v \in Value,
         NEW b, b = bucketno(k), b \in DOMAIN BucketTable, InMemory(b),
         k \in DOMAIN BucketTable[b].bucket,
         BucketTable' = [BucketTable EXCEPT ![b].bucket[k] = v],
         UNCHANGED <<page, h1, SplitFlag, pending, status>>,
         dict' = [dict EXCEPT ![k] = IF @ = 0 THEN 0 ELSE v]
  PROVE  ContentsInv'
<1> DEFINE W == Leads
           t == BucketTable
           t2 == BucketTable'
           old == t[b].bucket
           new == t2[b].bucket
           c == Current(t, page, b)
<1>1. /\ TableOK(t) /\ TableOK(t2) /\ PagesOK(page) /\ h1 \in Nat \ {0} /\ k \in Nat /\ DOMAIN dict = Key
      /\ todo' = << >> /\ then' = << >>
      /\ WaitingKeys = {} /\ Splits = {} /\ W = LeadsIn(h1, SplitFlag) /\ W[k] = b
  BY LeadsIs, NothingWaits DEF LinTypes, Quiet, pending
<1>2. StoredIn(t, page, W, {}) /\ AnswersIn(t, page, W, {}, dict)
  BY <1>1 DEF Stored, Running
<1>3. /\ DOMAIN t2 = DOMAIN t /\ \A x \in DOMAIN t \ {b} : t2[x] = t[x]
      /\ t2[b].size = t[b].size /\ t2[b].PageNum = t[b].PageNum
      /\ DOMAIN new = DOMAIN old /\ \A x \in DOMAIN old : new[x] = IF x = k THEN v ELSE old[x]
  <2>1. t \in [DOMAIN t -> Good] /\ t[b] \in Bucket /\ old \in Contents
    BY <1>1, TableCount, GoodFacts
  <2>2. old \in [DOMAIN old -> Nat]
    BY <2>1, ContentsFacts
  <2>3. t2[b] = [t[b] EXCEPT !.bucket = [old EXCEPT ![k] = v]] /\ DOMAIN t2 = DOMAIN t
        /\ \A x \in DOMAIN t \ {b} : t2[x] = t[x]
    BY <2>1
  <2> HIDE DEF t2, t
  <2>4. new = [old EXCEPT ![k] = v] /\ t2[b].size = t[b].size /\ t2[b].PageNum = t[b].PageNum
    BY <2>1, <2>3 DEF Bucket
  <2> QED  BY <2>2, <2>3, <2>4
<1> HIDE DEF W, t2, old, new, c
<1>4. t[b].bucket = old /\ t2[b].bucket = new /\ k \in DOMAIN old /\ DOMAIN old # {}
      /\ Current(t2, page, b) = c
  BY <1>3 DEF old, new, Current, c
<1>5. Held(t[b], c, W, b) /\ t[b] \in Good
  BY <1>1, <1>2, TableCount DEF StoredIn, c
<1>6. ~Written(t[b], c, W, b)
  BY <1>4 DEF Written
<1>7. InPlace(old, W, b) /\ InPlace(new, W, b)
  <2>1. InPlace(old, W, b)
    BY <1>4, <1>5 DEF Held
  <2> QED  BY <1>3, <2>1 DEF InPlace
<1>8. Held(t2[b], c, W, b)
  BY <1>3, <1>4, <1>5, <1>6, <1>7 DEF Held, Light, Reloaded
<1>9. t[b].size # 0
  <2>1. Cardinality(DOMAIN old) # 0 /\ Cardinality(DOMAIN old) \in Nat /\ Cardinality(DOMAIN old) <= t[b].size
        /\ t[b].size \in Nat
    BY <1>4, <1>5, GoodFacts, ContentsCount
  <2> QED  BY <2>1
<1>10. StoredIn(t2, page, W, {}) /\ \A a : a # b => \A x : EntryIn(t2, page, a, x) = EntryIn(t, page, a, x)
  <2>1. /\ StoredIn(t, page, W, {}) /\ PagesOK(page) /\ b \in DOMAIN t
        /\ DOMAIN t2 = DOMAIN t /\ \A x \in DOMAIN t \ {b} : t2[x] = t[x]
    BY <1>1, <1>2, <1>3
  <2>2. Held(t2[b], Current(t2, page, b), W, b) /\ ~Old(t2[b]) /\ t2[b].PageNum = t[b].PageNum
    BY <1>3, <1>4, <1>8, <1>9 DEF Old
  <2>3. LeadTo(W, b, {} \ {})
    BY DEF LeadTo
  <2> QED  BY ONLY <2>1, <2>2, <2>3, ChangeKeepsStored
<1>11. \A x : EntryIn(t, page, b, x) = ValueIn(old, x) /\ EntryIn(t2, page, b, x) = ValueIn(new, x)
  BY <1>3, <1>4 DEF EntryIn, ContentOf
<1>12. AnswersIn(t2, page, W, {}, dict')
  <2>1. SUFFICES ASSUME NEW x \in Key PROVE EntryIn(t2, page, W[x], x) = dict'[x]
    BY DEF AnswersIn
  <2>2. EntryIn(t, page, W[x], x) = dict[x]
    BY <1>2 DEF AnswersIn
  <2>3. CASE x = k
    <3>1. dict[k] = old[k] /\ old[k] # 0
      BY <1>1, <1>4, <1>7, <1>11, <2>2, <2>3 DEF InPlace, ValueIn
    <3>2. dict'[k] = v /\ new[k] = v
      BY <1>1, <1>3, <1>4, <3>1
    <3> QED  BY <1>1, <1>3, <1>4, <1>11, <2>3, <3>2 DEF ValueIn
  <2>4. CASE x # k
    <3>1. dict'[x] = dict[x]
      BY <2>4
    <3>2. ValueIn(new, x) = ValueIn(old, x)
      BY <1>3, <2>4 DEF ValueIn
    <3> QED  BY <1>10, <1>11, <2>2, <3>1, <3>2
  <2> QED  BY <2>3, <2>4
<1>13. UppersNew(h1, SplitFlag, t2) /\ Emptied(h1, SplitFlag, t2, {})
  <2>1. UppersNew(h1, SplitFlag, t) /\ Emptied(h1, SplitFlag, t, {})
    BY <1>1 DEF Running
  <2>2. b = LeadsIn(h1, SplitFlag)[k] /\ ~Old(t2[b])
    BY <1>1, <1>3, <1>9 DEF Old
  <2> QED  BY <1>1, <1>3, <2>1, <2>2, ReplaceKeepsShape
<1>14. Tabled(h1, SplitFlag, t2, {})
  BY <1>1, <1>3 DEF Running, Tabled
<1>15. WaitingKeys' = {} /\ Splits' = {} /\ TodoOK' /\ Splitting' /\ Leads' = W
  BY <1>1, NothingWaitsNext, LeadsIsNext
<1> QED  BY <1>10, <1>12, <1>13, <1>14, <1>15 DEF ContentsInv, Stored, Running, t2

\* Update of an entry on a page.  The page that a bucket has kept when it was split
\* is written again, too, and has nothing of this bucket then, either.
LEMMA ChangeOnPage ==
  ASSUME LinTypes, LinTypes', Stored, Running, Quiet, ~strayed', NEW k \in Key, NEW v \in Value,
         NEW b, b = bucketno(k), b \in DOMAIN BucketTable, ~InMemory(b), HasPage(b),
         NEW c, c = Current(BucketTable, page, b),
         NEW new, new = IF k \in DOMAIN c THEN Set(c, k, v) ELSE c,
         BucketWrite(BucketTable, b, [BucketTable[b] EXCEPT !.bucket = new]),
         UNCHANGED <<h1, SplitFlag, pending, status>>,
         dict' = [dict EXCEPT ![k] = IF @ = 0 THEN 0 ELSE v]
  PROVE  ContentsInv'
<1> DEFINE W == Leads
           t == BucketTable
           t2 == BucketTable'
           pg2 == page'
           bk == [t[b] EXCEPT !.bucket = new]
<1>1. /\ TableOK(t) /\ PagesOK(page) /\ PagesOK(pg2) /\ h1 \in Nat \ {0} /\ k \in Nat /\ DOMAIN dict = Key
      /\ todo' = << >> /\ then' = << >> /\ v \in Nat /\ BucketMax \in Nat /\ BucketMax >= 2
      /\ WaitingKeys = {} /\ Splits = {} /\ W = LeadsIn(h1, SplitFlag) /\ W[k] = b
  BY LeadsIs, NothingWaits DEF LinTypes, Quiet, pending
<1>2. StoredIn(t, page, W, {}) /\ AnswersIn(t, page, W, {}, dict)
  BY <1>1 DEF Stored, Running
<1>3. c \in Contents
  <2>1. PageRead(t[b].PageNum) \in PageContents
    BY <1>1, PageReadType
  <2> QED  BY <2>1 DEF PageRead, Current, PageContents
<1>4. /\ new \in Contents /\ DOMAIN new = DOMAIN c
      /\ \A x \in DOMAIN c : new[x] = IF x = k THEN v ELSE c[x]
  <2>1. CASE k \in DOMAIN c
    <3>1. Set(c, k, v) \in Contents /\ DOMAIN Set(c, k, v) = DOMAIN c \cup {k}
      BY <1>1, <1>3, SetKeepsContents
    <3> QED  BY <2>1, <3>1 DEF Set
  <2>2. CASE k \notin DOMAIN c
    BY <1>3, <2>2
  <2> QED  BY <2>1, <2>2
<1>5. Held(t[b], c, W, b) /\ t[b] \in Good /\ t[b] \in Bucket /\ DOMAIN t[b].bucket = {} /\ t[b].PageNum # NoPage
  BY <1>1, <1>2, TableCount, GoodFacts DEF StoredIn, InMemory, HasPage
<1>6. bk \in Bucket /\ bk.bucket = new /\ bk.size = t[b].size /\ bk.PageNum = t[b].PageNum
  BY <1>4, <1>5 DEF Bucket
<1>7. BucketWrite(t, b, bk)
  OBVIOUS
<1> HIDE DEF W, t2, pg2, bk
<1>8. /\ DOMAIN t2 = DOMAIN t /\ \A x \in DOMAIN t \ {b} : t2[x] = t[x]
      /\ t2[b].size = t[b].size /\ (Old(t2[b]) => Old(t[b]))
      /\ StoredIn(t2, pg2, W, {})
      /\ \A a : a # b => \A x : EntryIn(t2, pg2, a, x) = EntryIn(t, page, a, x)
      /\ \A x \in Key : EntryIn(t, page, b, x) = dict[x] => EntryIn(t2, pg2, b, x) = dict'[x] \/ W[x] # b
  <2>1. CASE Written(t[b], c, W, b)
    <3>1. t[b].size = BucketMax /\ Cardinality(DOMAIN new) = BucketMax /\ InPlace(new, W, b)
          /\ InPlace(c, W, b)
      BY <1>4, <2>1 DEF Written, InPlace
    <3>2. LeadTo(W, b, {} \ {})
      BY DEF LeadTo
    <3>3. /\ ~strayed /\ StoredIn(BucketTable', page', W, {})
          /\ DOMAIN BucketTable' = DOMAIN t /\ \A x \in DOMAIN t \ {b} : BucketTable'[x] = t[x]
          /\ BucketTable'[b].size = BucketMax
          /\ \A x : EntryIn(BucketTable', page', b, x) = ValueIn(bk.bucket, x)
          /\ \A a : a # b => \A x : EntryIn(BucketTable', page', a, x) = EntryIn(t, page, a, x)
      <4>1. WritesFull(t, W, {}, b, bk, {})
        BY <1>1, <1>2, <1>6, <1>7, <3>1, <3>2 DEF pg2, WritesFull
      <4> QED  BY <4>1, WriteKeepsStored
    <3>4. \A x : EntryIn(t, page, b, x) = ValueIn(c, x)
      BY <1>1, <1>5, <3>1 DEF EntryIn, ContentOf
    <3>5. ASSUME NEW x \in Key, EntryIn(t, page, b, x) = dict[x]
          PROVE  ValueIn(new, x) = dict'[x]
      <4>1. CASE x # k
        <5>1. dict'[x] = dict[x] /\ ValueIn(new, x) = ValueIn(c, x)
          BY <1>4, <4>1 DEF ValueIn
        <5> QED  BY <3>4, <3>5, <5>1
      <4>2. CASE x = k /\ k \in DOMAIN c
        <5>1. dict[k] = c[k] /\ c[k] # 0
          BY <3>1, <3>4, <3>5, <4>2 DEF ValueIn, InPlace
        <5> QED  BY <1>1, <1>4, <4>2, <5>1 DEF ValueIn
      <4>3. CASE x = k /\ k \notin DOMAIN c
        <5>1. dict[k] = 0
          BY <3>4, <3>5, <4>3 DEF ValueIn
        <5> QED  BY <1>1, <1>4, <4>3, <5>1 DEF ValueIn
      <4> QED  BY <4>1, <4>2, <4>3
    <3>6. ~Old(BucketTable'[b])
      BY <1>1, <3>3 DEF Old
    <3> QED  BY <1>6, <3>1, <3>3, <3>5, <3>6 DEF t2, pg2
  <2>2. CASE Light(t[b])
    <3>1. t[b].size = 0 /\ Old(t[b])
      <4>1. t[b].size = 0
        BY <1>5, <2>2, FS_EmptySet DEF Light
      <4> QED  BY <1>5, <4>1 DEF Old
    <3>2. \A x \in DOMAIN c : x \in Key /\ W[x] # b
      BY <1>2, <3>1 DEF StoredIn, OldOK
    <3>3. PICK p \in Nat :
            /\ p \in DOMAIN page' /\ page'[p] = bk.bucket
            /\ BucketTable' = [t EXCEPT ![b] = [bk EXCEPT !.PageNum = p, !.bucket = Nothing]]
            /\ PagesKept(t, b, p, page, page')
      <4>1. /\ PagesOK(page) /\ StoredIn(t, page, W, {}) /\ b \in DOMAIN t /\ bk \in Bucket
            /\ bk.PageNum = t[b].PageNum /\ BucketWrite(t, b, bk) /\ ~strayed'
        BY <1>1, <1>2, <1>6, <1>7
      <4> QED  BY ONLY <4>1, BucketWriteEffect
    <3>4. /\ DOMAIN t2 = DOMAIN t /\ \A x \in DOMAIN t \ {b} : t2[x] = t[x]
          /\ t2[b].size = 0 /\ t2[b].PageNum = p /\ DOMAIN t2[b].bucket = {}
      BY <1>1, <1>6, <3>1, <3>3, TableCount, NothingAndBlank DEF Bucket, t2
    <3>5. Current(t2, pg2, b) = new
      BY <1>6, <3>3, <3>4 DEF Current, pg2
    <3>6. Held(t2[b], Current(t2, pg2, b), W, b)
      BY <1>1, <3>4, FS_EmptySet DEF Held, InPlace, Light
    <3>7. OldOK(t2[b], Current(t2, pg2, b), W, b, {})
      BY <1>4, <3>2, <3>5 DEF OldOK
    <3>8. StoredIn(t2, pg2, W, {}) /\ \A a : a # b => \A x : EntryIn(t2, pg2, a, x) = EntryIn(t, page, a, x)
      <4>1. PagesKept(t, b, t2[b].PageNum, page, pg2) /\ t2[b].PageNum \in DOMAIN pg2 \cup {NoPage}
        BY <3>3, <3>4 DEF pg2
      <4>2. LeadTo(W, b, {} \ {})
        BY DEF LeadTo
      <4>3. /\ StoredIn(t, page, W, {}) /\ PagesOK(page) /\ PagesOK(pg2) /\ b \in DOMAIN t
            /\ DOMAIN t2 = DOMAIN t /\ \A x \in DOMAIN t \ {b} : t2[x] = t[x]
        BY <1>1, <1>2, <3>4
      <4>4. Replaced(t, page, W, {}, b, t2, pg2, {})
        BY <3>6, <3>7, <4>1, <4>2, <4>3 DEF Replaced
      <4> QED  BY <4>4, ReplaceKeepsStored
    <3>9. \A x : EntryIn(t2, pg2, b, x) = 0 /\ EntryIn(t, page, b, x) = 0
      BY <1>1, <1>5, <3>1, <3>4 DEF EntryIn, ContentOf, ValueIn
    <3>10. \A x \in Key : dict[x] = 0 => dict'[x] = 0
      BY <1>1
    <3> QED  BY <3>1, <3>4, <3>8, <3>9, <3>10
  <2>3. ~Reloaded(t[b])
    BY <1>5 DEF Reloaded
  <2> QED  BY <1>5, <2>1, <2>2, <2>3 DEF Held
<1>9. AnswersIn(t2, pg2, W, {}, dict')
  <2>1. SUFFICES ASSUME NEW x \in Key PROVE EntryIn(t2, pg2, W[x], x) = dict'[x]
    BY DEF AnswersIn
  <2>2. EntryIn(t, page, W[x], x) = dict[x]
    BY <1>2 DEF AnswersIn
  <2>3. CASE W[x] = b
    BY <1>8, <2>2, <2>3
  <2>4. CASE W[x] # b
    <3>1. dict'[x] = dict[x]
      BY <1>1, <2>4
    <3> QED  BY <1>8, <2>2, <2>4, <3>1
  <2> QED  BY <2>3, <2>4
<1>10. UppersNew(h1, SplitFlag, t2) /\ Emptied(h1, SplitFlag, t2, {})
  <2>1. UppersNew(h1, SplitFlag, t) /\ Emptied(h1, SplitFlag, t, {})
    BY <1>1 DEF Running
  <2>2. b = LeadsIn(h1, SplitFlag)[k]
    BY <1>1
  <2> QED  BY <1>1, <1>8, <2>1, <2>2, ReplaceKeepsShape
<1>11. Tabled(h1, SplitFlag, t2, {})
  BY <1>1, <1>8 DEF Running, Tabled
<1>12. WaitingKeys' = {} /\ Splits' = {} /\ TodoOK' /\ Splitting' /\ Leads' = W
  BY <1>1, NothingWaitsNext, LeadsIsNext
<1> QED  BY <1>8, <1>9, <1>10, <1>11, <1>12 DEF ContentsInv, Stored, Running, t2, pg2

LEMMA UpdateKeepsContents ==
  ASSUME LinTypes, LinTypes', Stored, Running, ~strayed, ~strayed',
         NEW k \in Key, NEW v \in Value, Update(k, v)
  PROVE  ContentsInv'
<1> DEFINE b == bucketno(k)
           bk == BucketTable[b]
           c == Current(BucketTable, page, b)
           new == IF k \in DOMAIN c THEN Set(c, k, v) ELSE c
<1>1. Quiet /\ dict' = [dict EXCEPT ![k] = IF @ = 0 THEN 0 ELSE v]
  BY DEF Update
<1>2. CASE Stop("undefined") \/ Stop("exited")
  BY <1>2, StopKeepsContents
<1>3. CASE InTable(b) /\ ValueUpdate(b, k, v) /\ UNCHANGED <<h1, SplitFlag, pending, status>>
  <2>1. b = bucketno(k) /\ b \in DOMAIN BucketTable
    BY <1>3 DEF InTable
  <2>2. CASE /\ InMemory(b) /\ k \in DOMAIN bk.bucket
             /\ BucketTable' = [BucketTable EXCEPT ![b].bucket[k] = v]
             /\ UNCHANGED <<page, strayed>>
    <3> HIDE DEF b
    <3> QED  BY <1>1, <1>3, <2>1, <2>2, ChangeInMemory
  <2>3. CASE /\ ~InMemory(b) /\ HasPage(b)
             /\ BucketWrite(BucketTable, b, [bk EXCEPT !.bucket = new])
    <3>1. new = IF k \in DOMAIN c THEN Set(c, k, v) ELSE c
      OBVIOUS
    <3>2. BucketWrite(BucketTable, b, [BucketTable[b] EXCEPT !.bucket = new])
      BY <2>3
    <3>3. c = Current(BucketTable, page, b)
      OBVIOUS
    <3> HIDE DEF b, c, new
    <3> QED  BY <1>1, <1>3, <2>1, <2>3, <3>1, <3>2, <3>3, ChangeOnPage
  <2>4. c = PageRead(bk.PageNum)
    BY DEF Current, PageRead
  <2> QED  BY <1>3, <2>2, <2>3, <2>4 DEF ValueUpdate
<1> QED  BY <1>2, <1>3 DEF Update, LoadFails

LEMMA SearchKeepsContents ==
  ASSUME Stored, ~strayed, NEW k \in Key, Search(k)
  PROVE  ContentsInv'
BY StopKeepsContents DEF Search

-----------------------------------------------------------------------------
(* All steps.                                                              *)

LEMMA InitEstablishesContents == Init => ContentsInv
<1> SUFFICES ASSUME Init PROVE ContentsInv
  OBVIOUS
<1>1. /\ BucketTable = Table(Nothing, h1) /\ h1 \in Nat \ {0} /\ SplitFlag = {}
      /\ todo = << >> /\ then = << >> /\ dict = [k \in Key |-> 0]
  BY DEF Init
<1>2. WaitingKeys = {} /\ Splits = {} /\ TodoOK /\ Splitting
  BY <1>1, NothingWaits
<1>3. /\ DOMAIN BucketTable = 0 .. (h1 - 1)
      /\ \A b \in DOMAIN BucketTable : BucketTable[b] = NewBucket
  BY <1>1, NothingAndBlank DEF Table
<1>4. NewBucket.PageNum = NoPage /\ ~Old(NewBucket)
  BY NewBucketHeld DEF Old
<1>5. Stored
  <2>1. \A b \in DOMAIN BucketTable :
          /\ Held(BucketTable[b], Current(BucketTable, page, b), Leads, b)
          /\ OldOK(BucketTable[b], Current(BucketTable, page, b), Leads, b, WaitingKeys)
    BY <1>3, NewBucketHeld
  <2> QED  BY <1>3, <1>4, <2>1 DEF Stored, StoredIn
<1>6. Tabled(h1, SplitFlag, BucketTable, Splits)
  BY <1>1, <1>3 DEF Tabled
<1>7. UppersNew(h1, SplitFlag, BucketTable) /\ Emptied(h1, SplitFlag, BucketTable, Splits)
  BY <1>1, <1>3, <1>4 DEF UppersNew, Emptied
<1>8. AnswersIn(BucketTable, page, Leads, WaitingKeys, dict)
  <2>1. \A b, k : EntryIn(BucketTable, page, b, k) = 0
    BY <1>3, NewBucketHeld DEF EntryIn
  <2> QED  BY <1>1, <1>2, <2>1 DEF AnswersIn
<1> QED  BY <1>2, <1>5, <1>6, <1>7, <1>8 DEF ContentsInv, Running

\* A mishap is not forgotten.
LEMMA StrayedStays ==
  ASSUME Next, ~strayed'
  PROVE  ~strayed
<1>1. \A p, c : PageUpdate(p, c) => ~strayed
  BY DEF PageUpdate
<1>2. \A c : PageAppend(c) => ~strayed
  BY DEF PageAppend
<1>3. ASSUME NEW t, NEW b, NEW bk, BucketWrite(t, b, bk) PROVE ~strayed
  BY <1>1, <1>2, <1>3 DEF BucketWrite
<1>4. ASSUME NEW t, NEW b, NEW e, BucketInsert(t, b, e) PROVE ~strayed
  BY <1>3, <1>4 DEF BucketInsert
<1>5. \A how : Stop(how) => ~strayed
  BY DEF Stop
<1>6. \A k, v : Insert(k, v) => ~strayed
  BY <1>4, <1>5 DEF Insert, split
<1>7. \A k, v : Update(k, v) => ~strayed
  BY <1>3, <1>5 DEF Update, LoadFails, ValueUpdate
<1>8. \A k : Delete(k) => ~strayed
  BY <1>5 DEF Delete, LoadFails
<1>9. \A k : Search(k) => ~strayed
  BY <1>5 DEF Search
<1>10. PutNext => ~strayed
  BY <1>4, <1>5 DEF PutNext
<1>11. SplitEnd => ~strayed
  BY <1>4 DEF SplitEnd
<1> QED  BY <1>6, <1>7, <1>8, <1>9, <1>10, <1>11 DEF Next

LEMMA NextKeepsContents == LinTypes /\ ContentsInv /\ [Next]_vars => ContentsInv'
<1> SUFFICES ASSUME LinTypes, ContentsInv, [Next]_vars PROVE ContentsInv'
  OBVIOUS
<1>1. LinTypes'
  BY NextKeepsTypes
<1>2. CASE UNCHANGED vars
  <2>1. UNCHANGED <<h1, SplitFlag, BucketTable, page, todo, to, then, status, dict, strayed>>
    BY <1>2 DEF vars, pending
  <2>2. Leads' = Leads /\ WaitingKeys' = WaitingKeys /\ Splits' = Splits
    BY <2>1, LeadsIs, LeadsIsNext DEF WaitingKeys, Splits
  <2>3. TodoOK => TodoOK'
    BY <2>1, <2>2 DEF TodoOK, ItemOK, h2
  <2>4. Splitting => Splitting'
    BY <2>1 DEF Splitting, SplitFor, Halves
  <2>5. Stored => Stored'
    BY <2>1, <2>2 DEF Stored
  <2>6. Running => Running'
    BY <2>1, <2>2, <2>3, <2>4 DEF Running
  <2> QED  BY <2>1, <2>5, <2>6 DEF ContentsInv
<1>3. CASE Next
  <2>1. SUFFICES ASSUME ~strayed' PROVE ContentsInv'
    BY DEF ContentsInv
  <2>2. ~strayed
    BY <1>3, <2>1, StrayedStays
  <2>3. status = "running"
    BY <1>3 DEF Next, Insert, Update, Delete, Search, PutNext, SplitEnd, Quiet
  <2>4. Stored /\ Running
    BY <2>2, <2>3 DEF ContentsInv
  <2>5. ASSUME NEW k \in Key, NEW v \in Value, Insert(k, v) \/ Update(k, v) PROVE ContentsInv'
    BY <1>1, <2>1, <2>2, <2>4, <2>5, InsertKeepsContents, UpdateKeepsContents
  <2>6. ASSUME NEW k \in Key, Delete(k) \/ Search(k) PROVE ContentsInv'
    BY <2>1, <2>2, <2>4, <2>6, DeleteKeepsContents, SearchKeepsContents
  <2>7. CASE PutNext \/ SplitEnd
    BY <1>1, <2>1, <2>2, <2>4, <2>7, PutNextKeepsContents, SplitEndKeepsContents
  <2> QED  BY <1>3, <2>5, <2>6, <2>7 DEF Next
<1> QED  BY <1>2, <1>3

LEMMA ContentsInvHolds == Spec => [](LinTypes /\ ContentsInv)
BY InitEstablishesTypes, NextKeepsTypes, InitEstablishesContents, NextKeepsContents, PTL DEF Spec

-----------------------------------------------------------------------------
LEMMA BucketKinds ==
  ASSUME LinTypes, Stored, NEW b \in DOMAIN BucketTable
  PROVE  LET c == Current(BucketTable, page, b) IN
         /\ InPlace(BucketTable[b].bucket, Leads, b)
         /\ ~InMemory(b) /\ IsFull(b) => Written(BucketTable[b], c, Leads, b)
         /\ ~InMemory(b) /\ ~IsFull(b) => BucketTable[b].size = 0
         /\ PageRead(BucketTable[b].PageNum) = c
<1> DEFINE bk == BucketTable[b]
           c == Current(BucketTable, page, b)
<1>1. Held(bk, c, Leads, b) /\ bk.size \in Nat /\ BucketMax \in Nat
  BY TableCount, GoodFacts DEF Stored, StoredIn, LinTypes
<1>2. (InMemory(b) <=> DOMAIN bk.bucket # {}) /\ (IsFull(b) <=> bk.size >= BucketMax)
  BY DEF InMemory, IsFull
<1>3. PageRead(bk.PageNum) = c
  BY DEF PageRead, Current
<1> HIDE DEF bk, c
<1>4. ~InMemory(b) => ~Reloaded(bk)
  BY <1>2 DEF Reloaded
<1>5. IsFull(b) => ~Light(bk)
  BY <1>1, <1>2 DEF Light
<1>6. ~InMemory(b) /\ Light(bk) => bk.size = 0
  BY <1>2, FS_EmptySet DEF Light
<1>7. ~IsFull(b) => ~Written(bk, c, Leads, b)
  BY <1>1, <1>2 DEF Written
<1> QED  BY <1>1, <1>3, <1>4, <1>5, <1>6, <1>7 DEF Held, bk, c

\* Before a mishap every entry is where its key is looked for, through all splits and
\* merges, within a round and from one round to the next, also while a split or a
\* merge is half done (LiHash.cpp:266-308, 389-413).
THEOREM LinearEntriesInPlace == Spec => []EntriesInPlace
<1>1. ASSUME LinTypes, ContentsInv PROVE EntriesInPlace
  <2>1. SUFFICES ASSUME ~strayed, NEW b \in DOMAIN BucketTable, NEW k \in KeysOf(b)
                 PROVE  bucketno(k) = b
    BY DEF EntriesInPlace
  <2>2. Stored
    BY <1>1, <2>1 DEF ContentsInv
  <2>3. k \in Key /\ Leads[k] = b
    <3>1. CASE ~InMemory(b) /\ IsFull(b)
      BY <1>1, <2>1, <2>2, <3>1, BucketKinds DEF KeysOf, Written, InPlace
    <3>2. CASE ~(~InMemory(b) /\ IsFull(b))
      BY <1>1, <2>1, <2>2, <3>2, BucketKinds DEF KeysOf, InPlace
    <3> QED  BY <3>1, <3>2
  <2>4. k \in Nat
    BY <2>3
  <2> QED  BY <2>3, <2>4, LeadsIs
<1> QED  BY <1>1, ContentsInvHolds, PTL

\* Before a mishap two buckets never share a page, and a bucket's page has been
\* written, although splits keep the page with one half and merges give one up.
THEOREM LinearPagesNotShared == Spec => []PagesNotShared
<1>1. ASSUME ContentsInv PROVE PagesNotShared
  BY <1>1 DEF ContentsInv, PagesNotShared, Stored, StoredIn, HasPage
<1> QED  BY <1>1, ContentsInvHolds, PTL

\* Before a mishap a search between the operations finds the value a key was last
\* given, and none for a key that is not there (LiHash.cpp:310-337).
THEOREM LinearLookupsAreRight == Spec => []LookupIsLastValue
<1>1. ASSUME LinTypes, ContentsInv PROVE LookupIsLastValue
  <2>1. SUFFICES ASSUME Quiet, ~strayed, NEW k \in Key, InTable(bucketno(k))
                 PROVE  Lookup(k) = dict[k]
    BY DEF LookupIsLastValue
  <2> DEFINE b == bucketno(k)
             t == BucketTable
             c == Current(t, page, b)
  <2>2. Stored /\ Running /\ WaitingKeys = {}
    BY <1>1, <2>1, NothingWaits DEF ContentsInv, Quiet
  <2>3. k \in Nat /\ b = Leads[k] /\ b \in DOMAIN t
    BY <2>1, LeadsIs DEF InTable
  <2>4. ValueIn(ContentOf(t[b], c), k) = dict[k]
    <3>1. EntryIn(t, page, b, k) = dict[k]
      BY <2>2, <2>3 DEF Running, AnswersIn
    <3> QED  BY <2>3, <3>1 DEF EntryIn
  <2>5. Lookup(k) = ValueIn(Seen(b), k)
    BY DEF Lookup, ValueIn
  <2>6. /\ ~InMemory(b) /\ IsFull(b) => Written(t[b], c, Leads, b)
        /\ ~InMemory(b) /\ ~IsFull(b) => t[b].size = 0
        /\ PageRead(t[b].PageNum) = c
    BY <1>1, <2>2, <2>3, BucketKinds
  <2>7. (InMemory(b) <=> DOMAIN t[b].bucket # {}) /\ (HasPage(b) <=> t[b].PageNum # NoPage)
        /\ (IsFull(b) <=> t[b].size >= BucketMax)
    BY DEF InMemory, HasPage, IsFull
  <2>8. CASE InMemory(b)
    BY <2>4, <2>5, <2>7, <2>8 DEF Seen, ContentOf
  <2>9. CASE ~InMemory(b) /\ IsFull(b)
    BY <2>4, <2>5, <2>6, <2>7, <2>9 DEF Seen, ContentOf, Written
  <2>10. CASE ~InMemory(b) /\ ~IsFull(b) /\ ~HasPage(b)
    BY <2>4, <2>5, <2>7, <2>10 DEF Seen, ContentOf
  <2>11. CASE ~InMemory(b) /\ ~IsFull(b) /\ HasPage(b)
    <3>1. Old(t[b])
      BY <2>6, <2>7, <2>11 DEF Old
    <3>2. k \notin DOMAIN c
      BY <2>2, <2>3, <3>1 DEF Stored, StoredIn, OldOK
    <3>3. dict[k] = 0
      BY <2>4, <2>7, <2>11 DEF ContentOf, ValueIn
    <3> QED  BY <2>5, <2>6, <2>11, <3>2, <3>3 DEF Seen, ValueIn
  <2> QED  BY <2>8, <2>9, <2>10, <2>11
<1> QED  BY <1>1, ContentsInvHolds, PTL
=============================================================================
