-------------------------- MODULE OutputHttpProofs --------------------------
(***************************************************************************)
(* Proofs about OutputHttp and the cache below it, for every length of the *)
(* track, every size of the cache, of obuf and of the blocks, and every    *)
(* interval of the metadata.                                               *)
(***************************************************************************)
EXTENDS OutputHttp, SequenceTheorems, TLAPS

-----------------------------------------------------------------------------
\* Division.
LEMMA DivMod ==
  ASSUME NEW a \in Int, NEW N \in Nat, N > 0
  PROVE  /\ (a % N) \in 0..N - 1 /\ a \div N \in Int /\ a = N * (a \div N) + (a % N)
         /\ a >= 0 => a \div N \in Nat
<1>1. (a % N) \in 0..N - 1
  BY SMT
<1>2. a = N * (a \div N) + (a % N)
  BY SMT
<1>3. a \div N \in Int
  BY SMT
<1>4. a >= 0 => a \div N >= 0
  BY <1>1, <1>2, <1>3, SMT
<1> QED BY <1>1, <1>2, <1>3, <1>4

LEMMA DivModUnique ==
  ASSUME NEW N \in Nat, N > 0, NEW q \in Int, NEW r \in 0..N - 1, NEW a \in Int, a = N * q + r
  PROVE  (a % N) = r /\ a \div N = q
<1> DEFINE p == a \div N
           s == a % N
<1>1. s \in 0..N - 1 /\ p \in Int /\ N * p + s = N * q + r
  BY DivMod
<1> HIDE DEF p, s
<1>2. N * (q - p) = s - r
  BY <1>1, SMT
<1>3. CASE q > p
  <2>1. N * (q - p) >= N
    BY <1>1, <1>3, SMT
  <2> QED BY <1>1, <1>2, <2>1, SMT
<1>4. CASE q < p
  <2>1. N * (p - q) >= N
    BY <1>1, <1>4, SMT
  <2>2. N * (p - q) = r - s
    BY <1>1, <1>2, SMT
  <2> QED BY <1>1, <2>1, <2>2, SMT
<1>5. CASE q = p
  BY <1>1, <1>5, SMT DEF p, s
<1> QED BY <1>1, <1>3, <1>4, <1>5

\* k steps further: within a row of N, or into the next.
LEMMA ModWithin ==
  ASSUME NEW a \in Nat, NEW N \in Nat, N > 0, NEW k \in Nat, (a % N) + k < N
  PROVE  (a + k) % N = (a % N) + k /\ (a + k) \div N = a \div N
<1>1. (a % N) \in 0..N - 1 /\ a \div N \in Nat /\ a = N * (a \div N) + (a % N)
  BY DivMod
<1>2. a + k = N * (a \div N) + ((a % N) + k)
  BY <1>1
<1>3. a + k \in Nat /\ (a % N) + k \in 0..N - 1 /\ a \div N \in Int
  BY <1>1
<1> QED BY <1>2, <1>3, DivModUnique

LEMMA ModAcross ==
  ASSUME NEW a \in Nat, NEW N \in Nat, N > 0, NEW k \in Nat, (a % N) + k >= N, k <= N
  PROVE  (a + k) % N = (a % N) + k - N /\ (a + k) \div N = a \div N + 1
<1>1. (a % N) \in 0..N - 1 /\ a \div N \in Nat /\ a = N * (a \div N) + (a % N)
  BY DivMod
<1>2. a + k = N * (a \div N + 1) + ((a % N) + k - N)
  BY <1>1
<1>3. a + k \in Int /\ (a % N) + k - N \in 0..N - 1 /\ a \div N + 1 \in Int
  BY <1>1
<1> DEFINE q == a \div N + 1
           r == (a % N) + k - N
           b == a + k
<1> HIDE DEF q, r, b
<1>4. b \in Int /\ r \in 0..N - 1 /\ q \in Int /\ b = N * q + r
  BY <1>2, <1>3 DEF q, r, b
<1>5. b % N = r /\ b \div N = q
  BY <1>4, DivModUnique
<1> QED BY <1>5 DEF q, r, b

\* From slot w of a ring of N on to slot i.
LEMMA Turn ==
  ASSUME NEW N \in Nat, N > 0, NEW i \in 0..N - 1, NEW w \in 0..N - 1
  PROVE  /\ ((i - w) % N) \in 0..N - 1
         /\ ((i - w) % N) = IF i >= w THEN i - w ELSE i - w + N
<1>1. CASE i >= w
  <2>1. i - w = N * 0 + (i - w) /\ i - w \in 0..N - 1 /\ i - w \in Int
    BY <1>1
  <2>2. (i - w) % N = i - w
    BY <2>1, DivModUnique
  <2> QED BY <1>1, <2>1, <2>2
<1>2. CASE i < w
  <2>1. i - w = N * (-1) + (i - w + N) /\ i - w + N \in 0..N - 1 /\ i - w \in Int /\ -1 \in Int
    BY <1>2
  <2>2. (i - w) % N = i - w + N
    BY <2>1, DivModUnique
  <2> QED BY <1>2, <2>1, <2>2
<1> QED BY <1>1, <1>2

LEMMA BoundsAreNat ==
  /\ CacheSize \in Nat /\ CacheSize > 1 /\ Length \in Nat /\ Length > 0
  /\ MaxBlock \in 1..CacheSize /\ ObufSize \in Nat /\ Interval \in 1..CacheSize
  /\ Interval + 1 \in Nat /\ Interval + 1 > 1
BY HttpAssumption, CacheSizeAssumption

-----------------------------------------------------------------------------
\* The ring: how far it is from a slot to the one that is written next, and
\* what the slots hold.
Dist(c, p) == IF p < c.write_p THEN c.write_p - p ELSE c.write_p + CacheSize - p

RingHolds(c) ==
  /\ c.write_p = c.total % CacheSize
  /\ \A i \in 0..CacheSize - 1 : c.total >= Dist(c, i) => c.buffer[i] = c.total - Dist(c, i)

Holds(c) == IsFile(c) \/ RingHolds(c)

\* The reader of a ring is at something it holds, or at its end.
InRing(c) ==
  IsFile(c) \/ /\ c.read_p \in 0..CacheSize - 1
               /\ c.read_p = c.write_p \/ Dist(c, c.read_p) <= RingLevel(c)

\* The byte it reads next.
CursorOf(c) == IF IsFile(c) THEN Least(c.read_p, c.total)
               ELSE IF c.read_p = c.write_p THEN c.total ELSE c.total - Dist(c, c.read_p)

\* c and d differ by their readers.
SameData(c, d) == d.type = c.type /\ d.total = c.total /\ d.write_p = c.write_p /\ d.buffer = c.buffer

LEMMA CacheFields ==
  ASSUME NEW c \in CacheType
  PROVE  /\ c.type \in CacheTypes /\ c.total \in Nat /\ c.read_p \in Nat /\ c.write_p \in Nat
         /\ c.buffer \in [0..CacheSize - 1 -> Int]
         /\ RingLevel(c) \in 0..CacheSize - 1 /\ RingLevel(c) <= c.total /\ Level(c) \in 0..c.total
         /\ c.total >= CacheSize - 1 => RingLevel(c) = CacheSize - 1
         /\ c.total < CacheSize => RingLevel(c) = c.total
BY BoundsAreNat DEF CacheType, RingLevel, Level

LEMMA HoldsSame ==
  ASSUME NEW c \in CacheType, NEW d \in CacheType, SameData(c, d), Holds(c)
  PROVE  Holds(d) /\ Level(d) = Level(c) /\ RingLevel(d) = RingLevel(c)
BY DEF SameData, Holds, RingHolds, Dist, IsFile, Level, RingLevel

LEMMA NewCacheHolds ==
  ASSUME NEW type \in CacheTypes
  PROVE  NewCache(type) \in CacheType /\ NewCache(type).total = 0 /\ Holds(NewCache(type))
<1> DEFINE c == NewCache(type)
<1>1. c \in CacheType /\ c.total = 0 /\ c.write_p = 0
  BY DEF NewCache, CacheType, Garbage
<1>2. 0 % CacheSize = 0
  BY BoundsAreNat, DivModUnique
<1>3. \A i \in 0..CacheSize - 1 : ~(c.total >= Dist(c, i))
  BY <1>1, BoundsAreNat DEF Dist
<1> QED BY <1>1, <1>2, <1>3 DEF Holds, RingHolds

\* The slot of a byte that is kept.
LEMMA SlotOf ==
  ASSUME NEW c \in CacheType, RingHolds(c), NEW offset \in Nat,
         offset < c.total, offset >= c.total - (CacheSize - 1)
  PROVE  /\ (offset % CacheSize) \in 0..CacheSize - 1
         /\ Dist(c, offset % CacheSize) = c.total - offset /\ (offset % CacheSize) # c.write_p
<1> DEFINE k == c.total - offset
           r == offset % CacheSize
<1>1. k \in Nat /\ k >= 1 /\ k <= CacheSize - 1 /\ offset + k = c.total
  BY SMTT(30), CacheFields, BoundsAreNat
<1>2. r \in 0..CacheSize - 1 /\ CacheSize \in Nat /\ CacheSize > 0
  BY BoundsAreNat, DivMod
<1>3. c.write_p = (offset + k) % CacheSize
  BY <1>1 DEF RingHolds
<1> HIDE DEF k
<1>4. IF r + k < CacheSize THEN c.write_p = r + k ELSE c.write_p = r + k - CacheSize
  <2>1. CASE r + k < CacheSize
    <3>1. (offset + k) % CacheSize = r + k
      BY <1>1, <1>2, <2>1, ModWithin
    <3> QED BY <1>3, <2>1, <3>1
  <2>2. CASE ~(r + k < CacheSize)
    <3>1. r + k >= CacheSize /\ k <= CacheSize
      BY <1>1, <1>2, <2>2
    <3>2. (offset + k) % CacheSize = r + k - CacheSize
      BY <1>1, <1>2, <3>1, ModAcross
    <3> QED BY <1>3, <2>2, <3>2
  <2> QED BY <2>1, <2>2
<1> HIDE DEF r
<1>5. Dist(c, r) = k /\ r # c.write_p
  BY <1>1, <1>2, <1>4 DEF Dist
<1> QED BY <1>2, <1>5 DEF k, r

\* The fields of a cache, named once for the steps below.
LEMMA ReaderMoved ==
  ASSUME NEW c \in CacheType, NEW p \in Nat, Holds(c)
  PROVE  LET d == [c EXCEPT !.read_p = p] IN
         /\ d \in CacheType /\ SameData(c, d) /\ Holds(d) /\ d.read_p = p
         /\ IsFile(d) = IsFile(c) /\ Dist(d, p) = Dist(c, p) /\ RingLevel(d) = RingLevel(c)
<1> DEFINE d == [c EXCEPT !.read_p = p]
<1>1. d \in CacheType /\ SameData(c, d) /\ d.read_p = p
  BY DEF CacheType, SameData
<1> HIDE DEF d
<1>2. Holds(d) /\ RingLevel(d) = RingLevel(c)
  BY <1>1, HoldsSame
<1>3. IsFile(d) = IsFile(c) /\ Dist(d, p) = Dist(c, p)
  BY <1>1 DEF SameData, IsFile, Dist
<1> QED BY <1>1, <1>2, <1>3 DEF d

LEMMA RingFields ==
  ASSUME NEW c \in CacheType, Holds(c), ~IsFile(c)
  PROVE  /\ RingHolds(c) /\ c.write_p \in 0..CacheSize - 1 /\ Level(c) = RingLevel(c)
         /\ c.type = "ring"
<1>1. c.total \in Nat /\ c.type \in CacheTypes /\ CacheSize \in Nat /\ CacheSize > 0
  BY CacheFields, BoundsAreNat
<1>2. RingHolds(c) /\ c.write_p = c.total % CacheSize /\ Level(c) = RingLevel(c)
  BY DEF Holds, RingHolds, Level
<1>3. (c.total % CacheSize) \in 0..CacheSize - 1
  BY <1>1, DivMod
<1> QED BY <1>1, <1>2, <1>3 DEF CacheTypes, IsFile

\* cache.c, set_offset: the reader is at the offset if it is kept, at the end
\* if it is beyond, and at the oldest byte if it is gone.
LEMMA OffsetSet ==
  ASSUME NEW c \in CacheType, Holds(c), NEW offset \in Nat
  PROVE  LET d == SetOffset(c, offset) IN
         /\ d \in CacheType /\ SameData(c, d) /\ Holds(d) /\ InRing(d)
         /\ CursorOf(d) = IF offset >= c.total THEN c.total
                          ELSE IF offset < c.total - Level(c) THEN c.total - Level(c) ELSE offset
<1> DEFINE d == SetOffset(c, offset)
<1>0. /\ c.total \in Nat /\ RingLevel(c) \in 0..CacheSize - 1 /\ RingLevel(c) <= c.total
      /\ c.total >= CacheSize - 1 => RingLevel(c) = CacheSize - 1
      /\ c.total < CacheSize => RingLevel(c) = c.total
      /\ CacheSize \in Nat /\ CacheSize > 1
  BY CacheFields, BoundsAreNat
<1>1. CASE IsFile(c)
  <2>1. d = [c EXCEPT !.read_p = offset]
    BY <1>1 DEF SetOffset
  <2>2. /\ d \in CacheType /\ SameData(c, d) /\ d.read_p = offset /\ Holds(d)
        /\ IsFile(d) /\ Level(c) = c.total /\ d.total = c.total
    BY <1>1, <2>1, ReaderMoved DEF Level, SameData
  <2> HIDE DEF d
  <2>3. CursorOf(d) = Least(offset, c.total) /\ InRing(d)
    BY <2>2 DEF CursorOf, InRing
  <2>4. Least(offset, c.total) = IF offset >= c.total THEN c.total
                          ELSE IF offset < c.total - Level(c) THEN c.total - Level(c) ELSE offset
    BY <1>0, <2>2 DEF Least
  <2> QED BY <2>2, <2>3, <2>4 DEF d
<1>2. CASE ~IsFile(c)
  <2> DEFINE p == IF offset >= c.total THEN c.write_p
                  ELSE IF offset < c.total - RingLevel(c) THEN Oldest(c)
                  ELSE offset % CacheSize
  <2>1. d = [c EXCEPT !.read_p = p]
    BY <1>2 DEF SetOffset, RingSetOffset
  <2>2. RingHolds(c) /\ c.write_p \in 0..CacheSize - 1 /\ Level(c) = RingLevel(c)
    BY <1>2, RingFields
  <2>3. /\ p \in 0..CacheSize - 1
        /\ p = c.write_p \/ Dist(c, p) <= RingLevel(c)
        /\ (IF p = c.write_p THEN c.total ELSE c.total - Dist(c, p)) =
             IF offset >= c.total THEN c.total
             ELSE IF offset < c.total - RingLevel(c) THEN c.total - RingLevel(c) ELSE offset
    <3>1. CASE offset >= c.total
      BY <2>2, <3>1
    <3>2. CASE offset < c.total - RingLevel(c)
      <4>1. RingLevel(c) = CacheSize - 1 /\ ~(offset >= c.total)
        BY <1>0, <3>2
      <4>2. Oldest(c) \in 0..CacheSize - 1 /\ Oldest(c) # c.write_p /\ Dist(c, Oldest(c)) = CacheSize - 1
        BY <1>0, <2>2 DEF Oldest, Dist
      <4>3. p = Oldest(c)
        BY <3>2, <4>1
      <4> HIDE DEF p, d
      <4> QED BY <1>0, <3>2, <4>1, <4>2, <4>3
    <3>3. CASE offset < c.total /\ ~(offset < c.total - RingLevel(c))
      <4>1. p = offset % CacheSize /\ offset >= c.total - (CacheSize - 1) /\ ~(offset >= c.total)
        BY <1>0, <3>3
      <4>2. (offset % CacheSize) \in 0..CacheSize - 1 /\ (offset % CacheSize) # c.write_p
            /\ Dist(c, offset % CacheSize) = c.total - offset
        BY <2>2, <3>3, <4>1, SlotOf
      <4>3. p \in 0..CacheSize - 1 /\ Dist(c, p) = c.total - offset /\ p # c.write_p
        BY <4>1, <4>2
      <4> HIDE DEF p
      <4> QED BY <1>0, <3>3, <4>1, <4>3
    <3> QED BY <1>0, <3>1, <3>2, <3>3
  <2> HIDE DEF p
  <2>4. /\ d \in CacheType /\ SameData(c, d) /\ d.read_p = p /\ Holds(d)
        /\ ~IsFile(d) /\ RingLevel(d) = RingLevel(c) /\ Dist(d, p) = Dist(c, p)
    <3>1. p \in Nat
      BY <1>0, <2>3
    <3> HIDE DEF d
    <3> QED BY <1>2, <2>1, <3>1, ReaderMoved
  <2> HIDE DEF d
  <2>5. d.write_p = c.write_p /\ d.total = c.total
    BY <2>4 DEF SameData
  <2>6. InRing(d)
    BY <2>3, <2>4, <2>5 DEF InRing
  <2>7. CursorOf(d) = IF p = c.write_p THEN c.total ELSE c.total - Dist(c, p)
    BY <2>4, <2>5 DEF CursorOf
  <2> QED BY <2>2, <2>3, <2>4, <2>6, <2>7 DEF d
<1> QED BY <1>1, <1>2

\* read_inner: the bytes from the reader on, at most `size`, and none only at
\* the end.
LEMMA InnerRead ==
  ASSUME NEW c \in CacheType, Holds(c), InRing(c), NEW size \in Nat, size > 0
  PROVE  LET r == ReadInner(c, size)
             from == CursorOf(c) IN
         /\ r.cache \in CacheType /\ SameData(c, r.cache) /\ Holds(r.cache) /\ InRing(r.cache)
         /\ from \in 0..c.total
         /\ \E n \in 0..size :
              /\ r.data = [i \in 1..n |-> from + i - 1]
              /\ CursorOf(r.cache) = from + n /\ from + n <= c.total
              /\ n = 0 => from = c.total
<1> DEFINE r == ReadInner(c, size)
           from == CursorOf(c)
           d == r.cache
<1>0. /\ c.total \in Nat /\ c.read_p \in Nat /\ CacheSize \in Nat /\ CacheSize > 1
      /\ RingLevel(c) \in 0..CacheSize - 1 /\ RingLevel(c) <= c.total
  BY CacheFields, BoundsAreNat
<1>1. CASE IsFile(c)
  <2> DEFINE n == Least(Least(size, c.total), IF c.read_p < c.total THEN c.total - c.read_p ELSE 0)
  <2>1. n \in 0..size /\ n = (IF c.read_p < c.total THEN Least(size, c.total - c.read_p) ELSE 0)
    BY <1>0 DEF Least
  <2>2. /\ r.data = [i \in 1..n |-> c.read_p + i - 1]
        /\ d = [c EXCEPT !.read_p = c.read_p + n]
    BY <1>1 DEF ReadInner, FileReadInner
  <2> HIDE DEF n, d, r
  <2>3. d \in CacheType /\ SameData(c, d) /\ Holds(d) /\ d.read_p = c.read_p + n /\ IsFile(d)
    <3>1. c.read_p + n \in Nat
      BY <1>0, <2>1
    <3> QED BY <1>1, <2>2, <3>1, ReaderMoved
  <2>4. d.total = c.total
    BY <2>3 DEF SameData
  <2>5. from = Least(c.read_p, c.total) /\ CursorOf(d) = Least(c.read_p + n, c.total) /\ InRing(d)
    BY <1>1, <2>3, <2>4 DEF CursorOf, InRing
  <2> HIDE DEF from
  <2>6. /\ from \in 0..c.total /\ CursorOf(d) = from + n /\ from + n <= c.total
        /\ n = 0 => from = c.total
        /\ n # 0 => from = c.read_p
    BY <1>0, <2>1, <2>5 DEF Least
  <2>7. r.data = [i \in 1..n |-> from + i - 1]
    <3>1. CASE n = 0
      <4>1. 1..n = {}
        BY <3>1
      <4>2. [i \in 1..n |-> c.read_p + i - 1] = [i \in 1..n |-> from + i - 1]
        BY <4>1
      <4> QED BY <2>2, <4>2
    <3>2. CASE n # 0
      BY <2>2, <2>6, <3>2
    <3> QED BY <3>1, <3>2
  <2> QED BY <2>1, <2>3, <2>5, <2>6, <2>7 DEF d, r, from
<1>2. CASE ~IsFile(c)
  <2> DEFINE n == Least(Least(size, RingPending(c)), CacheSize - c.read_p)
             p == Wrapped(c.read_p + n)
  <2>1. /\ RingHolds(c) /\ c.write_p \in 0..CacheSize - 1 /\ c.read_p \in 0..CacheSize - 1
        /\ c.read_p = c.write_p \/ Dist(c, c.read_p) <= RingLevel(c)
    BY <1>2, RingFields DEF InRing
  <2>2. /\ n \in 0..size /\ c.read_p + n <= CacheSize
        /\ n = 0 <=> c.read_p = c.write_p
        /\ c.read_p # c.write_p => n <= Dist(c, c.read_p)
    BY <1>0, <2>1 DEF RingPending, Least, Dist
  <2>3. /\ r.data = [i \in 1..n |-> c.buffer[c.read_p + i - 1]]
        /\ d = [c EXCEPT !.read_p = p]
    BY <1>2 DEF ReadInner, RingReadInner
  <2>4. from = IF c.read_p = c.write_p THEN c.total ELSE c.total - Dist(c, c.read_p)
    BY <1>2 DEF CursorOf
  <2> HIDE DEF n, d, r, from
  <2>5. Dist(c, c.read_p) \in Nat /\ from \in 0..c.total
    BY <1>0, <2>1, <2>4 DEF Dist
  <2>6. \A i \in 1..n : c.buffer[c.read_p + i - 1] = from + i - 1
    <3> SUFFICES ASSUME NEW i \in 1..n PROVE c.buffer[c.read_p + i - 1] = from + i - 1
      OBVIOUS
    <3> DEFINE j == c.read_p + i - 1
    <3>1. c.read_p # c.write_p /\ j \in 0..CacheSize - 1 /\ Dist(c, j) = Dist(c, c.read_p) - (i - 1)
      BY <1>0, <2>1, <2>2 DEF Dist
    <3> HIDE DEF j
    <3>2. c.total >= Dist(c, j) /\ from = c.total - Dist(c, c.read_p)
      BY <1>0, <2>1, <2>2, <2>4, <2>5, <3>1
    <3>3. c.buffer[j] = c.total - Dist(c, j)
      BY <2>1, <3>1, <3>2 DEF RingHolds
    <3>4. c.buffer[j] = from + i - 1
      BY <1>0, <2>2, <2>5, <3>1, <3>2, <3>3
    <3> QED BY <3>4 DEF j
  <2>7. r.data = [i \in 1..n |-> from + i - 1]
    BY <2>3, <2>6
  <2>8. /\ p \in 0..CacheSize - 1
        /\ p = c.write_p \/ Dist(c, p) <= RingLevel(c)
        /\ (IF p = c.write_p THEN c.total ELSE c.total - Dist(c, p)) = from + n
        /\ from + n <= c.total
    BY <1>0, <2>1, <2>2, <2>4 DEF Wrapped, Dist
  <2> HIDE DEF p
  <2>9. /\ d \in CacheType /\ SameData(c, d) /\ Holds(d) /\ d.read_p = p
        /\ ~IsFile(d) /\ RingLevel(d) = RingLevel(c) /\ Dist(d, p) = Dist(c, p)
    <3>1. p \in Nat
      BY <1>0, <2>8
    <3> QED BY <1>2, <2>3, <3>1, ReaderMoved
  <2>10. d.write_p = c.write_p /\ d.total = c.total
    BY <2>9 DEF SameData
  <2>11. InRing(d)
    BY <2>8, <2>9, <2>10 DEF InRing
  <2>12. CursorOf(d) = from + n
    BY <2>8, <2>9, <2>10 DEF CursorOf
  <2>13. n = 0 => from = c.total
    BY <2>2, <2>4
  <2> QED BY <2>2, <2>5, <2>7, <2>8, <2>9, <2>11, <2>12, <2>13 DEF r, from, d
<1> QED BY <1>1, <1>2

LEMMA WrappedPast ==
  ASSUME NEW w \in Nat, NEW n \in Nat, w < CacheSize
  PROVE  /\ Wrapped(w + n) = IF w + n >= CacheSize THEN w + n - CacheSize ELSE w + n
         /\ Wrapped(w + n) \in Nat
BY BoundsAreNat DEF Wrapped

\* write, in the ring: k slots after write_p are written, and come to lie
\* n - k before the new one.
LEMMA RingWritten ==
  ASSUME NEW c \in CacheType, Holds(c), ~IsFile(c), NEW n \in Nat, n <= CacheSize,
         NEW e \in CacheType, e.total = c.total + n, e.write_p = Wrapped(c.write_p + n),
         \A i \in 0..CacheSize - 1 :
           e.buffer[i] = IF ((i - c.write_p) % CacheSize) < n
                         THEN c.total + ((i - c.write_p) % CacheSize) ELSE c.buffer[i]
  PROVE  RingHolds(e) /\ e.write_p \in 0..CacheSize - 1
<1> DEFINE w == c.write_p
           k(i) == (i - w) % CacheSize
<1>1. RingHolds(c) /\ w \in 0..CacheSize - 1 /\ w = c.total % CacheSize
  BY RingFields DEF RingHolds
<1>2. c.total \in Nat /\ CacheSize \in Nat /\ CacheSize > 1
  BY CacheFields, BoundsAreNat
<1>3. ASSUME NEW i \in 0..CacheSize - 1
      PROVE  k(i) \in 0..CacheSize - 1 /\ k(i) = IF i >= w THEN i - w ELSE i - w + CacheSize
  <2> HIDE DEF w
  <2>1. CacheSize > 0
    BY <1>2
  <2> QED BY <1>1, <1>2, <2>1, Turn
<1>4. \A i \in 0..CacheSize - 1 : e.buffer[i] = IF k(i) < n THEN c.total + k(i) ELSE c.buffer[i]
  OBVIOUS
<1> HIDE DEF k
<1>5. e.write_p = IF w + n >= CacheSize THEN w + n - CacheSize ELSE w + n
  <2>1. e.write_p = Wrapped(w + n) /\ w \in Nat /\ w < CacheSize
    BY <1>1, <1>2
  <2> HIDE DEF w
  <2> QED BY <2>1, WrappedPast
<1> HIDE DEF w
<1>6. e.write_p \in 0..CacheSize - 1 /\ e.write_p = e.total % CacheSize
  <2>1. CASE w + n < CacheSize
    <3>1. (c.total + n) % CacheSize = w + n
      BY <1>1, <1>2, <2>1, ModWithin
    <3> QED BY <1>1, <1>2, <1>5, <2>1, <3>1
  <2>2. CASE ~(w + n < CacheSize)
    <3>1. (c.total % CacheSize) + n >= CacheSize /\ CacheSize > 0
      BY <1>1, <1>2, <2>2
    <3>2. (c.total + n) % CacheSize = w + n - CacheSize
      BY <1>1, <1>2, <3>1, ModAcross
    <3> QED BY <1>1, <1>2, <1>5, <2>2, <3>2
  <2> QED BY <2>1, <2>2
<1>7. ASSUME NEW i \in 0..CacheSize - 1, e.total >= Dist(e, i)
      PROVE  e.buffer[i] = e.total - Dist(e, i)
  <2>1. Dist(e, i) = IF i < e.write_p THEN e.write_p - i ELSE e.write_p + CacheSize - i
    BY DEF Dist
  <2>2. k(i) \in 0..CacheSize - 1 /\ k(i) = IF i >= w THEN i - w ELSE i - w + CacheSize
    BY <1>3
  <2>3. CASE k(i) < n
    <3>1. Dist(e, i) = n - k(i)
      BY <1>1, <1>2, <1>5, <2>1, <2>2, <2>3
    <3>2. e.buffer[i] = c.total + k(i)
      BY <1>4, <2>3
    <3> QED BY <1>2, <2>2, <3>1, <3>2
  <2>4. CASE ~(k(i) < n)
    <3>1. Dist(c, i) = IF i < w THEN w - i ELSE w + CacheSize - i
      BY DEF Dist, w
    <3>2. Dist(e, i) = n + Dist(c, i) /\ Dist(c, i) \in Int
      BY <1>1, <1>2, <1>5, <2>1, <2>2, <2>4, <3>1
    <3>3. c.total >= Dist(c, i)
      BY <1>2, <1>7, <3>2
    <3>4. c.buffer[i] = c.total - Dist(c, i)
      BY <1>1, <3>3 DEF RingHolds
    <3>5. e.buffer[i] = c.buffer[i]
      BY <1>4, <2>4
    <3> QED BY <1>2, <3>2, <3>4, <3>5
  <2> QED BY <2>3, <2>4
<1> QED BY <1>6, <1>7 DEF RingHolds

\* write: the bytes that follow the last.
LEMMA Written ==
  ASSUME NEW c \in CacheType, Holds(c), NEW n \in 1..CacheSize,
         NEW src, src = [i \in 1..n |-> c.total + i - 1]
  PROVE  LET d == Write(c, src) IN
         d \in CacheType /\ d.total = c.total + n /\ Holds(d)
<1> DEFINE d == Write(c, src)
<1> HIDE DEF d
<1>0. /\ c.total \in Nat /\ CacheSize \in Nat /\ CacheSize > 1 /\ n \in Nat /\ c.write_p \in Nat
      /\ c.buffer \in [0..CacheSize - 1 -> Int] /\ n <= CacheSize
  BY CacheFields, BoundsAreNat
<1>1. Len(src) = n /\ \A k \in 0..n - 1 : src[k + 1] = c.total + k
  BY <1>0
<1>2. CASE IsFile(c)
  <2>0. d = [c EXCEPT !.total = c.total + Len(src)]
    BY <1>2 DEF Write, d
  <2>1. d = [c EXCEPT !.total = c.total + n]
    BY <1>1, <2>0
  <2>2. d \in CacheType /\ d.total = c.total + n /\ d.type = c.type
    <3>1. c.total + n \in Nat
      BY <1>0
    <3> QED BY <2>1, <3>1 DEF CacheType
  <2>3. Holds(d)
    BY <1>2, <2>2 DEF Holds, IsFile
  <2> QED BY <2>2, <2>3 DEF d
<1>3. CASE ~IsFile(c)
  <2> DEFINE w == Wrapped(c.write_p + Len(src))
             k(i) == (i - c.write_p) % CacheSize
             b == [i \in 0..CacheSize - 1 |-> IF k(i) < Len(src) THEN src[k(i) + 1] ELSE c.buffer[i]]
             e == [c EXCEPT !.buffer = b, !.write_p = w, !.total = c.total + Len(src)]
  <2>1. d = IF RingLevel(e) = CacheSize - 1 THEN [e EXCEPT !.read_p = e.write_p + 1] ELSE e
    BY <1>3, Zenon DEF Write, RingWrite, d
  <2>2. c.write_p \in 0..CacheSize - 1
    BY <1>3, RingFields
  <2>3. w \in Nat /\ w = Wrapped(c.write_p + n)
    <3>1. w = Wrapped(c.write_p + n)
      BY <1>1
    <3> HIDE DEF w
    <3>2. c.write_p \in Nat /\ c.write_p < CacheSize
      BY <1>0, <2>2
    <3> QED BY <1>0, <3>1, <3>2, WrappedPast
  <2>4. ASSUME NEW i \in 0..CacheSize - 1 PROVE k(i) \in 0..CacheSize - 1
    <3> DEFINE p == c.write_p
    <3>1. p \in 0..CacheSize - 1 /\ CacheSize > 0
      BY <1>0, <2>2
    <3> HIDE DEF p
    <3>2. ((i - p) % CacheSize) \in 0..CacheSize - 1
      BY <1>0, <3>1, Turn
    <3> QED BY <3>2 DEF p
  <2>5. /\ \A i \in 0..CacheSize - 1 : b[i] = IF k(i) < Len(src) THEN src[k(i) + 1] ELSE c.buffer[i]
        /\ b = [i \in 0..CacheSize - 1 |-> b[i]]
    OBVIOUS
  <2> HIDE DEF b
  <2>6. ASSUME NEW i \in 0..CacheSize - 1
        PROVE  b[i] = IF k(i) < n THEN c.total + k(i) ELSE c.buffer[i]
    <3>1. k(i) \in 0..CacheSize - 1 /\ b[i] = IF k(i) < n THEN src[k(i) + 1] ELSE c.buffer[i]
      BY <1>1, <2>4, <2>5
    <3> DEFINE m == k(i)
    <3> HIDE DEF k, m
    <3>2. m < n => m \in 0..n - 1
      BY <1>0, <3>1 DEF m
    <3>3. m < n => src[m + 1] = c.total + m
      BY <1>1, <3>2
    <3> QED BY <3>1, <3>3 DEF m
  <2>7. b \in [0..CacheSize - 1 -> Int]
    <3>1. ASSUME NEW i \in 0..CacheSize - 1 PROVE b[i] \in Int
      <4>1. k(i) \in 0..CacheSize - 1 /\ b[i] = IF k(i) < n THEN c.total + k(i) ELSE c.buffer[i]
        BY <2>4, <2>6
      <4> HIDE DEF k
      <4> QED BY <1>0, <4>1
    <3> QED BY <2>5, <3>1
  <2> HIDE DEF w
  <2>8. e \in CacheType /\ e.total = c.total + n /\ e.write_p = w /\ e.buffer = b /\ e.type = c.type
    <3>1. c.total + n \in Nat /\ e = [c EXCEPT !.buffer = b, !.write_p = w, !.total = c.total + n]
      BY <1>0, <1>1
    <3> HIDE DEF e
    <3> QED BY <2>3, <2>7, <3>1 DEF CacheType
  <2> HIDE DEF e
  <2>9. RingHolds(e) /\ ~IsFile(e)
    <3>1. ~IsFile(e) /\ e.write_p = Wrapped(c.write_p + n)
      BY <1>3, <2>3, <2>8 DEF IsFile
    <3>2. \A i \in 0..CacheSize - 1 : e.buffer[i] = IF k(i) < n THEN c.total + k(i) ELSE c.buffer[i]
      BY <2>6, <2>8
    <3> QED BY <1>0, <1>3, <2>8, <3>1, <3>2, RingWritten
  <2>10. /\ d \in CacheType /\ d.total = e.total /\ d.write_p = e.write_p
         /\ d.buffer = e.buffer /\ d.type = e.type
    <3>1. e.write_p + 1 \in Nat
      BY <2>3, <2>8
    <3> QED BY <2>1, <2>8, <3>1 DEF CacheType
  <2>11. RingHolds(d)
    BY <2>9, <2>10 DEF RingHolds, Dist
  <2> QED BY <2>8, <2>10, <2>11 DEF Holds, d
<1> QED BY <1>2, <1>3

-----------------------------------------------------------------------------
\* What a connection is given: the bytes of the track from one on, with
\* metadata after every Interval of them if it asked for them.
MarkAt(b, i) == b /\ i % (Interval + 1) = 0

Count(b, i) == IF b THEN i - (i \div (Interval + 1)) ELSE i

TokenAt(b, from, i) == IF MarkAt(b, i) THEN Meta ELSE from + Count(b, i) - 1

StreamOK(g, n, b, from, size) == \A i \in 1..n : g[i] = TokenAt(b, from, i) /\ g[i] < size

\* The first n tokens of g are such a stream, up to the byte at the cursor, and
\* so many bytes remain to the metadata.
Stream(g, n, b, from, size, cursor, remain) ==
  /\ StreamOK(g, n, b, from, size)
  /\ from + Count(b, n) = cursor
  /\ b => remain = Interval - (n % (Interval + 1))

WithMark(d, b, remain) == IF b /\ Len(d) = remain THEN Append(d, Meta) ELSE d

RemainAfter(k, remain) == IF k = remain THEN Interval ELSE remain - k

\* No metadata come before the end of the interval.
LEMMA NoMark ==
  ASSUME NEW b \in BOOLEAN, NEW a \in Nat, NEW j \in Nat, b => (a % (Interval + 1)) + j <= Interval
  PROVE  /\ Count(b, a + j) = Count(b, a) + j /\ (j > 0 => ~MarkAt(b, a + j))
         /\ b => ((a + j) % (Interval + 1)) = (a % (Interval + 1)) + j
<1> DEFINE N == Interval + 1
<1>1. N \in Nat /\ N > 0 /\ Interval \in Nat /\ N = Interval + 1
  BY BoundsAreNat
<1>2. CASE b
  <2> HIDE DEF N
  <2>1. (a % N) + j <= Interval
    BY <1>2 DEF N
  <2>2. (a % N) \in 0..N - 1 /\ a \div N \in Int
    BY <1>1, DivMod
  <2>3. (a % N) + j < N
    BY <1>1, <2>1, <2>2
  <2>4. (a + j) % N = (a % N) + j /\ (a + j) \div N = a \div N
    BY <1>1, <2>3, ModWithin
  <2>5. j > 0 => (a + j) % N # 0
    BY <2>2, <2>4
  <2>6. Count(b, a) = a - (a \div N) /\ Count(b, a + j) = (a + j) - ((a + j) \div N)
    BY <1>2 DEF Count, N
  <2>7. Count(b, a + j) = Count(b, a) + j
    BY <2>2, <2>4, <2>6
  <2> QED BY <2>4, <2>5, <2>7 DEF MarkAt, N
<1>3. CASE ~b
  BY <1>3 DEF Count, MarkAt
<1> QED BY <1>2, <1>3

\* And they come at its end.
LEMMA AMark ==
  ASSUME NEW a \in Nat, a % (Interval + 1) = Interval
  PROVE  /\ MarkAt(TRUE, a + 1) /\ Count(TRUE, a + 1) = Count(TRUE, a)
         /\ (a + 1) % (Interval + 1) = 0
<1> DEFINE N == Interval + 1
<1>1. N \in Nat /\ N > 1 /\ Interval \in Nat /\ N = Interval + 1
  BY BoundsAreNat
<1> HIDE DEF N
<1>2. (a % N) + 1 >= N /\ a % N = N - 1 /\ 1 <= N
  BY <1>1 DEF N
<1>3. (a + 1) % N = (a % N) + 1 - N /\ (a + 1) \div N = a \div N + 1 /\ a \div N \in Int
  BY <1>1, <1>2, ModAcross, DivMod
<1>4. (a + 1) % N = 0 /\ (a + 1) - ((a + 1) \div N) = a - (a \div N)
  BY <1>1, <1>2, <1>3
<1> QED BY <1>4 DEF MarkAt, Count, N

LEMMA CountIsInt ==
  ASSUME NEW b \in BOOLEAN, NEW a \in Nat
  PROVE  Count(b, a) \in Int /\ Count(b, 0) = 0
<1> DEFINE N == Interval + 1
<1>1. N \in Nat /\ N > 0
  BY BoundsAreNat
<1> HIDE DEF N
<1>2. a \div N \in Int /\ 0 \div N = 0
  <2>1. 0 = N * 0 + 0 /\ 0 \in 0..N - 1
    BY <1>1
  <2>2. 0 \div N = 0
    BY <1>1, <2>1, DivModUnique
  <2> QED BY <1>1, <2>2, DivMod
<1> QED BY <1>2 DEF Count, N

LEMMA LenOfBoth ==
  ASSUME NEW T, NEW s \in Seq(T), NEW t \in Seq(T)
  PROVE  s \o t \in Seq(T) /\ Len(s \o t) = Len(s) + Len(t)
OBVIOUS

\* send_with_icy: a block of bytes, and metadata when it ends the interval.
LEMMA Continues ==
  ASSUME NEW b \in BOOLEAN, NEW from \in Nat, NEW size \in Nat, NEW cursor \in Nat,
         NEW g \in Seq(Tokens), NEW remain \in Nat,
         Stream(g, Len(g), b, from, size, cursor, remain),
         NEW k \in Nat, k # 0, b => k <= remain, cursor + k <= size,
         NEW d \in Seq(Tokens), Len(d) = k, \A j \in 1..k : d[j] = cursor + j - 1,
         NEW h, h = g \o WithMark(d, b, remain)
  PROVE  Stream(h, Len(h), b, from, size, cursor + k, RemainAfter(k, remain))
<1> DEFINE a == Len(g)
           N == Interval + 1
           r == a % N
           c == Count(b, a)
<1>1. a \in Nat /\ Interval \in Nat /\ N \in Nat /\ N > 0 /\ r \in 0..N - 1 /\ c \in Int
      /\ N = Interval + 1 /\ from + c = cursor /\ (b => remain = Interval - r)
  <2>1. a \in Nat /\ Interval \in Nat /\ N \in Nat /\ N > 0 /\ N = Interval + 1
    BY BoundsAreNat
  <2>2. from + c = cursor /\ (b => remain = Interval - r)
    BY DEF Stream
  <2>3. c \in Int
    <3> HIDE DEF a
    <3> QED BY <2>1, CountIsInt
  <2> HIDE DEF a, N
  <2>4. r \in 0..N - 1
    BY <2>1, DivMod
  <2> QED BY <2>1, <2>2, <2>3, <2>4
<1>2. /\ a = Len(g) /\ \A i \in 1..a : g[i] = TokenAt(b, from, i) /\ g[i] < size
  BY DEF StreamOK, Stream
<1>3. ASSUME NEW j \in 0..k
      PROVE  /\ Count(b, a + j) = c + j /\ (j > 0 => ~MarkAt(b, a + j))
             /\ b => ((a + j) % N) = r + j
  <2> HIDE DEF a
  <2>1. j \in Nat /\ (b => (a % (Interval + 1)) + j <= Interval)
    <3> HIDE DEF r, N
    <3>1. j \in Nat /\ (b => r + j <= Interval)
      BY <1>1
    <3> QED BY <3>1 DEF r, N
  <2> QED BY <1>1, <2>1, NoMark
<1> HIDE DEF a, N, r, c
<1>4. ASSUME NEW e \in Seq(Tokens), Len(e) >= k, \A j \in 1..k : e[j] = d[j],
             NEW i \in 1..a + k
      PROVE  (g \o e)[i] = TokenAt(b, from, i) /\ (g \o e)[i] < size
  <2>1. CASE i <= a
    <3>1. i \in 1..a /\ (g \o e)[i] = g[i]
      BY <1>1, <1>2, <1>4, <2>1
    <3> QED BY <1>2, <3>1
  <2>2. CASE ~(i <= a)
    <3> DEFINE j == i - a
    <3>1. j \in 1..k /\ i = a + j /\ j \in 0..k
      BY <1>1, <2>2
    <3>2. (g \o e)[i] = e[j]
      BY <1>1, <1>2, <1>4, <2>2, <3>1
    <3> HIDE DEF j
    <3>3. e[j] = cursor + j - 1
      BY <1>4, <3>1
    <3>4. TokenAt(b, from, a + j) = from + (c + j) - 1
      <4>1. ~MarkAt(b, a + j) /\ Count(b, a + j) = c + j
        BY <1>3, <3>1
      <4> QED BY <4>1 DEF TokenAt
    <3>5. from + (c + j) - 1 = cursor + j - 1 /\ cursor + j - 1 < size
      BY <1>1, <3>1
    <3> QED BY <3>1, <3>2, <3>3, <3>4, <3>5
  <2> QED BY <2>1, <2>2
<1>5. Count(b, a + k) = c + k /\ (b => ((a + k) % N) = r + k)
  BY <1>3
<1>6. CASE b /\ k = remain
  <2> DEFINE e == Append(d, Meta)
  <2>0. h = g \o e
    BY <1>6 DEF WithMark
  <2>1. e \in Seq(Tokens) /\ Len(e) = k + 1 /\ e[k + 1] = Meta /\ \A j \in 1..k : e[j] = d[j]
    BY DEF Tokens
  <2>2. Len(e) >= k
    BY <2>1
  <2> HIDE DEF e
  <2>3. Len(h) = (a + k) + 1 /\ h[(a + k) + 1] = Meta
    <3>1. Len(h) = a + (k + 1)
      <4>1. e \in Seq(Tokens)
        BY <2>1
      <4>2. Len(g \o e) = Len(g) + Len(e)
        BY <4>1
      <4>3. Len(h) = Len(g) + Len(e)
        BY <2>0, <4>2
      <4> QED BY <1>2, <2>1, <4>3
    <3>2. h[a + (k + 1)] = e[k + 1]
      BY <1>1, <1>2, <2>0, <2>1
    <3>3. a + (k + 1) = (a + k) + 1
      BY <1>1
    <3> QED BY <2>1, <3>1, <3>2, <3>3
  <2>4. (a + k) % N = Interval /\ a + k \in Nat
    BY <1>1, <1>5, <1>6
  <2>5. /\ MarkAt(b, (a + k) + 1) /\ Count(b, (a + k) + 1) = Count(b, a + k)
        /\ ((a + k) + 1) % N = 0
    <3>1. b = TRUE
      BY <1>6
    <3>2. (a + k) % (Interval + 1) = Interval
      BY <2>4 DEF N
    <3>3. /\ MarkAt(TRUE, (a + k) + 1) /\ Count(TRUE, (a + k) + 1) = Count(TRUE, a + k)
          /\ ((a + k) + 1) % (Interval + 1) = 0
      BY <2>4, <3>2, AMark
    <3> QED BY <3>1, <3>3 DEF N
  <2>6. \A i \in 1..a + k : h[i] = TokenAt(b, from, i) /\ h[i] < size
    BY <1>4, <2>0, <2>1, <2>2
  <2>7. TokenAt(b, from, (a + k) + 1) = Meta /\ Meta < size
    BY <2>5 DEF TokenAt, Meta
  <2>8. StreamOK(h, Len(h), b, from, size)
    <3> SUFFICES ASSUME NEW i \in 1..(a + k) + 1 PROVE h[i] = TokenAt(b, from, i) /\ h[i] < size
      BY <2>3 DEF StreamOK
    <3>1. CASE i = (a + k) + 1
      BY <2>3, <2>7, <3>1
    <3>2. CASE i # (a + k) + 1
      <4>1. i \in 1..a + k
        BY <1>1, <3>2
      <4> QED BY <2>6, <4>1
    <3> QED BY <3>1, <3>2
  <2>9. from + Count(b, Len(h)) = cursor + k
    <3>1. Count(b, Len(h)) = c + k
      BY <1>5, <2>3, <2>5
    <3> QED BY <1>1, <3>1
  <2>10. Interval = Interval - (Len(h) % N)
    <3> DEFINE m == Len(h) % N
    <3>1. m = 0
      BY <2>3, <2>5
    <3> HIDE DEF m
    <3>2. Interval = Interval - m
      BY <1>1, <3>1
    <3> QED BY <3>2 DEF m
  <2> QED BY <1>6, <2>8, <2>9, <2>10 DEF Stream, RemainAfter, N
<1>7. CASE ~(b /\ k = remain)
  <2>0. h = g \o d
    BY <1>7 DEF WithMark
  <2>1. Len(h) = a + k
    <3>1. Len(g \o d) = Len(g) + Len(d)
      BY LenOfBoth, Zenon
    <3> QED BY <1>2, <2>0, <3>1
  <2>2. Len(d) >= k
    OBVIOUS
  <2>3. \A i \in 1..a + k : h[i] = TokenAt(b, from, i) /\ h[i] < size
    BY <1>4, <2>0, <2>2
  <2>4. StreamOK(h, Len(h), b, from, size)
    BY <2>1, <2>3 DEF StreamOK
  <2>5. from + Count(b, Len(h)) = cursor + k
    <3>1. Count(b, Len(h)) = c + k
      BY <1>5, <2>1
    <3> QED BY <1>1, <3>1
  <2>6. b => remain - k = Interval - (Len(h) % N)
    <3>1. b => remain = Interval - r /\ (Len(h) % N) = r + k
      BY <1>1, <1>5, <2>1
    <3> DEFINE m == Len(h) % N
    <3> HIDE DEF m
    <3>2. b => remain - k = Interval - m
      <4>1. b => remain = Interval - r /\ m = r + k
        BY <3>1 DEF m
      <4> QED BY <1>1, <4>1
    <3> QED BY <3>2 DEF m
  <2> QED BY <1>7, <2>4, <2>5, <2>6 DEF Stream, RemainAfter, N
<1> QED BY <1>6, <1>7

\* send_backlog: what is sent and what waits are, one after the other, what
\* they were, and the new data.
LEMMA CutAt ==
  ASSUME NEW T, NEW a \in Seq(T), NEW n \in 0..Len(a)
  PROVE  /\ SubSeq(a, 1, n) \in Seq(T) /\ SubSeq(a, n + 1, Len(a)) \in Seq(T)
         /\ SubSeq(a, 1, n) \o SubSeq(a, n + 1, Len(a)) = a
<1> DEFINE p == SubSeq(a, 1, n)
           q == SubSeq(a, n + 1, Len(a))
<1>1. /\ p \in Seq(T) /\ q \in Seq(T) /\ Len(p) = n /\ Len(q) = Len(a) - n /\ Len(a) \in Nat
      /\ \A i \in 1..n : p[i] = a[i]
      /\ \A i \in 1..Len(a) - n : q[i] = a[n + i]
  OBVIOUS
<1> HIDE DEF p, q
<1>2. p \o q \in Seq(T) /\ Len(p \o q) = Len(a)
  BY <1>1
<1>3. ASSUME NEW i \in 1..Len(a) PROVE (p \o q)[i] = a[i]
  <2>1. CASE i <= n
    BY <1>1, <2>1
  <2>2. CASE ~(i <= n)
    <3>1. i - n \in 1..Len(a) - n /\ n + (i - n) = i
      BY <1>1, <2>2
    <3>2. (p \o q)[i] = q[i - n]
      BY <1>1, <2>2, <3>1
    <3> QED BY <1>1, <3>1, <3>2
  <2> QED BY <2>1, <2>2
<1>4. p \o q = a
  BY <1>2, <1>3, SeqEqual
<1> QED BY <1>1, <1>4 DEF p, q

-----------------------------------------------------------------------------
\* The inductive invariant.

\* The byte that the thread takes next.
Cursor == IF thread.use_cache THEN CursorOf(cache) ELSE cache.total

\* A request was answered, and its answer goes on.
Open == thread.sock /\ thread.http_ready

\* The cache holds the last bytes that went through it; its reader is among
\* them while it is in use.
CacheOK == Holds(cache) /\ (Open /\ thread.use_cache => InRing(cache))

\* The connection, seen from both ends.
Conns ==
  /\ thread.sock <=> dev.conn \in {"open", "closed"}
  /\ thread.sock => (thread.http_ready <=> ~dev.asks)
  /\ dev.conn = "pending" => dev.asks
  /\ dev.asks => body = NoBody
  /\ thread.sock /\ dev.asks => backlog = <<>> /\ ~thread.finished
  /\ pc = "locked" => Open

\* The bytes in the cache and in obuf are those the decoder made, all of them
\* once drained.
Amounts ==
  /\ cache.total + obuf <= decode.size
  /\ ~drained => decode.made = decode.size /\ decode.state \in {"RUNNING", "ENDED"}
  /\ drained => decode.state \in {"ENDED", "STOPPED"}
  /\ drained /\ pc # "exited" => cache.total + obuf = decode.size
  /\ drained <=> output.completed

Lingers == thread.lingering \/ thread.finished => drained /\ obuf = 0

Icys == icy.active => icy.remain > 0

\* What the connection was given, sent or not, and how much of it is of the track.
Given == body.tokens \o backlog

Bytes == IF thread.finished THEN Len(Given) - 1 ELSE Len(Given)

\* The connection was given the track from a byte on, to the cursor, and the
\* count of its interval is right.
GivenIs(from) ==
  /\ body.promised \in {Unknown, from} /\ ~body.ended
  /\ icy.active = body.icy
  /\ Stream(Given, Bytes, body.icy, from, decode.size, Cursor, icy.remain)
  /\ thread.finished => /\ ~thread.use_cache /\ Given # <<>>
                        /\ Given[Len(Given)] = LastChunk /\ ~MarkAt(body.icy, Len(Given))

\* What came over it is the track from that byte on, and the last chunk.
BodyIs(from) ==
  LET n == Len(body.tokens) IN
  /\ body.promised \in {Unknown, from}
  /\ \A i \in 1..n : /\ body.tokens[i] < decode.size
                     /\ \/ body.tokens[i] = TokenAt(body.icy, from, i)
                        \/ i = n /\ body.tokens[i] = LastChunk /\ ~MarkAt(body.icy, i)
  /\ body.ended => /\ drained /\ n > 0 /\ body.tokens[n] = LastChunk
                   /\ from + Count(body.icy, n - 1) = decode.size

Whole == \E from \in Nat : BodyIs(from) /\ (Open => GivenIs(from))

IInv == TypeOK /\ CacheOK /\ Conns /\ Amounts /\ Lingers /\ Icys /\ Whole

-----------------------------------------------------------------------------
LEMMA Types ==
  ASSUME TypeOK
  PROVE  /\ cache \in CacheType /\ cache.total \in Nat /\ obuf \in Nat /\ drained \in BOOLEAN
         /\ decode.size \in Nat /\ decode.size <= Length /\ decode.made \in Nat
         /\ icy.active \in BOOLEAN /\ icy.remain \in Nat /\ icy.remain <= Interval
         /\ body.tokens \in Seq(Tokens) /\ body.icy \in BOOLEAN /\ backlog \in Seq(Tokens)
         /\ Given \in Seq(Tokens) /\ Len(Given) = Len(body.tokens) + Len(backlog)
<1>1. cache \in CacheType /\ obuf \in Nat /\ drained \in BOOLEAN /\ backlog \in Seq(Tokens)
  BY BoundsAreNat DEF TypeOK
<1>2. cache.total \in Nat
  BY <1>1, CacheFields
<1>3. decode.size \in 0..Length /\ decode.made \in 0..Length + 1
  BY DEF TypeOK, DecodeType
<1>4. icy.active \in BOOLEAN /\ icy.remain \in 0..Interval
  BY DEF TypeOK, IcyType
<1>5. body.tokens \in Seq(Tokens) /\ body.icy \in BOOLEAN
  BY DEF TypeOK, BodyType
<1>6. Given \in Seq(Tokens) /\ Len(Given) = Len(body.tokens) + Len(backlog)
  BY <1>1, <1>5 DEF Given
<1> QED BY <1>1, <1>2, <1>3, <1>4, <1>5, <1>6, BoundsAreNat

LEMMA ThreadFields ==
  ASSUME TypeOK
  PROVE  /\ thread.running \in BOOLEAN /\ thread.terminate \in BOOLEAN /\ thread.lingering \in BOOLEAN
         /\ thread.sock \in BOOLEAN /\ thread.use_cache \in BOOLEAN /\ thread.acquired \in BOOLEAN
         /\ thread.http_ready \in BOOLEAN /\ thread.finished \in BOOLEAN /\ thread.wfds \in BOOLEAN
BY DEF TypeOK, ThreadType

\* What is in flight has come, or is in the backlog.
LEMMA GivenIsBody ==
  ASSUME TypeOK, NEW from \in Nat, GivenIs(from)
  PROVE  BodyIs(from)
<1> DEFINE n == Len(body.tokens)
<1>1. n \in Nat /\ Len(Given) \in Nat /\ n <= Len(Given) /\ thread.finished \in BOOLEAN /\ decode.size \in Nat
  BY Types, ThreadFields
<1>2. \A i \in 1..n : Given[i] = body.tokens[i]
  BY Types DEF Given
<1>3. Bytes = IF thread.finished THEN Len(Given) - 1 ELSE Len(Given)
  BY DEF Bytes
<1>4. \A i \in 1..Bytes : Given[i] = TokenAt(body.icy, from, i) /\ Given[i] < decode.size
  BY DEF GivenIs, Stream, StreamOK
<1>5. thread.finished => Given[Len(Given)] = LastChunk /\ ~MarkAt(body.icy, Len(Given))
  BY DEF GivenIs
<1>6. ASSUME NEW i \in 1..n
      PROVE  /\ body.tokens[i] < decode.size
             /\ \/ body.tokens[i] = TokenAt(body.icy, from, i)
                \/ i = n /\ body.tokens[i] = LastChunk /\ ~MarkAt(body.icy, i)
  <2>1. CASE i <= Bytes
    <3>1. i \in 1..Bytes
      BY <1>1, <1>3, <2>1
    <3> QED BY <1>2, <1>4, <3>1
  <2>2. CASE ~(i <= Bytes)
    <3>1. thread.finished /\ i = Len(Given) /\ i = n
      BY <1>1, <1>3, <2>2
    <3>2. body.tokens[i] = LastChunk /\ ~MarkAt(body.icy, i)
      BY <1>2, <1>5, <3>1
    <3> QED BY <1>1, <3>1, <3>2 DEF LastChunk
  <2> QED BY <2>1, <2>2
<1>7. body.promised \in {Unknown, from} /\ ~body.ended
  BY DEF GivenIs
<1> QED BY <1>6, <1>7 DEF BodyIs

LEMMA TokensAreInt ==
  ASSUME NEW t \in Seq(Tokens), NEW i \in 1..Len(t)
  PROVE  t[i] \in Int
<1>1. Tokens \subseteq Int
  BY BoundsAreNat DEF Tokens, Meta, LastChunk, Garbage
<1>2. t[i] \in Tokens
  OBVIOUS
<1> QED BY <1>1, <1>2

\* The track only grows, and not once it is drained.
Grows ==
  /\ decode'.size \in Nat /\ decode.size <= decode'.size
  /\ drained => drained' /\ decode'.size = decode.size

LEMMA BodyGrows ==
  ASSUME TypeOK, NEW from \in Nat, BodyIs(from), Grows, body' = body
  PROVE  BodyIs(from)'
<1>1. decode.size \in Nat /\ \A i \in 1..Len(body.tokens) : body.tokens[i] \in Int
  BY Types, TokensAreInt
<1>2. \A i \in 1..Len(body.tokens) : body.tokens[i] < decode'.size
  BY <1>1 DEF BodyIs, Grows
<1>3. body.ended => drained' /\ from + Count(body.icy, Len(body.tokens) - 1) = decode'.size
  BY DEF BodyIs, Grows
<1> QED BY <1>2, <1>3 DEF BodyIs

LEMMA BodyStays ==
  ASSUME TypeOK, Whole, Grows, body' = body, ~Open'
  PROVE  Whole'
<1>1. PICK from \in Nat : BodyIs(from)
  BY DEF Whole
<1>2. BodyIs(from)'
  BY <1>1, BodyGrows
<1> QED BY <1>2 DEF Whole

LEMMA WholeStays ==
  ASSUME TypeOK, Whole, Grows, body' = body, backlog' = backlog, cache' = cache, icy' = icy,
         thread'.sock = thread.sock, thread'.http_ready = thread.http_ready,
         thread'.use_cache = thread.use_cache, thread'.finished = thread.finished
  PROVE  Whole'
<1>1. PICK from \in Nat : BodyIs(from) /\ (Open => GivenIs(from))
  BY DEF Whole
<1>2. BodyIs(from)'
  BY <1>1, BodyGrows
<1>3. Open' = Open /\ Given' = Given /\ Bytes' = Bytes /\ Cursor' = Cursor
  BY DEF Open, Given, Bytes, Cursor
<1>4. ASSUME Open PROVE GivenIs(from)'
  <2>1. \A i \in 1..Bytes : Given[i] \in Int
    <3>1. \A i \in 1..Bytes : i \in 1..Len(Given)
      BY Types, ThreadFields DEF Bytes
    <3> QED BY <3>1, Types, TokensAreInt
  <2>2. StreamOK(Given, Bytes, body.icy, from, decode.size)
    BY <1>1, <1>4 DEF GivenIs, Stream
  <2>3. decode.size \in Nat
    BY Types
  <2>4. StreamOK(Given, Bytes, body.icy, from, decode'.size)
    BY <2>1, <2>2, <2>3 DEF StreamOK, Grows
  <2>5. Stream(Given, Bytes, body.icy, from, decode'.size, Cursor, icy.remain)
    BY <1>1, <1>4, <2>4 DEF GivenIs, Stream
  <2> QED BY <1>1, <1>3, <1>4, <2>5 DEF GivenIs
<1> QED BY <1>2, <1>3, <1>4 DEF Whole

LEMMA NothingCame ==
  ASSUME body' = NoBody, ~Open'
  PROVE  Whole'
<1>1. BodyIs(0)'
  BY DEF BodyIs, NoBody
<1> QED BY <1>1 DEF Whole

LEMMA CursorIn ==
  ASSUME TypeOK, CacheOK, Open
  PROVE  Cursor \in 0..cache.total
<1>1. cache \in CacheType /\ cache.total \in Nat
  BY Types
<1>2. CASE thread.use_cache
  BY <1>1, <1>2, InnerRead DEF CacheOK, Cursor
<1>3. CASE ~thread.use_cache
  BY <1>1, <1>3 DEF Cursor
<1> QED BY <1>2, <1>3

LEMMA ChunkIs ==
  ASSUME TypeOK, Icys
  PROVE  Chunk \in 1..CacheSize /\ Chunk \in Nat /\ (icy.active => Chunk = icy.remain)
<1>1. icy.remain \in 0..Interval
  BY DEF TypeOK, IcyType
<1> QED BY <1>1, BoundsAreNat DEF Chunk, Icys

-----------------------------------------------------------------------------
\* The section under LOCK_O.

\* _output_fill has put `used` bytes in obuf.
Filled(used) ==
  /\ pc = "locked" /\ pc' = "select" /\ decode' = decode
  /\ used \in 0..ObufSize /\ cache.total + used <= decode.size
  /\ drained' \in BOOLEAN /\ (drained => drained')
  /\ drained' => cache.total + used = decode.size /\ decode.state \in {"ENDED", "STOPPED"}
  /\ thread.lingering \/ thread.finished => used = 0
  /\ output' \in OutputType /\ (drained' <=> output'.completed)

LEMMA FillIs ==
  ASSUME IInv, pc = "locked", pc' = "select", decode' = decode,
         NEW fill \in IF drained THEN {[bytes |-> 0, more |-> FALSE]} ELSE Fills,
         NEW ends, ends = (~drained /\ Drains(fill)),
         drained' = (drained \/ ends),
         output' = [output EXCEPT !.completed = @ \/ ends]
  PROVE  Filled(obuf + fill.bytes)
<1>1. /\ cache.total \in Nat /\ obuf \in 0..ObufSize /\ obuf \in Nat /\ drained \in BOOLEAN
      /\ decode.size \in Nat /\ ObufSize \in Nat /\ cache.total + obuf <= decode.size
  BY Types, BoundsAreNat DEF IInv, TypeOK, Amounts
<1>2. ends \in BOOLEAN /\ drained' \in BOOLEAN
  BY <1>1
<1>3. output' \in OutputType /\ output'.completed = (output.completed \/ ends)
  <2>1. output \in OutputType
    BY DEF IInv, TypeOK
  <2> QED BY <1>2, <2>1 DEF OutputType
<1>4. drained <=> output.completed
  BY DEF IInv, Amounts
<1>5. CASE drained
  <2>1. fill.bytes = 0 /\ ends = FALSE
    <3>1. fill = [bytes |-> 0, more |-> FALSE]
      BY <1>5
    <3>2. ~ends
      BY <1>5
    <3> QED BY <1>2, <3>1, <3>2
  <2>2. cache.total + obuf = decode.size /\ decode.state \in {"ENDED", "STOPPED"}
    BY <1>5 DEF IInv, Amounts
  <2>3. thread.lingering \/ thread.finished => obuf = 0
    BY DEF IInv, Lingers
  <2>4. obuf + fill.bytes = obuf
    BY <1>1, <2>1
  <2> QED BY <1>1, <1>2, <1>3, <1>4, <1>5, <2>1, <2>2, <2>3, <2>4 DEF Filled
<1>6. CASE ~drained
  <2> DEFINE waiting == decode.made - (cache.total + obuf)
             space == ObufSize - obuf
  <2>1. waiting = decode.size - (cache.total + obuf) /\ waiting \in Nat /\ space \in Nat
    BY <1>1, <1>6 DEF IInv, Amounts
  <2>2. fill \in (IF space = 0 THEN {[bytes |-> 0, more |-> TRUE]}
                  ELSE IF waiting = 0 THEN {[bytes |-> 0, more |-> FALSE]}
                  ELSE {[bytes |-> n, more |-> TRUE] : n \in 1..Least(space, waiting)})
    BY <1>6 DEF Fills
  <2> HIDE DEF waiting, space
  <2>3. fill.bytes \in 0..space /\ fill.bytes <= waiting /\ (~fill.more => fill.bytes = 0 /\ waiting = 0)
    BY <2>1, <2>2 DEF Least
  <2>4. obuf + fill.bytes \in 0..ObufSize /\ cache.total + (obuf + fill.bytes) <= decode.size
    BY <1>1, <2>1, <2>3 DEF space, waiting
  <2>5. ends => cache.total + (obuf + fill.bytes) = decode.size /\ decode.state = "ENDED"
    <3>1. ends => ~fill.more /\ decode.state = "ENDED"
      BY DEF Drains
    <3>2. ends => fill.bytes = 0 /\ waiting = 0
      BY <2>3, <3>1
    <3> QED BY <1>1, <2>1, <3>1, <3>2
  <2>6. ~(thread.lingering \/ thread.finished)
    BY <1>6 DEF IInv, Lingers
  <2> QED BY <1>2, <1>3, <1>4, <1>6, <2>4, <2>5, <2>6 DEF Filled
<1> QED BY <1>5, <1>6

\* A step of the section moves bytes from obuf to the cache or leaves them, and
\* ends what it ends.
LEMMA Keeps ==
  ASSUME IInv, NEW used, Filled(used), NEW more \in Nat,
         thread' \in ThreadType, cache' \in CacheType, backlog' \in Seq(Tokens),
         icy' \in IcyType, dev' \in DevType, body' \in BodyType,
         more <= used, obuf' = used - more, cache'.total = cache.total + more,
         CacheOK', Conns', Icys', Whole',
         thread'.lingering \/ thread'.finished => drained' /\ used = 0
  PROVE  IInv'
<1>1. cache.total \in Nat /\ used \in 0..ObufSize /\ decode.size \in Nat /\ ObufSize \in Nat
  BY Types, BoundsAreNat DEF IInv, Filled
<1>2. obuf' \in 0..ObufSize /\ cache'.total + obuf' = cache.total + used /\ (used = 0 => obuf' = 0)
  BY <1>1
<1>3. TypeOK'
  BY <1>2 DEF TypeOK, IInv, Filled
<1>4. Amounts'
  <2>1. cache'.total + obuf' <= decode'.size /\ (drained' => cache'.total + obuf' = decode'.size)
    BY <1>2 DEF Filled
  <2>2. ~drained' => decode'.made = decode'.size /\ decode'.state \in {"RUNNING", "ENDED"}
    BY DEF Filled, IInv, Amounts
  <2> QED BY <2>1, <2>2 DEF Filled, Amounts
<1>5. Lingers'
  BY <1>2 DEF Lingers
<1> QED BY <1>3, <1>4, <1>5 DEF IInv

LEMMA SendBacklog ==
  ASSUME TypeOK, NEW data \in Seq(Tokens), NEW n \in 0..Len(backlog \o data), Sent(data, n)
  PROVE  /\ Given' = Given \o data /\ body' \in BodyType /\ backlog' \in Seq(Tokens)
         /\ body'.promised = body.promised /\ body'.icy = body.icy /\ body'.ended = body.ended
<1> DEFINE all == backlog \o data
<1>1. body \in BodyType /\ body.tokens \in Seq(Tokens) /\ backlog \in Seq(Tokens)
  BY Types DEF TypeOK
<1>2. /\ body.tokens \o SubSeq(all, 1, n) \in Seq(Tokens) /\ SubSeq(all, n + 1, Len(all)) \in Seq(Tokens)
      /\ (body.tokens \o SubSeq(all, 1, n)) \o SubSeq(all, n + 1, Len(all)) = (body.tokens \o backlog) \o data
  <2> DEFINE t == body.tokens
             w == backlog
             p == SubSeq(all, 1, n)
             q == SubSeq(all, n + 1, Len(all))
  <2>1. all \in Seq(Tokens) /\ t \in Seq(Tokens) /\ w \in Seq(Tokens)
    BY <1>1
  <2>2. p \in Seq(Tokens) /\ q \in Seq(Tokens) /\ p \o q = all
    <3>1. n \in 0..Len(all)
      OBVIOUS
    <3> HIDE DEF all
    <3> QED BY <2>1, <3>1, CutAt
  <2>3. all = w \o data
    OBVIOUS
  <2> HIDE DEF t, w, all, p, q
  <2>4. (t \o p) \o q = t \o all /\ t \o all = (t \o w) \o data /\ t \o p \in Seq(Tokens)
    <3>1. (t \o p) \o q = t \o (p \o q)
      <4>1. t \in Seq(Tokens) /\ p \in Seq(Tokens) /\ q \in Seq(Tokens)
        BY <2>1, <2>2
      <4> QED BY SMTT(30), <4>1, ConcatAssociative
    <3>2. (t \o w) \o data = t \o (w \o data)
      <4>1. t \in Seq(Tokens) /\ w \in Seq(Tokens) /\ data \in Seq(Tokens)
        BY <2>1
      <4> QED BY SMTT(30), <4>1, ConcatAssociative
    <3>3. t \o p \in Seq(Tokens)
      BY <2>1, <2>2
    <3> QED BY <2>2, <2>3, <3>1, <3>2, <3>3
  <2> QED BY <2>2, <2>4 DEF t, w, p, q
<1>3. /\ body' = [body EXCEPT !.tokens = body.tokens \o SubSeq(all, 1, n)]
      /\ backlog' = SubSeq(all, n + 1, Len(all))
  BY DEF Sent
<1> HIDE DEF all
<1>4. /\ body' \in BodyType /\ body'.tokens = body.tokens \o SubSeq(all, 1, n)
      /\ body'.promised = body.promised /\ body'.icy = body.icy /\ body'.ended = body.ended
  BY <1>1, <1>2, <1>3 DEF BodyType
<1> QED BY <1>2, <1>3, <1>4 DEF Given

LEMMA PrefixIs ==
  ASSUME NEW T, NEW p \in Seq(T), NEW q, q \in Seq(T), NEW g, g = p \o q
  PROVE  /\ Len(p) \in Nat /\ Len(g) \in Nat /\ Len(p) <= Len(g) /\ \A i \in 1..Len(p) : g[i] = p[i]
         /\ g \in Seq(T)
OBVIOUS

\* A block of bytes is given after what was.
LEMMA BlockGiven ==
  ASSUME TypeOK, Icys, NEW from \in Nat, GivenIs(from), ~thread.finished, backlog = <<>>,
         Cursor \in Nat, NEW k \in 1..Chunk, Cursor + k <= decode.size,
         NEW data, data = [i \in 1..k |-> Cursor + i - 1],
         NEW n \in 1..Len(WithIcy(data)), Sent(WithIcy(data), n), icy' = IcyAfter(data),
         decode' = decode, ~thread'.finished, Cursor' = Cursor + k
  PROVE  /\ GivenIs(from)' /\ BodyIs(from)'
         /\ body' \in BodyType /\ backlog' \in Seq(Tokens) /\ icy' \in IcyType /\ Icys'
<1>1. /\ decode.size \in Nat /\ decode.size <= Length /\ icy.active \in BOOLEAN
      /\ icy.remain \in Nat /\ icy.remain <= Interval /\ body.icy \in BOOLEAN
      /\ Given \in Seq(Tokens) /\ Length \in Nat /\ Interval \in Nat /\ Interval > 0
  BY Types, BoundsAreNat
<1>2. k \in Nat /\ k # 0 /\ (icy.active => k <= icy.remain)
  BY ChunkIs
<1>3. /\ icy.active = body.icy /\ Stream(Given, Bytes, body.icy, from, decode.size, Cursor, icy.remain)
      /\ body.promised \in {Unknown, from} /\ ~body.ended
  BY DEF GivenIs
<1>4. Bytes = Len(Given)
  BY DEF Bytes
<1>5. data \in Seq(Tokens) /\ Len(data) = k /\ \A j \in 1..k : data[j] = Cursor + j - 1
  <2>1. \A i \in 1..k : Cursor + i - 1 \in Tokens
    BY <1>1, <1>2 DEF Tokens
  <2> QED BY <1>2, <2>1
<1>6. WithIcy(data) = WithMark(data, body.icy, icy.remain)
  BY <1>3 DEF WithIcy, WithMark
<1>7. WithIcy(data) \in Seq(Tokens)
  <2>1. Meta \in Tokens
    BY DEF Tokens
  <2> HIDE DEF Meta
  <2>2. Append(data, Meta) \in Seq(Tokens)
    BY <1>5, <2>1
  <2> QED BY <1>5, <1>6, <2>2 DEF WithMark
<1>8. Given' = Given \o WithIcy(data) /\ body' \in BodyType /\ backlog' \in Seq(Tokens)
      /\ body'.promised = body.promised /\ body'.icy = body.icy /\ body'.ended = body.ended
  <2>1. backlog \o WithIcy(data) = WithIcy(data)
    BY <1>7
  <2>2. n \in 0..Len(backlog \o WithIcy(data))
    BY <1>7, <2>1
  <2> QED BY <1>7, <2>2, SendBacklog
<1>9. /\ icy' = IF ~icy.active THEN icy
                ELSE IF k = icy.remain THEN [icy EXCEPT !.remain = Interval]
                ELSE [icy EXCEPT !.remain = icy.remain - k]
  BY <1>5 DEF IcyAfter
<1>10. icy' \in IcyType /\ icy'.active = icy.active /\ Icys'
       /\ (body.icy => icy'.remain = IF k = icy.remain THEN Interval ELSE icy.remain - k)
  <2>1. icy \in IcyType
    BY DEF TypeOK
  <2>2. CASE ~icy.active
    BY <1>3, <1>9, <2>1, <2>2 DEF Icys
  <2>3. CASE icy.active /\ k = icy.remain
    <3>1. icy' = [icy EXCEPT !.remain = Interval] /\ Interval \in 0..Interval
      BY <1>1, <1>9, <2>3
    <3>2. icy' \in IcyType /\ icy'.active = icy.active /\ icy'.remain = Interval
      BY <2>1, <3>1 DEF IcyType
    <3> QED BY <1>1, <2>3, <3>2 DEF Icys
  <2>4. CASE icy.active /\ k # icy.remain
    <3> DEFINE m == icy.remain
    <3>0. m \in Nat /\ m <= Interval /\ k <= m /\ k # m
      BY <1>1, <1>2, <2>4
    <3>1. icy' = [icy EXCEPT !.remain = icy.remain - k]
      BY <1>9, <2>4
    <3> HIDE DEF m
    <3>15. m - k \in 0..Interval /\ m - k > 0
      BY <1>1, <1>2, <3>0
    <3>17. icy.remain - k \in 0..Interval /\ icy.remain - k > 0
      BY <3>15 DEF m
    <3>2. icy' \in IcyType /\ icy'.active = icy.active /\ icy'.remain = icy.remain - k
      BY <2>1, <3>1, <3>17 DEF IcyType
    <3> QED BY <1>3, <2>4, <3>17, <3>2 DEF Icys
  <2> QED BY <1>1, <2>2, <2>3, <2>4
<1>11. Bytes' = Len(Given')
  BY DEF Bytes
<1>12. Stream(Given', Len(Given'), body.icy, from, decode.size, Cursor + k, RemainAfter(k, icy.remain))
  <2> DEFINE b == body.icy
             g == Given
             remain == icy.remain
             cursor == Cursor
             size == decode.size
             h == Given'
  <2>1. /\ b \in BOOLEAN /\ g \in Seq(Tokens) /\ remain \in Nat /\ cursor \in Nat /\ size \in Nat
        /\ Stream(g, Len(g), b, from, size, cursor, remain)
        /\ (b => k <= remain) /\ cursor + k <= size
        /\ \A j \in 1..k : data[j] = cursor + j - 1
        /\ h = g \o WithMark(data, b, remain)
    BY <1>1, <1>2, <1>3, <1>4, <1>5, <1>6, <1>8
  <2>2. k \in Nat /\ k # 0 /\ data \in Seq(Tokens) /\ Len(data) = k
    BY <1>2, <1>5
  <2> HIDE DEF b, g, remain, cursor, size, h
  <2>3. Stream(h, Len(h), b, from, size, cursor + k, RemainAfter(k, remain))
    BY <2>1, <2>2, Continues
  <2> QED BY <2>3 DEF b, h, remain, cursor, size
<1>13. GivenIs(from)'
  <2>1. Stream(Given', Len(Given'), body.icy, from, decode.size, Cursor + k, icy'.remain)
    BY <1>10, <1>12 DEF Stream, RemainAfter
  <2> QED BY <1>3, <1>8, <1>10, <1>11, <2>1 DEF GivenIs
<1>14. BodyIs(from)'
  <2>1. body'.promised \in {Unknown, from} /\ ~body'.ended
    BY <1>3, <1>8
  <2> DEFINE p == body'.tokens
             g == Given'
  <2>2. p \in Seq(Tokens) /\ backlog' \in Seq(Tokens) /\ g = p \o backlog'
    BY <1>8 DEF BodyType, Given
  <2>3. StreamOK(g, Len(g), body.icy, from, decode.size)
    BY <1>12 DEF Stream
  <2> HIDE DEF p, g
  <2>4. Len(p) \in Nat /\ Len(p) <= Len(g) /\ Len(g) \in Nat /\ \A i \in 1..Len(p) : g[i] = p[i]
    BY <2>2, PrefixIs
  <2>5. \A i \in 1..Len(p) : p[i] = TokenAt(body.icy, from, i) /\ p[i] < decode.size
    <3> SUFFICES ASSUME NEW i \in 1..Len(p) PROVE p[i] = TokenAt(body.icy, from, i) /\ p[i] < decode.size
      OBVIOUS
    <3>1. i \in 1..Len(g) /\ g[i] = p[i]
      BY <2>4
    <3> QED BY <2>3, <3>1 DEF StreamOK
  <2> QED BY <1>8, <2>1, <2>5 DEF BodyIs, p
<1> QED BY <1>8, <1>10, <1>13, <1>14

\* What holds under LOCK_O, whatever is sent.
LEMMA Locked ==
  ASSUME IInv, NEW used, Filled(used)
  PROVE  /\ Open /\ thread.sock /\ thread.http_ready /\ ~dev.asks /\ thread \in ThreadType
         /\ \E from \in Nat : BodyIs(from) /\ GivenIs(from)
         /\ Cursor \in 0..cache.total /\ cache.total \in Nat /\ used \in Nat
         /\ decode.size \in Nat /\ decode.size <= Length
         /\ Holds(cache) /\ (thread.use_cache => InRing(cache)) /\ Grows
<1>1. pc = "locked" /\ TypeOK /\ Conns /\ Whole /\ CacheOK
  BY DEF Filled, IInv
<1>2. Open /\ thread.sock /\ thread.http_ready /\ ~dev.asks
  BY <1>1, ThreadFields DEF Conns, Open
<1>3. \E from \in Nat : BodyIs(from) /\ GivenIs(from)
  BY <1>1, <1>2 DEF Whole
<1>4. cache.total \in Nat /\ decode.size \in Nat /\ decode.size <= Length /\ drained \in BOOLEAN
  BY <1>1, Types
<1>5. used \in Nat
  BY BoundsAreNat DEF Filled
<1>6. Grows
  BY <1>4 DEF Grows, Filled
<1> QED BY <1>1, <1>2, <1>3, <1>4, <1>5, <1>6, CursorIn DEF CacheOK, TypeOK

\* The connection stays as it is.
LEMMA ConnStays ==
  ASSUME IInv, NEW used, Filled(used), dev' = dev,
         thread'.sock = thread.sock, thread'.http_ready = thread.http_ready
  PROVE  Conns' /\ dev' \in DevType
<1>1. ~dev.asks /\ Conns /\ pc' = "select"
  BY Locked DEF IInv, Filled
<1>2. dev' \in DevType
  BY DEF IInv, TypeOK
<1> QED BY <1>1, <1>2 DEF Conns

LEMMA SendLater ==
  ASSUME IInv, NEW used, Filled(used), NEW x \in BOOLEAN,
         thread' = [thread EXCEPT !.wfds = x], obuf' = used,
         UNCHANGED <<cache, backlog, icy, dev, body>>
  PROVE  IInv'
<1>1. /\ thread' \in ThreadType /\ thread'.sock = thread.sock /\ thread'.http_ready = thread.http_ready
      /\ thread'.use_cache = thread.use_cache /\ thread'.finished = thread.finished
      /\ thread'.lingering = thread.lingering
  BY Locked DEF ThreadType
<1>2. Conns' /\ dev' \in DevType
  BY <1>1, ConnStays
<1>3. Whole'
  BY <1>1, Locked, WholeStays DEF IInv
<1>4. CacheOK' /\ Icys'
  BY <1>1 DEF IInv, CacheOK, Open, Icys
<1>5. thread'.lingering \/ thread'.finished => drained' /\ used = 0
  BY <1>1 DEF Filled, IInv, Lingers
<1>6. /\ cache' \in CacheType /\ backlog' \in Seq(Tokens) /\ icy' \in IcyType /\ body' \in BodyType
      /\ cache'.total = cache.total
  BY DEF IInv, TypeOK
<1>7. 0 \in Nat /\ 0 <= used /\ obuf' = used - 0 /\ cache'.total = cache.total + 0
  BY <1>6, Locked
<1> QED BY <1>1, <1>2, <1>3, <1>4, <1>5, <1>6, <1>7, Keeps

LEMMA SendWaiting ==
  ASSUME IInv, NEW used, Filled(used), backlog # <<>>, obuf' = used,
         NEW n \in 1..Len(backlog), Sent(<<>>, n), UNCHANGED <<thread, cache, icy, dev>>
  PROVE  IInv'
<1>1. PICK from \in Nat : BodyIs(from) /\ GivenIs(from)
  BY Locked
<1>2. /\ TypeOK /\ backlog \in Seq(Tokens) /\ Given \in Seq(Tokens) /\ decode.size \in Nat
  BY Types DEF IInv
<1>3. Given' = Given /\ body' \in BodyType /\ backlog' \in Seq(Tokens)
      /\ body'.promised = body.promised /\ body'.icy = body.icy /\ body'.ended = body.ended
  <2>1. <<>> \in Seq(Tokens) /\ backlog \o <<>> = backlog /\ Given \o <<>> = Given
    BY <1>2
  <2>2. n \in 0..Len(backlog \o <<>>)
    BY <1>2, <2>1
  <2>3. Given' = Given \o <<>> /\ body' \in BodyType /\ backlog' \in Seq(Tokens)
      /\ body'.promised = body.promised /\ body'.icy = body.icy /\ body'.ended = body.ended
    BY <1>2, <2>1, <2>2, SendBacklog
  <2> QED BY <2>1, <2>3
<1>4. Conns' /\ dev' \in DevType
  BY ConnStays
<1>5. GivenIs(from)'
  <2>1. Bytes' = Bytes /\ Cursor' = Cursor /\ decode' = decode
    BY <1>3 DEF Bytes, Cursor, Filled
  <2> QED BY <1>1, <1>3, <2>1 DEF GivenIs
<1>6. CacheOK' /\ Icys'
  BY DEF IInv, CacheOK, Open, Icys
<1>7. thread'.lingering \/ thread'.finished => drained' /\ used = 0
  BY DEF Filled, IInv, Lingers
<1>8. /\ cache' \in CacheType /\ icy' \in IcyType /\ thread' \in ThreadType
      /\ cache'.total = cache.total
  BY DEF IInv, TypeOK
<1>9. 0 \in Nat /\ 0 <= used /\ obuf' = used - 0 /\ cache'.total = cache.total + 0
  BY <1>8, Locked
<1>10. Whole'
  <2>1. obuf' \in 0..ObufSize /\ pc' = "select" /\ decode' \in DecodeType /\ output' \in OutputType
        /\ drained' \in BOOLEAN
    BY DEF Filled, IInv, TypeOK
  <2>2. TypeOK'
    BY <1>3, <1>4, <1>8, <2>1 DEF TypeOK
  <2>3. BodyIs(from)'
    BY <1>5, <2>2, GivenIsBody, PTL
  <2> QED BY <1>5, <2>3 DEF Whole
<1> QED BY <1>3, <1>4, <1>6, <1>7, <1>8, <1>9, <1>10, Keeps

\* ReadInner, of the cache of the thread.
LEMMA CacheRead ==
  ASSUME IInv, NEW used, Filled(used), thread.use_cache
  PROVE  LET r == ReadInner(cache, Chunk) IN
         /\ r.cache \in CacheType /\ r.cache.total = cache.total /\ Holds(r.cache) /\ InRing(r.cache)
         /\ \E n \in 0..Chunk :
              /\ r.data = [i \in 1..n |-> Cursor + i - 1] /\ Len(r.data) = n
              /\ CursorOf(r.cache) = Cursor + n /\ Cursor + n <= cache.total
              /\ n = 0 => Cursor = cache.total
<1>1. /\ cache \in CacheType /\ Holds(cache) /\ InRing(cache) /\ Cursor = CursorOf(cache)
      /\ Chunk \in Nat /\ Chunk > 0
  BY Locked, ChunkIs DEF IInv, TypeOK, Cursor
<1> DEFINE size == Chunk
           r == ReadInner(cache, size)
           from == CursorOf(cache)
<1>2. size \in Nat /\ size > 0
  BY <1>1
<1> HIDE DEF size
<1>3. /\ r.cache \in CacheType /\ SameData(cache, r.cache) /\ Holds(r.cache) /\ InRing(r.cache)
      /\ from \in 0..cache.total
      /\ \E n \in 0..size : /\ r.data = [i \in 1..n |-> from + i - 1]
                            /\ CursorOf(r.cache) = from + n /\ from + n <= cache.total
                            /\ n = 0 => from = cache.total
  BY <1>1, <1>2, InnerRead
<1>4. r.cache.total = cache.total
  BY <1>3 DEF SameData
<1> HIDE DEF r
<1>5. PICK n \in 0..size : /\ r.data = [i \in 1..n |-> from + i - 1]
                           /\ CursorOf(r.cache) = from + n /\ from + n <= cache.total
                           /\ n = 0 => from = cache.total
  BY <1>3
<1>6. Len(r.data) = n
  BY <1>2, <1>5
<1> QED BY <1>1, <1>3, <1>4, <1>5, <1>6 DEF r, size

\* Nothing is left in the cache.
LEMMA AtTheEnd ==
  ASSUME IInv, NEW used, Filled(used), CacheEmpty
  PROVE  LET from == IF thread.use_cache THEN ReadInner(cache, Chunk).cache ELSE cache IN
         /\ Cursor = cache.total /\ from \in CacheType /\ Holds(from) /\ from.total = cache.total
<1>1. CASE thread.use_cache
  <2>1. ReadInner(cache, Chunk).data = <<>>
    BY <1>1 DEF CacheEmpty
  <2> DEFINE r == ReadInner(cache, Chunk)
  <2>2. /\ r.cache \in CacheType /\ r.cache.total = cache.total /\ Holds(r.cache)
        /\ \E n \in 0..Chunk : Len(r.data) = n /\ (n = 0 => Cursor = cache.total)
    BY <1>1, CacheRead
  <2> HIDE DEF r
  <2>3. Len(r.data) = 0
    BY <2>1 DEF r
  <2> QED BY <1>1, <2>2, <2>3 DEF r
<1>2. CASE ~thread.use_cache
  BY <1>2, Locked DEF Cursor, IInv, TypeOK
<1> QED BY <1>1, <1>2

LEMMA SendKept ==
  ASSUME IInv, NEW used, Filled(used), backlog = <<>>, SendFromCache(used)
  PROVE  IInv'
<1> DEFINE r == ReadInner(cache, Chunk)
<1>1. /\ thread.use_cache /\ r.data # <<>> /\ cache' = r.cache /\ obuf' = used
      /\ icy' = IcyAfter(r.data) /\ \E n \in 1..Len(WithIcy(r.data)) : Sent(WithIcy(r.data), n)
      /\ thread' = thread /\ dev' = dev
  BY DEF SendFromCache
<1>2. /\ r.cache \in CacheType /\ r.cache.total = cache.total /\ Holds(r.cache) /\ InRing(r.cache)
      /\ \E n \in 0..Chunk :
           /\ r.data = [i \in 1..n |-> Cursor + i - 1] /\ Len(r.data) = n
           /\ CursorOf(r.cache) = Cursor + n /\ Cursor + n <= cache.total
           /\ n = 0 => Cursor = cache.total
  BY <1>1, CacheRead
<1> HIDE DEF r
<1>3. PICK k \in 0..Chunk :
           /\ r.data = [i \in 1..k |-> Cursor + i - 1] /\ Len(r.data) = k
           /\ CursorOf(r.cache) = Cursor + k /\ Cursor + k <= cache.total
  BY <1>2
<1>4. PICK from \in Nat : BodyIs(from) /\ GivenIs(from)
  BY Locked
<1>5. Cursor \in Nat /\ cache.total \in Nat /\ decode.size \in Nat /\ used \in Nat /\ TypeOK /\ Icys
  BY Locked DEF IInv
<1>6. k \in 1..Chunk /\ Cursor + k <= decode.size
  <2>1. k # 0
    <3>1. k = 0 => r.data = <<>>
      BY <1>3
    <3> QED BY <1>1, <3>1
  <2>2. cache.total <= decode.size
    BY <1>5 DEF Filled
  <2>3. Chunk \in Nat
    BY <1>5, ChunkIs
  <2> QED BY <1>3, <1>5, <2>1, <2>2, <2>3
<1>7. ~thread.finished /\ ~thread'.finished
  BY <1>1, <1>4 DEF GivenIs
<1>8. Cursor' = Cursor + k /\ decode' = decode
  BY <1>1, <1>3 DEF Cursor, Filled
<1> DEFINE data == r.data
<1>9. data = [i \in 1..k |-> Cursor + i - 1] /\ icy' = IcyAfter(data)
      /\ \E n \in 1..Len(WithIcy(data)) : Sent(WithIcy(data), n)
  BY <1>1, <1>3
<1> HIDE DEF data
<1>10. /\ GivenIs(from)' /\ BodyIs(from)'
       /\ body' \in BodyType /\ backlog' \in Seq(Tokens) /\ icy' \in IcyType /\ Icys'
  BY <1>4, <1>5, <1>6, <1>7, <1>8, <1>9, BlockGiven
<1>11. Conns' /\ dev' \in DevType
  BY <1>1, ConnStays
<1>12. CacheOK' /\ Whole'
  BY <1>1, <1>2, <1>10 DEF CacheOK, Whole
<1>13. thread'.lingering \/ thread'.finished => drained' /\ used = 0
  BY <1>1 DEF Filled, IInv, Lingers
<1>14. cache' \in CacheType /\ thread' \in ThreadType
  BY <1>1, <1>2 DEF IInv, TypeOK
<1>15. 0 \in Nat /\ 0 <= used /\ obuf' = used - 0 /\ cache'.total = cache.total + 0
  BY <1>1, <1>2, <1>5
<1> QED BY <1>10, <1>11, <1>12, <1>13, <1>14, <1>15, Keeps

\* The end of the cache is where obuf goes on.
LEMMA SendNew ==
  ASSUME IInv, NEW used, Filled(used), backlog = <<>>, SendFromObuf(used)
  PROVE  IInv'
<1> DEFINE old == IF thread.use_cache THEN ReadInner(cache, Chunk).cache ELSE cache
<1>1. PICK k \in 1..Least(Chunk, used) :
        LET data == [i \in 1..k |-> cache.total + i - 1] IN
        /\ cache' = Write(old, data) /\ obuf' = used - k
        /\ icy' = IcyAfter(data)
        /\ \E n \in 1..Len(WithIcy(data)) : Sent(WithIcy(data), n)
  BY DEF SendFromObuf
<1>2. CacheEmpty /\ used > 0 /\ thread' = [thread EXCEPT !.use_cache = FALSE] /\ dev' = dev
  BY DEF SendFromObuf
<1>3. Cursor = cache.total /\ old \in CacheType /\ Holds(old) /\ old.total = cache.total
  BY <1>2, AtTheEnd
<1>4. PICK from \in Nat : BodyIs(from) /\ GivenIs(from)
  BY Locked
<1>5. Cursor \in Nat /\ cache.total \in Nat /\ decode.size \in Nat /\ used \in Nat /\ TypeOK /\ Icys
      /\ Chunk \in 1..CacheSize /\ Chunk \in Nat /\ CacheSize \in Nat
  BY <1>3, Locked, ChunkIs, BoundsAreNat DEF IInv
<1>6. k \in 1..Chunk /\ k \in 1..CacheSize /\ k \in Nat /\ k <= used
  BY <1>5 DEF Least
<1>7. Cursor + k <= decode.size
  <2>1. cache.total + used <= decode.size
    BY DEF Filled
  <2> QED BY <1>3, <1>5, <1>6, <2>1
<1> DEFINE data == [i \in 1..k |-> Cursor + i - 1]
<1>8. /\ cache' = Write(old, data) /\ obuf' = used - k /\ icy' = IcyAfter(data)
      /\ \E n \in 1..Len(WithIcy(data)) : Sent(WithIcy(data), n)
  BY <1>1, <1>3
<1>9. data = [i \in 1..k |-> old.total + i - 1] /\ data = [i \in 1..k |-> Cursor + i - 1]
  BY <1>3
<1> HIDE DEF data, old
<1>10. cache' \in CacheType /\ cache'.total = cache.total + k /\ Holds(cache')
  BY <1>3, <1>6, <1>8, <1>9, Written
<1>11. ~thread.finished /\ ~thread.lingering
  <2>1. used # 0
    BY <1>2, <1>5
  <2> QED BY <2>1 DEF Filled
<1>12. /\ thread' \in ThreadType /\ ~thread'.use_cache /\ ~thread'.finished /\ ~thread'.lingering
       /\ thread'.sock = thread.sock /\ thread'.http_ready = thread.http_ready
  BY <1>2, <1>11, Locked DEF ThreadType
<1>13. Cursor' = Cursor + k /\ decode' = decode
  BY <1>3, <1>10, <1>12 DEF Cursor, Filled
<1>14. /\ GivenIs(from)' /\ BodyIs(from)'
       /\ body' \in BodyType /\ backlog' \in Seq(Tokens) /\ icy' \in IcyType /\ Icys'
  BY <1>4, <1>5, <1>6, <1>7, <1>8, <1>9, <1>11, <1>12, <1>13, BlockGiven
<1>15. Conns' /\ dev' \in DevType
  BY <1>2, <1>12, ConnStays
<1>16. CacheOK' /\ Whole'
  BY <1>10, <1>12, <1>14 DEF CacheOK, Whole
<1> QED BY <1>6, <1>8, <1>10, <1>12, <1>14, <1>15, <1>16, Keeps

LEMMA SendNothing ==
  ASSUME IInv, NEW used, Filled(used), NothingToSend(used)
  PROVE  IInv'
<1> DEFINE old == IF thread.use_cache THEN ReadInner(cache, Chunk).cache ELSE cache
<1>1. /\ CacheEmpty /\ used = 0 /\ thread' = [thread EXCEPT !.use_cache = FALSE, !.wfds = FALSE]
      /\ cache' = old /\ obuf' = used /\ backlog' = backlog /\ icy' = icy /\ dev' = dev /\ body' = body
  BY DEF NothingToSend
<1>2. Cursor = cache.total /\ old \in CacheType /\ Holds(old) /\ old.total = cache.total
  BY <1>1, AtTheEnd
<1> HIDE DEF old
<1>3. PICK from \in Nat : BodyIs(from) /\ GivenIs(from)
  BY Locked
<1>4. /\ thread' \in ThreadType /\ ~thread'.use_cache
      /\ thread'.sock = thread.sock /\ thread'.http_ready = thread.http_ready
      /\ thread'.finished = thread.finished /\ thread'.lingering = thread.lingering
  BY <1>1, Locked DEF ThreadType
<1>5. GivenIs(from)'
  <2>1. Cursor' = Cursor /\ Given' = Given /\ Bytes' = Bytes /\ decode' = decode
    BY <1>1, <1>2, <1>4 DEF Cursor, Given, Bytes, Filled
  <2> QED BY <1>1, <1>3, <1>4, <2>1 DEF GivenIs
<1>6. BodyIs(from)'
  BY <1>1, <1>3, Locked, BodyGrows DEF IInv
<1>7. CacheOK' /\ Whole' /\ Icys'
  BY <1>1, <1>2, <1>4, <1>5, <1>6 DEF CacheOK, Whole, Icys, IInv
<1>8. Conns' /\ dev' \in DevType
  BY <1>1, <1>4, ConnStays
<1>9. thread'.lingering \/ thread'.finished => drained' /\ used = 0
  BY <1>1, <1>4 DEF Filled, IInv, Lingers
<1>10. /\ cache' \in CacheType /\ icy' \in IcyType /\ backlog' \in Seq(Tokens) /\ body' \in BodyType
       /\ cache'.total = cache.total
  BY <1>1, <1>2 DEF IInv, TypeOK
<1>11. 0 \in Nat /\ 0 <= used /\ obuf' = used - 0 /\ cache'.total = cache.total + 0
  BY <1>1, <1>10, Locked
<1> QED BY <1>4, <1>7, <1>8, <1>9, <1>10, <1>11, Keeps

\* The last chunk is not where metadata are due: they never wait.
LEMMA SendLast ==
  ASSUME IInv, NEW used, Filled(used), backlog = <<>>, ~thread.use_cache, used = 0,
         ~thread.finished, drained', NEW n \in 0..1, Sent(<<LastChunk>>, n),
         thread' = [thread EXCEPT !.finished = TRUE], obuf' = used, UNCHANGED <<cache, icy, dev>>
  PROVE  IInv'
<1>1. PICK from \in Nat : BodyIs(from) /\ GivenIs(from)
  BY Locked
<1>2. /\ TypeOK /\ Given \in Seq(Tokens) /\ decode.size \in Nat /\ body.icy \in BOOLEAN
      /\ icy.active \in BOOLEAN /\ icy.remain \in Nat /\ Interval \in Nat
  BY Types, BoundsAreNat DEF IInv
<1>3. Given' = Given \o <<LastChunk>> /\ body' \in BodyType /\ backlog' \in Seq(Tokens)
      /\ body'.promised = body.promised /\ body'.icy = body.icy /\ body'.ended = body.ended
  <2>1. <<LastChunk>> \in Seq(Tokens) /\ Len(<<LastChunk>>) = 1
    BY DEF Tokens
  <2>2. n \in 0..Len(backlog \o <<LastChunk>>)
    <3>1. backlog \o <<LastChunk>> = <<LastChunk>>
      BY <2>1
    <3> QED BY <2>1, <3>1
  <2> QED BY <1>2, <2>1, <2>2, SendBacklog
<1>4. /\ thread' \in ThreadType /\ thread'.finished /\ ~thread'.use_cache
      /\ thread'.sock = thread.sock /\ thread'.http_ready = thread.http_ready
  BY Locked DEF ThreadType
<1>5. Conns' /\ dev' \in DevType
  BY <1>4, ConnStays
<1>6. Bytes = Len(Given) /\ Bytes' = Len(Given) /\ Len(Given') = Len(Given) + 1
      /\ Given'[Len(Given')] = LastChunk /\ Given' # <<>> /\ Len(Given) \in Nat
      /\ \A i \in 1..Len(Given) : Given'[i] = Given[i]
  <2> DEFINE g == Given
             h == Given'
  <2>1. g \in Seq(Tokens) /\ h = g \o <<LastChunk>>
    BY <1>2, <1>3
  <2> HIDE DEF g, h
  <2>2. Len(h) = Len(g) + 1 /\ h[Len(h)] = LastChunk /\ h # <<>> /\ Len(g) \in Nat
        /\ \A i \in 1..Len(g) : h[i] = g[i]
    BY <2>1
  <2>3. Bytes = Len(Given) /\ Bytes' = Len(Given') - 1
    BY <1>4 DEF Bytes
  <2> QED BY <2>2, <2>3 DEF g, h
<1>7. Stream(Given, Len(Given), body.icy, from, decode.size, Cursor, icy.remain)
  BY <1>1, <1>6 DEF GivenIs
<1>8. ~MarkAt(body.icy, Len(Given) + 1)
  <2>1. body.icy => (Len(Given) % (Interval + 1)) + 1 <= Interval
    <3>1. body.icy => icy.remain = Interval - (Len(Given) % (Interval + 1)) /\ icy.remain > 0
      BY <1>1, <1>7 DEF Stream, GivenIs, IInv, Icys
    <3> DEFINE m == Len(Given) % (Interval + 1)
    <3>2. m \in Int
      BY <1>2, <1>6, BoundsAreNat, DivMod
    <3>3. body.icy => icy.remain = Interval - m /\ icy.remain > 0
      BY <3>1
    <3> HIDE DEF m
    <3>4. body.icy => m + 1 <= Interval
      BY <1>2, <3>2, <3>3
    <3> QED BY <3>4 DEF m
  <2>2. 1 \in Nat /\ 1 > 0
    OBVIOUS
  <2> QED BY <1>2, <1>6, <2>1, <2>2, NoMark
<1>9. GivenIs(from)'
  <2>1. Cursor' = Cursor /\ decode' = decode /\ icy' = icy
    BY <1>4 DEF Cursor, Filled
  <2>2. Stream(Given', Len(Given), body.icy, from, decode.size, Cursor, icy.remain)
    BY <1>6, <1>7 DEF Stream, StreamOK
  <2> QED BY <1>1, <1>3, <1>4, <1>6, <1>8, <2>1, <2>2 DEF GivenIs
<1>10. CacheOK' /\ Icys'
  BY <1>4 DEF IInv, CacheOK, Icys, Open
<1>11. thread'.lingering \/ thread'.finished => drained' /\ used = 0
  OBVIOUS
<1>12. /\ cache' \in CacheType /\ icy' \in IcyType /\ cache'.total = cache.total
  BY DEF IInv, TypeOK
<1>13. 0 \in Nat /\ 0 <= used /\ obuf' = used - 0 /\ cache'.total = cache.total + 0
  BY <1>12, Locked
<1>14. Whole'
  <2>1. obuf' \in 0..ObufSize /\ pc' = "select" /\ decode' \in DecodeType /\ output' \in OutputType
        /\ drained' \in BOOLEAN
    BY DEF Filled, IInv, TypeOK
  <2>2. TypeOK'
    BY <1>3, <1>4, <1>5, <1>12, <2>1 DEF TypeOK
  <2>3. BodyIs(from)'
    BY <1>9, <2>2, GivenIsBody, PTL
  <2> QED BY <1>9, <2>3 DEF Whole
<1> QED BY <1>3, <1>4, <1>5, <1>10, <1>11, <1>12, <1>13, <1>14, Keeps

\* The thread closes the connection once the last chunk has gone.
LEMMA CloseFinished ==
  ASSUME IInv, NEW used, Filled(used), backlog = <<>>, ~thread.use_cache, used = 0, thread.finished,
         thread' = [thread EXCEPT !.lingering = TRUE, !.sock = FALSE],
         dev' = [dev EXCEPT !.conn = "none"], body' = [body EXCEPT !.ended = TRUE],
         obuf' = used, UNCHANGED <<cache, backlog, icy>>
  PROVE  IInv'
<1>1. PICK from \in Nat : BodyIs(from) /\ GivenIs(from)
  BY Locked
<1>2. /\ TypeOK /\ body.tokens \in Seq(Tokens) /\ decode.size \in Nat /\ body.icy \in BOOLEAN
      /\ body \in BodyType /\ dev \in DevType /\ cache.total \in Nat
  BY Types DEF IInv, TypeOK
<1>3. /\ thread' \in ThreadType /\ ~thread'.sock
  BY Locked DEF ThreadType
<1>4. dev' \in DevType /\ dev'.conn = "none" /\ ~dev'.asks
  BY <1>2, Locked DEF DevType
<1>5. Conns'
  BY <1>3, <1>4 DEF Conns, Filled
<1>6. body' \in BodyType /\ body'.tokens = body.tokens /\ body'.promised = body.promised
      /\ body'.icy = body.icy /\ body'.ended
  BY <1>2 DEF BodyType
<1>7. drained /\ drained'
  BY DEF IInv, Lingers, Filled
<1>8. Given = body.tokens
  BY <1>2 DEF Given
<1>9. BodyIs(from)'
  <2>1. Bytes = Len(body.tokens) - 1 /\ Len(body.tokens) \in Nat /\ Len(body.tokens) # 0
        /\ body.tokens[Len(body.tokens)] = LastChunk
    <3>1. body.tokens # <<>> /\ body.tokens[Len(body.tokens)] = LastChunk
      BY <1>1, <1>8 DEF GivenIs
    <3>2. Len(body.tokens) # 0 /\ Len(body.tokens) \in Nat
      BY <1>2, <3>1
    <3> QED BY <1>8, <3>1, <3>2 DEF Bytes
  <2>2. from + Count(body.icy, Len(body.tokens) - 1) = decode.size
    <3>1. from + Count(body.icy, Bytes) = cache.total
      BY <1>1 DEF GivenIs, Stream, Cursor
    <3>2. cache.total + used = decode.size
      BY <1>7 DEF Filled
    <3> QED BY <1>2, <2>1, <3>1, <3>2
  <2>3. decode' = decode /\ Len(body.tokens) > 0
    BY <2>1 DEF Filled
  <2> QED BY <1>1, <1>6, <1>7, <2>1, <2>2, <2>3 DEF BodyIs
<1>10. Whole' /\ CacheOK' /\ Icys'
  BY <1>3, <1>9 DEF Whole, Open, CacheOK, IInv, Icys
<1>11. /\ cache' \in CacheType /\ icy' \in IcyType /\ backlog' \in Seq(Tokens)
       /\ cache'.total = cache.total
  BY DEF IInv, TypeOK
<1>12. 0 \in Nat /\ 0 <= used /\ obuf' = used - 0 /\ cache'.total = cache.total + 0
  BY <1>11, Locked
<1> QED BY <1>3, <1>4, <1>5, <1>6, <1>7, <1>10, <1>11, <1>12, Keeps

LEMMA SendStep ==
  ASSUME IInv, NEW used, Filled(used), Send(used, drained')
  PROVE  IInv'
<1>0. used \in Nat /\ drained' \in BOOLEAN
  BY Locked DEF Filled
<1>1. CASE ~thread.wfds /\ (thread.use_cache \/ used > 0 \/ backlog # <<>>)
  <2>1. /\ thread' = [thread EXCEPT !.wfds = TRUE] /\ obuf' = used
        /\ UNCHANGED <<cache, backlog, icy, dev, body>>
    BY <1>1 DEF Send
  <2> QED BY <2>1, SendLater
<1>2. CASE ~(~thread.wfds /\ (thread.use_cache \/ used > 0 \/ backlog # <<>>)) /\ backlog # <<>>
  <2>1. /\ \E n \in 1..Len(backlog) : Sent(<<>>, n)
        /\ obuf' = used /\ UNCHANGED <<thread, cache, icy, dev>>
    BY <1>2 DEF Send
  <2> QED BY <1>2, <2>1, SendWaiting
<1>3. CASE /\ ~(~thread.wfds /\ (thread.use_cache \/ used > 0 \/ backlog # <<>>))
           /\ backlog = <<>> /\ (thread.use_cache \/ used > 0)
  <2>1. SendFromCache(used) \/ SendFromObuf(used) \/ NothingToSend(used)
    BY <1>3 DEF Send
  <2> QED BY <1>3, <2>1, SendKept, SendNew, SendNothing
<1>4. CASE backlog = <<>> /\ ~(thread.use_cache \/ used > 0) /\ thread.finished
  <2>1. /\ thread' = [thread EXCEPT !.lingering = TRUE, !.sock = FALSE]
        /\ dev' = [dev EXCEPT !.conn = "none"] /\ body' = [body EXCEPT !.ended = TRUE]
        /\ obuf' = used /\ UNCHANGED <<cache, backlog, icy>>
    BY <1>4 DEF Send
  <2>2. used = 0
    BY <1>0, <1>4
  <2> QED BY <1>4, <2>1, <2>2, CloseFinished
<1>5. CASE backlog = <<>> /\ ~(thread.use_cache \/ used > 0) /\ ~thread.finished /\ drained'
  <2>1. /\ \E n \in 0..1 : Sent(<<LastChunk>>, n)
        /\ thread' = [thread EXCEPT !.finished = TRUE] /\ obuf' = used /\ UNCHANGED <<cache, icy, dev>>
    BY <1>5 DEF Send
  <2>2. used = 0
    BY <1>0, <1>5
  <2> QED BY <1>5, <2>1, <2>2, SendLast
<1>6. CASE backlog = <<>> /\ ~(thread.use_cache \/ used > 0) /\ ~thread.finished /\ ~drained'
  <2>1. /\ thread' = [thread EXCEPT !.wfds = FALSE] /\ obuf' = used
        /\ UNCHANGED <<cache, backlog, icy, dev, body>>
    BY <1>6 DEF Send
  <2> QED BY <2>1, SendLater
<1> QED BY <1>1, <1>2, <1>3, <1>4, <1>5, <1>6

LEMMA ServeStep ==
  ASSUME IInv, Serve
  PROVE  IInv'
<1>1. PICK fill \in IF drained THEN {[bytes |-> 0, more |-> FALSE]} ELSE Fills :
        LET ends == ~drained /\ Drains(fill) IN
        /\ drained' = (drained \/ ends)
        /\ output' = [output EXCEPT !.completed = @ \/ ends]
        /\ Send(obuf + fill.bytes, drained')
  BY DEF Serve
<1>2. pc = "locked" /\ pc' = "select" /\ decode' = decode
  BY DEF Serve
<1>3. Filled(obuf + fill.bytes)
  BY <1>1, <1>2, FillIs
<1> QED BY <1>1, <1>3, SendStep

-----------------------------------------------------------------------------
\* handle_http.

\* What a response does with the cache, and that it promises what comes next.
LEMMA ResponseIs ==
  ASSUME IInv, NEW req \in Requests, NEW r \in Responses(req)
  PROVE  /\ r.cache \in CacheType /\ SameData(cache, r.cache) /\ Holds(r.cache)
         /\ r.serves \in BOOLEAN /\ r.use_cache \in BOOLEAN
         /\ r.serves =>
              LET from == IF r.use_cache THEN CursorOf(r.cache) ELSE r.cache.total IN
              /\ InRing(r.cache) /\ from \in 0..cache.total
              /\ Promised(req) \in {Unknown, from}
<1>1. /\ cache \in CacheType /\ Holds(cache) /\ cache.total \in Nat /\ CacheSize \in Nat /\ CacheSize > 1
      /\ thread.use_cache \in BOOLEAN /\ output.length \in Int /\ req.range \in Int
  <2>1. output.length \in Int
    BY HttpAssumption DEF IInv, TypeOK, OutputType
  <2>2. req.range \in Int
    BY BoundsAreNat DEF Requests
  <2> QED BY <2>1, <2>2, Types, ThreadFields, BoundsAreNat DEF IInv, TypeOK, CacheOK
<1>2. Level(cache) = Kept /\ Kept \in 0..cache.total
  BY <1>1, CacheFields DEF Level, Kept, RingLevel, Least
<1> DEFINE total == cache.total
           kept == Kept
           range == req.range
           at(d) == IF d.use_cache THEN CursorOf(d.cache) ELSE d.cache.total
<1>3. ASSUME NEW offset \in Nat, NEW d, d = SetOffset(cache, offset)
      PROVE  /\ d \in CacheType /\ SameData(cache, d) /\ Holds(d) /\ InRing(d) /\ d.total = total
             /\ CursorOf(d) = IF offset >= total THEN total
                              ELSE IF offset < total - kept THEN total - kept ELSE offset
  BY <1>1, <1>2, <1>3, OffsetSet DEF SameData
<1>4. ASSUME NEW offset \in Nat, r = FromCache(offset)
      PROVE  /\ r.cache \in CacheType /\ SameData(cache, r.cache) /\ Holds(r.cache) /\ InRing(r.cache)
             /\ r.serves = TRUE /\ r.use_cache = TRUE
             /\ at(r) = IF offset >= total THEN total
                        ELSE IF offset < total - kept THEN total - kept ELSE offset
  <2>1. r.serves = TRUE /\ r.use_cache = TRUE /\ r.cache = SetOffset(cache, offset)
    BY <1>4 DEF FromCache
  <2> QED BY <1>3, <2>1
<1>5. ASSUME r = Live
      PROVE  /\ r.cache \in CacheType /\ SameData(cache, r.cache) /\ Holds(r.cache) /\ InRing(r.cache)
             /\ r.serves = TRUE /\ r.use_cache = FALSE /\ at(r) = total
  <2>1. r.serves = TRUE /\ r.use_cache = FALSE /\ r.cache = SetOffset(cache, 0)
    BY <1>5 DEF Live
  <2> QED BY <1>3, <2>1
<1>6. CASE r \in Refused
  <2>1. r.serves = FALSE /\ r.use_cache = TRUE /\ r.cache = SetOffset(cache, 0)
    BY <1>6 DEF Refused
  <2>2. r.cache \in CacheType /\ SameData(cache, r.cache) /\ Holds(r.cache)
    BY <1>3, <2>1
  <2> QED BY <2>1, <2>2
<1>7. CASE ~req.mine
  <2>1. r = [serves |-> FALSE, use_cache |-> thread.use_cache, cache |-> cache]
    BY <1>7 DEF Responses
  <2> QED BY <1>1, <2>1 DEF SameData
<1>8. Promised(req) = IF range <= 0 THEN total - kept
                      ELSE IF range >= total - kept /\ range <= total THEN range ELSE Unknown
  <2>1. range \in total - kept .. total <=> range >= total - kept /\ range <= total
    BY <1>1, <1>2
  <2> QED BY <2>1 DEF Promised
<1> DEFINE Answers == /\ r.cache \in CacheType /\ SameData(cache, r.cache) /\ Holds(r.cache)
                      /\ InRing(r.cache) /\ r.serves = TRUE /\ r.use_cache \in BOOLEAN
                      /\ at(r) \in 0..total /\ Promised(req) \in {Unknown, at(r)}
<1>12. Answers => /\ r.cache \in CacheType /\ SameData(cache, r.cache) /\ Holds(r.cache)
                  /\ r.serves \in BOOLEAN /\ r.use_cache \in BOOLEAN
                  /\ r.serves =>
                       LET from == IF r.use_cache THEN CursorOf(r.cache) ELSE r.cache.total IN
                       /\ InRing(r.cache) /\ from \in 0..cache.total
                       /\ Promised(req) \in {Unknown, from}
  OBVIOUS
<1> HIDE DEF total, kept, range, at
<1>9. total \in Nat /\ kept \in 0..total /\ range \in Int
  BY <1>1, <1>2 DEF total, kept, range
<1>10. ASSUME req.mine, range > 0, total > 0, r \notin Refused PROVE Answers
  <2>1. r \in RangeResponses(range)
    BY <1>10 DEF Responses, range, total
  <2>2. CASE ~thread.lingering /\ total = range
    <3>1. r = Live
      BY <2>1, <2>2 DEF RangeResponses, total
    <3>2. at(r) = total /\ Promised(req) \in {Unknown, total} /\ total \in 0..total
      BY <1>5, <1>8, <1>9, <2>2, <3>1
    <3>3. at(r) \in 0..total /\ Promised(req) \in {Unknown, at(r)}
      BY <3>2
    <3>4. /\ r.cache \in CacheType /\ SameData(cache, r.cache) /\ Holds(r.cache)
          /\ InRing(r.cache) /\ r.serves = TRUE /\ r.use_cache \in BOOLEAN
      BY <1>5, <3>1
    <3> QED BY <3>3, <3>4
  <2>3. CASE ~(~thread.lingering /\ total = range) /\ InScope(cache, range)
    <3>1. r = FromCache(range) /\ range < total /\ range >= total - kept /\ range \in Nat
      BY <1>2, <1>9, <1>10, <2>1, <2>3 DEF RangeResponses, InScope, total, kept
    <3>2. at(r) = range
      <4>1. at(r) = IF range >= total THEN total ELSE IF range < total - kept THEN total - kept ELSE range
        BY <1>4, <3>1
      <4> QED BY <1>9, <3>1, <4>1
    <3>3. Promised(req) \in {Unknown, range} /\ range \in 0..total
      BY <1>8, <1>9, <3>1
    <3> QED BY <1>4, <3>1, <3>2, <3>3
  <2>4. CASE ~(~thread.lingering /\ total = range) /\ ~InScope(cache, range)
    <3>1. ~(thread.lingering /\ range >= total) /\ r \in {FromCache(o) : o \in ProbeOffsets(range)}
      BY <1>10, <2>1, <2>4 DEF RangeResponses, total
    <3>2. ~(range < total /\ range >= total - kept)
      BY <1>2, <2>4 DEF InScope, total, kept
    <3>3. range # total
      BY <1>9, <2>4, <3>1
    <3>4. Promised(req) = Unknown
      BY <1>8, <1>9, <1>10, <3>2, <3>3
    <3>5. ProbeOffsets(range) \subseteq Nat
      BY <1>1, <1>9, <1>10 DEF ProbeOffsets, Least, total
    <3>6. PICK o \in Nat : r = FromCache(o)
      BY <3>1, <3>5
    <3>7. at(r) \in 0..total
      <4>1. at(r) = IF o >= total THEN total ELSE IF o < total - kept THEN total - kept ELSE o
        BY <1>4, <3>6
      <4> QED BY <1>9, <4>1
    <3> QED BY <1>4, <3>4, <3>6, <3>7
  <2> QED BY <2>2, <2>3, <2>4
<1>11. ASSUME req.mine, ~(range > 0 /\ total > 0), r \notin Refused PROVE Answers
  <2>1. ~thread.lingering /\ r \in (IF total > 0 THEN {FromCache(0)} ELSE {Live})
    BY <1>11 DEF Responses, range, total
  <2>2. CASE total > 0
    <3>1. r = FromCache(0) /\ range <= 0
      BY <1>9, <1>11, <2>1, <2>2
    <3>2. at(r) = total - kept
      <4>1. at(r) = IF 0 >= total THEN total ELSE IF 0 < total - kept THEN total - kept ELSE 0
        <5>1. 0 \in Nat
          OBVIOUS
        <5> QED BY <1>4, <3>1, <5>1
      <4> QED BY <1>9, <2>2, <4>1
    <3>3. Promised(req) = total - kept /\ total - kept \in 0..total
      BY <1>8, <1>9, <3>1
    <3> QED BY <1>4, <3>1, <3>2, <3>3
  <2>3. CASE ~(total > 0)
    <3>1. r = Live /\ total = 0 /\ kept = 0
      BY <1>9, <2>1, <2>3
    <3>2. at(r) = 0 /\ Promised(req) \in {Unknown, 0}
      BY <1>5, <1>8, <1>9, <3>1
    <3> QED BY <1>5, <1>9, <3>1, <3>2
  <2> QED BY <2>2, <2>3
<1> HIDE DEF Answers
<1>13. r \in Refused \/ ~req.mine \/ Answers
  BY <1>10, <1>11
<1> QED BY <1>6, <1>7, <1>12, <1>13

LEMMA Answering ==
  ASSUME NEW t \in ThreadType, NEW u \in BOOLEAN, NEW s \in BOOLEAN, NEW l \in BOOLEAN
  PROVE  [t EXCEPT !.acquired = TRUE, !.use_cache = u, !.http_ready = s, !.sock = s,
                   !.wfds = FALSE, !.lingering = l] \in ThreadType
BY DEF ThreadType

LEMMA HandleHttpStep ==
  ASSUME IInv, HandleHttp
  PROVE  IInv'
<1>1. /\ pc = "select" /\ thread.sock /\ dev.asks /\ TypeOK /\ Conns
  BY DEF HandleHttp, Serving, IInv
<1>2. dev.req \in Requests /\ dev \in DevType /\ thread \in ThreadType /\ icy \in IcyType
  BY <1>1 DEF TypeOK, DevType
<1>3. backlog = <<>> /\ ~thread.finished
  BY <1>1 DEF Conns
<1>4. PICK r \in Responses(dev.req) :
        LET serves == r.serves /\ ~dev.req.head IN
        /\ cache' = r.cache
        /\ thread' = [thread EXCEPT !.acquired = TRUE, !.use_cache = r.use_cache,
                        !.http_ready = serves, !.sock = serves, !.wfds = FALSE,
                        !.lingering = @ \/ (~serves /\ thread.finished)]
        /\ pc' = IF serves THEN "locked" ELSE "select"
        /\ body' = IF serves THEN [NoBody EXCEPT !.promised = Promised(dev.req),
                                                 !.icy = dev.req.icy]
                             ELSE NoBody
        /\ dev' = [dev EXCEPT !.asks = FALSE,
                              !.conn = IF serves THEN @ ELSE "none"]
  BY DEF HandleHttp
<1>5. /\ icy' = IF dev.req.icy THEN [active |-> TRUE, remain |-> Interval]
                               ELSE [icy EXCEPT !.active = FALSE]
      /\ drained' = drained /\ obuf' = obuf /\ backlog' = backlog /\ output' = output /\ decode' = decode
  BY DEF HandleHttp
<1>6. /\ r.cache \in CacheType /\ SameData(cache, r.cache) /\ Holds(r.cache)
      /\ r.serves \in BOOLEAN /\ r.use_cache \in BOOLEAN
      /\ r.serves =>
           LET from == IF r.use_cache THEN CursorOf(r.cache) ELSE r.cache.total IN
           /\ InRing(r.cache) /\ from \in 0..cache.total
           /\ Promised(dev.req) \in {Unknown, from}
  BY <1>2, ResponseIs
<1> DEFINE serves == r.serves /\ ~dev.req.head
<1>7. dev.req.head \in BOOLEAN /\ dev.req.icy \in BOOLEAN /\ serves \in BOOLEAN
  BY <1>2, <1>6 DEF Requests
<1>8. cache' \in CacheType /\ Holds(cache') /\ cache'.total = cache.total
  BY <1>4, <1>6 DEF SameData
<1>9. /\ thread' = [thread EXCEPT !.acquired = TRUE, !.use_cache = r.use_cache,
                     !.http_ready = serves, !.sock = serves, !.wfds = FALSE,
                     !.lingering = thread.lingering \/ (~serves /\ thread.finished)]
      /\ pc' = (IF serves THEN "locked" ELSE "select")
      /\ dev' = [dev EXCEPT !.asks = FALSE, !.conn = IF serves THEN dev.conn ELSE "none"]
  BY <1>4
<1>10. body' = IF serves THEN [NoBody EXCEPT !.promised = Promised(dev.req), !.icy = dev.req.icy] ELSE NoBody
  BY <1>4
<1> HIDE DEF serves
<1>11. /\ thread' \in ThreadType /\ thread'.use_cache = r.use_cache
       /\ thread'.http_ready = serves /\ thread'.sock = serves
       /\ thread'.finished = thread.finished /\ thread'.lingering = thread.lingering
  <2> DEFINE l == thread.lingering \/ (~serves /\ thread.finished)
  <2>1. l = thread.lingering /\ l \in BOOLEAN
    BY <1>1, <1>3, ThreadFields
  <2>2. thread' = [thread EXCEPT !.acquired = TRUE, !.use_cache = r.use_cache,
                     !.http_ready = serves, !.sock = serves, !.wfds = FALSE, !.lingering = l]
    BY <1>9
  <2> HIDE DEF l
  <2>3. thread' \in ThreadType
    BY <1>2, <1>6, <1>7, <2>1, <2>2, Answering
  <2>4. /\ thread'.use_cache = r.use_cache /\ thread'.http_ready = serves /\ thread'.sock = serves
        /\ thread'.finished = thread.finished /\ thread'.lingering = l
    BY <1>2, <2>2 DEF ThreadType
  <2> QED BY <2>1, <2>3, <2>4
<1>12. dev' \in DevType /\ ~dev'.asks /\ (IF serves THEN dev'.conn = dev.conn ELSE dev'.conn = "none")
  <2>1. CASE serves
    BY <1>2, <1>9, <2>1 DEF DevType
  <2>2. CASE ~serves
    BY <1>2, <1>9, <2>2 DEF DevType
  <2> QED BY <1>7, <2>1, <2>2
<1>13. icy' \in IcyType /\ icy'.active = dev.req.icy /\ (dev.req.icy => icy'.remain = Interval) /\ Icys'
  <2>0. Interval \in Nat /\ Interval > 0 /\ Interval \in 0..Interval
    BY BoundsAreNat
  <2>1. CASE dev.req.icy
    <3>1. icy' = [active |-> TRUE, remain |-> Interval]
      BY <1>5, <2>1
    <3> QED BY <2>0, <2>1, <3>1 DEF IcyType, Icys
  <2>2. CASE ~dev.req.icy
    <3>1. icy' = [icy EXCEPT !.active = FALSE]
      BY <1>5, <2>2
    <3>2. icy' \in IcyType /\ icy'.active = FALSE
      BY <1>2, <3>1 DEF IcyType
    <3> QED BY <1>7, <2>2, <3>2 DEF Icys
  <2> QED BY <2>1, <2>2
<1>14. serves => LET from == Cursor' IN
         /\ from \in 0..cache.total /\ Promised(dev.req) \in {Unknown, from} /\ InRing(cache')
  BY <1>4, <1>6, <1>11 DEF Cursor, serves
<1>15. /\ cache.total \in Nat /\ decode.size \in Nat /\ decode.size <= Length
       /\ cache.total <= decode.size
  <2>1. cache.total \in Nat /\ obuf \in Nat /\ decode.size \in Nat /\ decode.size <= Length
    BY <1>1, Types
  <2>2. cache.total + obuf <= decode.size
    BY DEF IInv, Amounts
  <2> QED BY <2>1, <2>2
<1>16. body' \in BodyType /\ (serves => body'.promised = Promised(dev.req) /\ body'.icy = dev.req.icy
                                        /\ body'.tokens = <<>> /\ ~body'.ended)
  <2>0. NoBody \in BodyType
    BY DEF NoBody, BodyType
  <2>1. CASE serves
    <3>1. Promised(dev.req) \in {Unknown} \cup 0..Length
      <4>1. Cursor' \in 0..Length
        BY <1>14, <1>15, <2>1, BoundsAreNat
      <4> QED BY <1>14, <2>1, <4>1
    <3>2. body' = [tokens |-> <<>>, promised |-> Promised(dev.req), icy |-> dev.req.icy, ended |-> FALSE]
      BY <1>10, <2>1 DEF NoBody
    <3> QED BY <1>7, <3>1, <3>2 DEF BodyType
  <2>2. CASE ~serves
    BY <1>10, <2>0, <2>2
  <2> QED BY <1>7, <2>1, <2>2
<1>165. pc' \in {"select", "locked", "exited"}
  BY <1>7, <1>9
<1>17. TypeOK'
  BY <1>1, <1>165, <1>5, <1>7, <1>8, <1>9, <1>11, <1>12, <1>13, <1>16 DEF TypeOK
<1>18. CacheOK'
  BY <1>8, <1>11, <1>14 DEF CacheOK, Open
<1>19. Conns'
  BY <1>1, <1>7, <1>9, <1>11, <1>12, <1>5, <1>3 DEF Conns, Open
<1>20. Amounts' /\ Lingers'
  BY <1>1, <1>5, <1>8, <1>9, <1>11 DEF IInv, Amounts, Lingers
<1>21. Whole'
  <2>1. CASE serves
    <3>1. PICK from \in Nat : from = Cursor' /\ Promised(dev.req) \in {Unknown, from}
      BY <1>14, <1>15, <2>1
    <3>2. Given' = <<>> /\ Bytes' = 0 /\ Len(<<>>) = 0
      BY <1>3, <1>5, <1>11, <1>16, <2>1 DEF Given, Bytes
    <3>3. Stream(<<>>, 0, dev.req.icy, from, decode.size, from, Interval)
      <4>1. Count(dev.req.icy, 0) = 0 /\ 0 % (Interval + 1) = 0
        <5>1. Interval + 1 \in Nat /\ Interval + 1 > 0 /\ 0 = (Interval + 1) * 0 + 0
              /\ 0 \in 0..(Interval + 1) - 1
          BY BoundsAreNat
        <5>2. 0 % (Interval + 1) = 0
          BY <5>1, DivModUnique
        <5> QED BY <1>7, <5>2, CountIsInt
      <4>2. StreamOK(<<>>, 0, dev.req.icy, from, decode.size)
        BY DEF StreamOK
      <4>3. Interval = Interval - 0 /\ from + 0 = from
        BY BoundsAreNat
      <4> QED BY <4>1, <4>2, <4>3 DEF Stream
    <3>4. Stream(Given', Bytes', body'.icy, from, decode'.size, Cursor', icy'.remain)
      <4>1. dev.req.icy => icy'.remain = Interval
        BY <1>13
      <4> QED BY <1>5, <1>16, <2>1, <3>1, <3>2, <3>3, <4>1 DEF Stream
    <3>5. GivenIs(from)'
      BY <1>3, <1>11, <1>13, <1>16, <2>1, <3>1, <3>4 DEF GivenIs
    <3>6. BodyIs(from)'
      BY <1>17, <3>1, <3>5, GivenIsBody, PTL
    <3> QED BY <3>1, <3>5, <3>6 DEF Whole
  <2>2. CASE ~serves
    <3>1. body' = NoBody /\ ~Open'
      BY <1>10, <1>11, <2>2 DEF Open
    <3> QED BY <3>1, NothingCame
  <2> QED BY <1>7, <2>1, <2>2
<1> QED BY <1>13, <1>17, <1>18, <1>19, <1>20, <1>21 DEF IInv

-----------------------------------------------------------------------------
\* The other steps.

LEMMA InitHolds ==
  ASSUME Init
  PROVE  IInv
<1>1. /\ pc = "select" /\ drained = FALSE /\ obuf = 0 /\ backlog = <<>>
      /\ thread = [running |-> TRUE, terminate |-> FALSE, lingering |-> FALSE,
                   sock |-> FALSE, use_cache |-> FALSE, acquired |-> FALSE,
                   http_ready |-> FALSE, finished |-> FALSE, wfds |-> FALSE]
      /\ icy = [active |-> FALSE, remain |-> 0]
      /\ decode = [state |-> "RUNNING", new_stream |-> TRUE, made |-> 0, size |-> 0]
      /\ dev = [conn |-> "none", asks |-> FALSE, req |-> NoRequest, count |-> 0]
      /\ body = NoBody
  BY DEF Init
<1>2. cache \in CacheType /\ cache.total = 0 /\ Holds(cache)
  BY NewCacheHolds DEF Init
<1>3. output \in OutputType /\ output.completed = FALSE
  BY DEF Init, OutputType
<1>4. thread \in ThreadType /\ ~thread.sock /\ ~thread.lingering /\ ~thread.finished
  BY <1>1 DEF ThreadType
<1>5. icy \in IcyType /\ ~icy.active
  BY <1>1, BoundsAreNat DEF IcyType
<1>6. decode \in DecodeType /\ decode.made = 0 /\ decode.size = 0 /\ decode.state = "RUNNING"
  BY <1>1, BoundsAreNat DEF DecodeType
<1>7. dev \in DevType /\ dev.conn = "none" /\ ~dev.asks
  <2>1. NoRequest \in Requests
    BY BoundsAreNat DEF NoRequest, Requests
  <2> QED BY <1>1, <2>1, HttpAssumption DEF DevType
<1>8. body \in BodyType
  BY <1>1 DEF NoBody, BodyType
<1>9. TypeOK
  <2>1. pc \in {"select", "locked", "exited"} /\ drained \in BOOLEAN
    BY <1>1
  <2>2. obuf \in 0..ObufSize
    BY <1>1, BoundsAreNat
  <2>3. backlog \in Seq(Tokens)
    BY <1>1
  <2> QED BY <1>2, <1>3, <1>4, <1>5, <1>6, <1>7, <1>8, <2>1, <2>2, <2>3 DEF TypeOK
<1>10. CacheOK /\ Conns /\ Lingers /\ Icys
  BY <1>1, <1>2, <1>4, <1>5, <1>7 DEF CacheOK, Conns, Lingers, Icys, Open
<1>11. Amounts
  BY <1>1, <1>2, <1>3, <1>6 DEF Amounts
<1>12. Whole
  <2>1. BodyIs(0)
    BY <1>1 DEF BodyIs, NoBody
  <2> QED BY <1>4, <2>1 DEF Whole, Open
<1> QED BY <1>9, <1>10, <1>11, <1>12 DEF IInv

\* Neither the connection nor what is sent over it.
LEMMA Quiet ==
  ASSUME IInv, TypeOK', Amounts', Grows, drained' = drained, pc' = "locked" => Open,
         UNCHANGED <<cache, obuf, backlog, icy, dev, body>>,
         thread'.sock = thread.sock, thread'.http_ready = thread.http_ready,
         thread'.use_cache = thread.use_cache, thread'.finished = thread.finished,
         thread'.lingering = thread.lingering
  PROVE  IInv'
<1>1. Whole'
  BY WholeStays DEF IInv
<1>2. Open' = Open
  BY DEF Open
<1>3. CacheOK' /\ Conns' /\ Lingers' /\ Icys'
  BY <1>2 DEF IInv, CacheOK, Conns, Lingers, Icys
<1> QED BY <1>1, <1>3 DEF IInv

LEMMA SameTrack ==
  ASSUME TypeOK, decode' = decode, drained' = drained
  PROVE  Grows
BY Types DEF Grows

LEMMA QuietStep ==
  ASSUME IInv, \/ \E writable \in BOOLEAN : Select(writable)
               \/ \E full \in BOOLEAN : Flush(full)
               \/ NotRunning \/ OutputRuns \/ Terminate
  PROVE  IInv'
<1>1. TypeOK /\ thread \in ThreadType /\ output \in OutputType /\ Amounts
  BY DEF IInv, TypeOK
<1>2. /\ decode' = decode /\ drained' = drained /\ UNCHANGED <<cache, obuf, backlog, icy, dev, body>>
      /\ output' \in OutputType /\ output'.completed = output.completed
  <2>1. CASE \E writable \in BOOLEAN : Select(writable)
    BY <1>1, <2>1 DEF Select
  <2>2. CASE \E full \in BOOLEAN : Flush(full)
    <3>1. PICK full \in BOOLEAN : output' = [output EXCEPT !.state = IF full THEN "STOPPED" ELSE output.state]
      BY <2>2 DEF Flush
    <3>2. output' \in OutputType /\ output'.completed = output.completed
      BY <1>1, <3>1 DEF OutputType
    <3> QED BY <2>2, <3>2 DEF Flush
  <2>3. CASE NotRunning
    BY <1>1, <2>3 DEF NotRunning
  <2>4. CASE OutputRuns
    <3>1. output' = [output EXCEPT !.state = "RUNNING"]
      BY <2>4 DEF OutputRuns
    <3>2. output' \in OutputType /\ output'.completed = output.completed
      BY <1>1, <3>1 DEF OutputType
    <3> QED BY <2>4, <3>2 DEF OutputRuns
  <2>5. CASE Terminate
    BY <1>1, <2>5 DEF Terminate
  <2> QED BY <2>1, <2>2, <2>3, <2>4, <2>5
<1>3. /\ thread' \in ThreadType
      /\ thread'.sock = thread.sock /\ thread'.http_ready = thread.http_ready
      /\ thread'.use_cache = thread.use_cache /\ thread'.finished = thread.finished
      /\ thread'.lingering = thread.lingering
  <2>1. ASSUME NEW x \in BOOLEAN, thread' = [thread EXCEPT !.wfds = x]
        PROVE <1>3!:
    BY <1>1, <2>1 DEF ThreadType
  <2>2. ASSUME thread' = [thread EXCEPT !.running = FALSE]
        PROVE <1>3!:
    BY <1>1, <2>2 DEF ThreadType
  <2>3. ASSUME thread' = [thread EXCEPT !.terminate = TRUE]
        PROVE <1>3!:
    BY <1>1, <2>3 DEF ThreadType
  <2>4. CASE thread' = thread
    BY <1>1, <2>4
  <2> QED BY <2>1, <2>2, <2>3, <2>4 DEF Select, Flush, NotRunning, OutputRuns, Terminate
<1>4. pc' \in {"select", "locked", "exited"} /\ (pc' = "locked" => Open) /\ (pc' # "exited" => pc # "exited")
  <2>1. CASE \E writable \in BOOLEAN : Select(writable)
    BY <2>1 DEF Select, Serving, Open
  <2>2. CASE NotRunning
    BY <2>2 DEF NotRunning
  <2>3. CASE pc' = pc
    BY <1>1, <2>3 DEF IInv, Conns, TypeOK
  <2> QED BY <2>1, <2>2, <2>3 DEF Flush, OutputRuns, Terminate
<1>5. TypeOK'
  BY <1>1, <1>2, <1>3, <1>4 DEF TypeOK
<1>6. Amounts'
  BY <1>1, <1>2, <1>4 DEF Amounts
<1>7. Grows
  BY <1>1, <1>2, SameTrack
<1> QED BY <1>2, <1>3, <1>4, <1>5, <1>6, <1>7, Quiet

\* The decoder.
LEMMA DecoderStep ==
  ASSUME IInv, DecodeStarts \/ Decodes \/ DecodeEnds \/ NextTrack
  PROVE  IInv'
<1>1. /\ TypeOK /\ decode \in DecodeType /\ decode.size \in Nat /\ decode.size <= Length
      /\ decode.made \in 0..Length + 1 /\ decode.new_stream \in BOOLEAN
      /\ Amounts /\ drained \in BOOLEAN /\ Length \in Nat /\ cache.total \in Nat /\ obuf \in Nat
      /\ decode.size \in 0..Length
  BY Types, BoundsAreNat DEF IInv, TypeOK, DecodeType
<1>2. UNCHANGED <<pc, thread, drained, cache, obuf, backlog, icy, output, dev, body>>
  BY DEF DecodeStarts, Decodes, DecodeEnds, NextTrack
<1>3. /\ decode' \in DecodeType /\ decode.size <= decode'.size /\ decode'.size \in Nat
      /\ drained => decode'.size = decode.size /\ decode'.state \in {"ENDED", "STOPPED"}
      /\ ~drained => decode'.made = decode'.size /\ decode'.state \in {"RUNNING", "ENDED"}
  <2>1. CASE DecodeStarts
    <3>1. decode' = [decode EXCEPT !.new_stream = FALSE]
      BY <2>1 DEF DecodeStarts
    <3>2. decode' \in DecodeType /\ decode'.size = decode.size /\ decode'.made = decode.made
          /\ decode'.state = decode.state
      BY <1>1, <3>1 DEF DecodeType
    <3> QED BY <1>1, <3>2 DEF Amounts
  <2>2. CASE Decodes
    <3>1. /\ decode' = [decode EXCEPT !.made = decode.made + 1, !.size = decode.size + 1]
          /\ decode.state = "RUNNING" /\ decode.size < Length /\ decode.made = decode.size
      BY <2>2 DEF Decodes
    <3>2. decode.made + 1 \in 0..Length + 1 /\ decode.size + 1 \in 0..Length
      BY <1>1, <3>1
    <3>3. /\ decode' \in DecodeType /\ decode'.size = decode.size + 1 /\ decode'.made = decode.made + 1
          /\ decode'.state = decode.state
      BY <1>1, <3>1, <3>2 DEF DecodeType
    <3>4. ~drained
      BY <1>1, <3>1 DEF Amounts
    <3> QED BY <1>1, <3>1, <3>3, <3>4
  <2>3. CASE DecodeEnds
    <3>1. decode' = [decode EXCEPT !.state = "ENDED"] /\ decode.state = "RUNNING"
      BY <2>3 DEF DecodeEnds
    <3>2. decode' \in DecodeType /\ decode'.size = decode.size /\ decode'.made = decode.made
          /\ decode'.state = "ENDED"
      BY <1>1, <3>1 DEF DecodeType
    <3> QED BY <1>1, <3>2 DEF Amounts
  <2>4. CASE NextTrack
    <3>1. decode' = [decode EXCEPT !.state = "STOPPED", !.made = decode.size + 1] /\ drained
      BY <1>1, <2>4 DEF NextTrack, Amounts
    <3>2. decode.size + 1 \in 0..Length + 1
      BY <1>1
    <3>3. decode' \in DecodeType /\ decode'.size = decode.size /\ decode'.state = "STOPPED"
      BY <1>1, <3>1, <3>2 DEF DecodeType
    <3> QED BY <1>1, <3>1, <3>3
  <2> QED BY <2>1, <2>2, <2>3, <2>4
<1>4. TypeOK'
  BY <1>1, <1>2, <1>3 DEF TypeOK
<1>5. Grows
  BY <1>2, <1>3 DEF Grows
<1>6. Amounts'
  <2>1. cache.total + obuf <= decode'.size
    BY <1>1, <1>3 DEF Amounts
  <2> QED BY <1>1, <1>2, <1>3, <2>1 DEF Amounts
<1>7. pc' = "locked" => Open
  BY <1>2 DEF IInv, Conns
<1> QED BY <1>2, <1>4, <1>5, <1>6, <1>7, Quiet

\* Connections come and go.
LEMMA ConnectionStep ==
  ASSUME IInv, Accept \/ RemoteClosed \/ Connect \/ Close
  PROVE  IInv'
<1>1. /\ TypeOK /\ Conns /\ thread \in ThreadType /\ dev \in DevType /\ Amounts /\ Lingers /\ body \in BodyType
  BY DEF IInv, TypeOK
<1>2. UNCHANGED <<pc, drained, cache, obuf, icy, output, decode>>
  BY DEF Accept, RemoteClosed, Connect, Close
<1>3. Amounts' /\ Grows /\ Icys'
  BY <1>1, <1>2, SameTrack DEF Amounts, Icys, IInv
<1>4. CASE Accept
  <2>1. /\ pc = "select" /\ ~thread.sock /\ dev.conn = "pending" /\ dev.asks
        /\ thread' = [thread EXCEPT !.sock = TRUE, !.http_ready = FALSE, !.finished = FALSE, !.wfds = FALSE]
        /\ backlog' = <<>> /\ dev' = [dev EXCEPT !.conn = "open"] /\ body' = body
    BY <1>1, <1>4 DEF Accept, Conns
  <2>2. /\ thread' \in ThreadType /\ thread'.sock /\ ~thread'.http_ready /\ ~thread'.finished
        /\ thread'.lingering = thread.lingering
    BY <1>1, <2>1 DEF ThreadType
  <2>3. dev' \in DevType /\ dev'.conn = "open" /\ dev'.asks
    BY <1>1, <2>1 DEF DevType
  <2>4. TypeOK'
    BY <1>1, <1>2, <2>1, <2>2, <2>3 DEF TypeOK
  <2>5. Conns' /\ CacheOK'
    BY <1>1, <1>2, <2>1, <2>2, <2>3 DEF Conns, CacheOK, Open, IInv
  <2>6. Lingers'
    BY <1>1, <1>2, <2>2 DEF Lingers
  <2>7. Whole'
    BY <1>3, <2>1, <2>2, BodyStays DEF Open, IInv
  <2> QED BY <1>3, <2>4, <2>5, <2>6, <2>7 DEF IInv
<1>5. CASE RemoteClosed
  <2>1. /\ pc = "select" /\ ~dev.asks
        /\ thread' = [thread EXCEPT !.acquired = TRUE, !.sock = FALSE, !.http_ready = FALSE,
                        !.wfds = FALSE, !.lingering = thread.lingering \/ thread.finished]
        /\ backlog' = backlog /\ dev' = [dev EXCEPT !.conn = "none"] /\ body' = body
    BY <1>1, <1>5 DEF RemoteClosed, Serving
  <2>2. /\ thread' \in ThreadType /\ ~thread'.sock /\ thread'.finished = thread.finished
        /\ thread'.lingering = (thread.lingering \/ thread.finished)
    BY <1>1, <2>1 DEF ThreadType
  <2>3. dev' \in DevType /\ dev'.conn = "none" /\ ~dev'.asks
    BY <1>1, <2>1 DEF DevType
  <2>4. TypeOK'
    BY <1>1, <1>2, <2>1, <2>2, <2>3 DEF TypeOK
  <2>5. Conns' /\ CacheOK'
    BY <1>1, <1>2, <2>1, <2>2, <2>3 DEF Conns, CacheOK, Open, IInv
  <2>6. Lingers'
    BY <1>1, <1>2, <2>2 DEF Lingers
  <2>7. Whole'
    BY <1>3, <2>1, <2>2, BodyStays DEF Open, IInv
  <2> QED BY <1>3, <2>4, <2>5, <2>6, <2>7 DEF IInv
<1>6. CASE Connect
  <2>1. /\ dev.conn = "none" /\ dev.count < MaxConnections /\ body' = NoBody
        /\ thread' = thread /\ backlog' = backlog
    BY <1>6 DEF Connect
  <2>2. PICK q \in Requests :
          dev' = [conn |-> "pending", asks |-> TRUE, req |-> q, count |-> dev.count + 1]
    BY <1>6 DEF Connect, Asked
  <2>3. dev' \in DevType /\ dev'.conn = "pending" /\ dev'.asks
    <3>1. dev.count \in 0..MaxConnections /\ MaxConnections \in Nat
      BY <1>1, HttpAssumption DEF DevType
    <3>2. dev.count + 1 \in 0..MaxConnections
      BY <2>1, <3>1
    <3> QED BY <2>2, <3>2 DEF DevType
  <2>4. ~thread.sock /\ pc # "locked"
    BY <1>1, <2>1, ThreadFields DEF Conns, Open
  <2>5. NoBody \in BodyType
    BY DEF NoBody, BodyType
  <2>6. TypeOK'
    BY <1>1, <1>2, <2>1, <2>3, <2>5 DEF TypeOK
  <2>7. Conns' /\ CacheOK' /\ Lingers'
    BY <1>1, <1>2, <2>1, <2>3, <2>4 DEF Conns, CacheOK, Open, IInv, Lingers
  <2>8. Whole'
    BY <2>1, <2>4, NothingCame DEF Open
  <2> QED BY <1>3, <2>6, <2>7, <2>8 DEF IInv
<1>7. CASE Close
  <2>1. /\ dev.conn = "open" /\ dev' = [dev EXCEPT !.conn = "closed"] /\ thread' = thread
        /\ backlog' = backlog /\ body' = body
    BY <1>7 DEF Close
  <2>2. dev' \in DevType /\ dev'.conn = "closed" /\ dev'.asks = dev.asks
    BY <1>1, <2>1 DEF DevType
  <2>3. TypeOK'
    BY <1>1, <1>2, <2>1, <2>2 DEF TypeOK
  <2>4. Conns' /\ CacheOK' /\ Lingers'
    BY <1>1, <1>2, <2>1, <2>2 DEF Conns, CacheOK, Open, IInv, Lingers
  <2>5. Whole'
    BY <1>2, <1>3, <2>1, WholeStays DEF IInv
  <2> QED BY <1>3, <2>3, <2>4, <2>5 DEF IInv
<1> QED BY <1>4, <1>5, <1>6, <1>7

LEMMA ExitStep ==
  ASSUME IInv, Exit
  PROVE  IInv'
<1>1. /\ pc = "select" /\ pc' = "exited"
      /\ thread' = [thread EXCEPT !.running = FALSE, !.lingering = FALSE, !.sock = FALSE]
      /\ dev' = [dev EXCEPT !.conn = "none", !.asks = FALSE]
      /\ cache' = NewCache(cache.type) /\ obuf' = 0 /\ backlog' = <<>> /\ body' = NoBody
      /\ UNCHANGED <<drained, icy, output, decode>>
  BY DEF Exit
<1>2. TypeOK /\ thread \in ThreadType /\ dev \in DevType /\ cache.type \in CacheTypes /\ decode.size \in Nat
  BY Types, CacheFields DEF IInv, TypeOK
<1>3. cache' \in CacheType /\ cache'.total = 0 /\ Holds(cache')
  BY <1>1, <1>2, NewCacheHolds
<1>4. thread' \in ThreadType /\ ~thread'.sock /\ ~thread'.lingering /\ thread'.finished = thread.finished
  BY <1>1, <1>2 DEF ThreadType
<1>5. dev' \in DevType /\ dev'.conn = "none" /\ ~dev'.asks
  BY <1>1, <1>2 DEF DevType
<1>6. NoBody \in BodyType
  BY DEF NoBody, BodyType
<1>7. TypeOK'
  BY <1>1, <1>2, <1>3, <1>4, <1>5, <1>6, BoundsAreNat DEF TypeOK
<1>8. CacheOK' /\ Conns' /\ Icys'
  BY <1>1, <1>3, <1>4, <1>5 DEF CacheOK, Conns, Open, Icys, IInv
<1>9. Amounts' /\ Lingers'
  BY <1>1, <1>2, <1>3, <1>4 DEF Amounts, Lingers, IInv
<1>10. Whole'
  BY <1>1, <1>4, NothingCame DEF Open
<1> QED BY <1>7, <1>8, <1>9, <1>10 DEF IInv

LEMMA Invariance ==
  ASSUME IInv, [Next]_vars
  PROVE  IInv'
<1>1. CASE ThreadStep
  BY <1>1, ConnectionStep, HandleHttpStep, QuietStep, ServeStep, ExitStep DEF ThreadStep
<1>2. CASE Player
  BY <1>2, DecoderStep, QuietStep DEF Player
<1>3. CASE Device
  BY <1>3, ConnectionStep DEF Device
<1>4. CASE UNCHANGED vars
  <2>1. UNCHANGED <<pc, thread, drained, cache, obuf, backlog, icy, output, decode, dev, body>>
    BY <1>4 DEF vars
  <2>2. TypeOK' /\ Amounts'
    BY <2>1 DEF IInv, TypeOK, Amounts
  <2>3. Grows
    BY <2>1, SameTrack DEF IInv
  <2>4. pc' = "locked" => Open
    BY <2>1 DEF IInv, Conns
  <2> QED BY <2>1, <2>2, <2>3, <2>4, Quiet
<1> QED BY <1>1, <1>2, <1>3, <1>4 DEF Next

-----------------------------------------------------------------------------
\* The theorems.

LEMMA AlwaysIInv == Spec => []IInv
<1>1. Init => IInv
  BY InitHolds
<1>2. IInv /\ [Next]_vars => IInv'
  BY Invariance
<1> QED BY <1>1, <1>2, PTL DEF Spec

\* Of the first i tokens, one at least is not a block of metadata.
LEMMA CountIsPositive ==
  ASSUME NEW b \in BOOLEAN, NEW i \in Nat, i > 0
  PROVE  /\ Count(b, i) \in Nat /\ Count(b, i) >= 1
         /\ Count(b, 1) = 1 /\ ~MarkAt(b, 1)
<1> DEFINE N == Interval + 1
           q == i \div N
           s == i % N
<1>1. N \in Nat /\ N > 1 /\ Interval \in Nat
  BY BoundsAreNat
<1>2. q \in Nat /\ s \in 0..N - 1 /\ i = N * q + s
  <2> HIDE DEF N
  <2> QED BY <1>1, DivMod
<1>3. 1 % N = 1 /\ 1 \div N = 0
  <2> HIDE DEF N
  <2>1. 1 = N * 0 + 1 /\ 1 \in 0..N - 1
    BY <1>1
  <2> QED BY <1>1, <2>1, DivModUnique
<1>4. Count(b, i) = (IF b THEN i - q ELSE i) /\ Count(b, 1) = 1 /\ ~MarkAt(b, 1)
  BY <1>3 DEF Count, MarkAt
<1> HIDE DEF N, q, s
<1>5. i - q >= 1
  <2>1. CASE q = 0
    BY <2>1
  <2>2. CASE q > 0
    <3>1. PICK m \in Nat : N = 2 + m
      <4>1. N - 2 \in Nat /\ N = 2 + (N - 2)
        BY <1>1
      <4> QED BY <4>1
    <3>2. m * q \in Nat
      BY <1>2, <3>1
    <3>3. (2 + m) * q = 2 * q + m * q
      BY <1>2, <3>1
    <3>4. N * q = 2 * q + m * q
      BY <3>1, <3>3
    <3>5. N * q \in Nat /\ N * q >= 2 * q
      <4> DEFINE r == m * q
      <4>1. r \in Nat /\ N * q = 2 * q + r
        BY <3>2, <3>4
      <4> HIDE DEF r
      <4> QED BY <1>2, <4>1
    <3> QED BY <1>2, <2>2, <3>5
  <2> QED BY <1>2, <2>1, <2>2
<1> QED BY <1>2, <1>4, <1>5

\* What a body from a byte on is made of.
LEMMA BodyTokens ==
  ASSUME TypeOK, NEW from \in Nat, BodyIs(from), NEW i \in 1..Len(body.tokens)
  PROVE  /\ IF MarkAt(body.icy, i) THEN body.tokens[i] = Meta
            ELSE \/ /\ body.tokens[i] >= 0 /\ body.tokens[i] # LastChunk /\ body.tokens[i] # Meta
                    /\ body.tokens[i] = from + Count(body.icy, i) - 1
                 \/ i = Len(body.tokens) /\ body.tokens[i] = LastChunk
         /\ i # Len(body.tokens) => body.tokens[1] = from
         /\ body.tokens[1] = from \/ body.tokens[1] = LastChunk
<1>1. body.tokens \in Seq(Tokens) /\ body.icy \in BOOLEAN
  BY Types
<1>2. i \in Nat /\ i > 0 /\ Len(body.tokens) \in Nat /\ 1 \in 1..Len(body.tokens)
  BY <1>1
<1>3. /\ Count(body.icy, i) \in Nat /\ Count(body.icy, i) >= 1
      /\ Count(body.icy, 1) = 1 /\ ~MarkAt(body.icy, 1)
  BY <1>1, <1>2, CountIsPositive
<1>4. \A j \in 1..Len(body.tokens) :
        \/ body.tokens[j] = TokenAt(body.icy, from, j)
        \/ j = Len(body.tokens) /\ body.tokens[j] = LastChunk /\ ~MarkAt(body.icy, j)
  BY DEF BodyIs
<1>5. TokenAt(body.icy, from, 1) = from
  BY <1>3 DEF TokenAt
<1>6. CASE MarkAt(body.icy, i)
  <2>1. body.tokens[i] = Meta
    BY <1>4, <1>6 DEF TokenAt
  <2> QED BY <1>2, <1>4, <1>5, <1>6, <2>1
<1>7. CASE ~MarkAt(body.icy, i)
  <2>1. TokenAt(body.icy, from, i) = from + Count(body.icy, i) - 1
    BY <1>7 DEF TokenAt
  <2>2. from + Count(body.icy, i) - 1 >= 0
    BY <1>3
  <2> QED BY <1>2, <1>4, <1>5, <1>7, <2>1, <2>2 DEF Meta, LastChunk
<1> QED BY <1>6, <1>7

LEMMA ServerFollows ==
  ASSUME IInv
  PROVE  ServerOK
BY Types DEF IInv, ServerOK, LingersWhenDrained, Lingers, Amounts

LEMMA RangeFollows ==
  ASSUME IInv
  PROVE  RangeIsTrue
<1>1. TypeOK /\ body.tokens \in Seq(Tokens)
  BY Types DEF IInv
<1>2. PICK from \in Nat : BodyIs(from)
  BY DEF IInv, Whole
<1>3. ASSUME body.tokens # <<>>, body.tokens[1] # LastChunk
      PROVE  body.promised \in {Unknown, body.tokens[1]}
  <2>1. 1 \in 1..Len(body.tokens)
    BY <1>1, <1>3
  <2>2. body.tokens[1] = from
    BY <1>1, <1>2, <1>3, <2>1, BodyTokens
  <2> QED BY <1>2, <2>2 DEF BodyIs
<1> QED BY <1>3 DEF RangeIsTrue

LEMMA BodyFollows ==
  ASSUME IInv
  PROVE  BodyIsWhole
<1> DEFINE n == Len(body.tokens)
           t == body.tokens
           b == body.icy
<1>1. TypeOK /\ body.tokens \in Seq(Tokens) /\ b \in BOOLEAN /\ n \in Nat /\ DOMAIN t = 1..n
  BY Types DEF IInv
<1>2. PICK from \in Nat : BodyIs(from)
  BY DEF IInv, Whole
<1>3. \A i : IsMark(i) = MarkAt(b, i) /\ BytesIn(i) = Count(b, i)
  BY DEF IsMark, MarkAt, BytesIn, Count
<1>4. ASSUME NEW i \in 1..n
      PROVE  /\ IF MarkAt(b, i) THEN t[i] = Meta
                ELSE \/ t[i] >= 0 /\ t[i] # LastChunk /\ t[i] # Meta /\ t[i] = from + Count(b, i) - 1
                     \/ i = n /\ t[i] = LastChunk
             /\ i # n => t[1] = from
             /\ t[1] = from \/ t[1] = LastChunk
             /\ t[i] < decode.size
  BY <1>1, <1>2, BodyTokens DEF BodyIs
<1>5. BodyIsGapless
  <2> SUFFICES ASSUME NEW i \in 1..n, t[i] \notin {Meta, LastChunk}
               PROVE  t[i] >= 0 /\ t[i] = t[1] + Count(b, i) - 1
    BY <1>1, <1>3 DEF BodyIsGapless
  <2>1. t[i] >= 0 /\ t[i] = from + Count(b, i) - 1
    BY <1>4
  <2>2. t[1] = from
    BY <1>4
  <2> QED BY <2>1, <2>2
<1>6. IcyOnTheMark
  <2> SUFFICES ASSUME NEW i \in 1..n
               PROVE  t[i] = Meta <=> MarkAt(b, i)
    BY <1>1, <1>3 DEF IcyOnTheMark
  <2> QED BY <1>4 DEF Meta, LastChunk
<1>7. EndIsWhole
  <2>1. \A i \in 1..n : t[i] < decode.size
    BY <1>4
  <2>2. ASSUME NEW i \in 1..n - 1 PROVE t[i] # LastChunk
    <3>1. i \in 1..n /\ i # n
      BY <1>1
    <3> QED BY <1>4, <3>1 DEF Meta, LastChunk
  <2>3. ASSUME body.ended
        PROVE  /\ n > 0 /\ t[n] = LastChunk
               /\ IF n = 1 THEN body.promised \in {decode.size, Unknown}
                  ELSE t[1] + BytesIn(n - 1) = decode.size
    <3>1. n > 0 /\ t[n] = LastChunk /\ from + Count(b, n - 1) = decode.size
          /\ body.promised \in {Unknown, from}
      BY <1>2, <2>3 DEF BodyIs
    <3>2. CASE n = 1
      <4>1. n - 1 = 0 /\ Count(b, 0) = 0
        BY <1>1, <3>2, CountIsInt
      <4>2. from + 0 = decode.size
        BY <3>1, <4>1
      <4> QED BY <3>1, <3>2, <4>2
    <3>3. CASE n # 1
      <4>1. 1 \in 1..n /\ 1 # n
        BY <1>1, <3>1, <3>3
      <4>2. t[1] = from
        BY <1>4, <4>1
      <4> QED BY <1>3, <3>1, <3>3, <4>2
    <3> QED BY <3>2, <3>3
  <2> QED BY <2>1, <2>2, <2>3 DEF EndIsWhole
<1> QED BY <1>5, <1>6, <1>7 DEF BodyIsWhole

\* The thread of output_http.c lingers only once the track is out of outputbuf
\* and obuf is empty, so that what is asked of it again is in the cache.
THEOREM ServerIsSound == Spec => []ServerOK
<1>1. IInv => ServerOK
  BY ServerFollows
<1> QED BY <1>1, AlwaysIInv, PTL

\* handle_http and the cache: the first byte a device is sent is the one that it
\* was promised, whatever was dropped from the ring since.
THEOREM RangesAreTrue == Spec => []RangeIsTrue
<1>1. IInv => RangeIsTrue
  BY RangeFollows
<1> QED BY <1>1, AlwaysIInv, PTL

\* A body that output_http_thread sends is a piece of the track without a gap or
\* a repetition, with the metadata in their places, and it goes to the end of
\* the track when the thread ends it.
THEOREM BodiesAreWhole == Spec => []BodyIsWhole
<1>1. IInv => BodyIsWhole
  BY BodyFollows
<1> QED BY <1>1, AlwaysIInv, PTL
=============================================================================
