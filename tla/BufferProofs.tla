---------------------------- MODULE BufferProofs ----------------------------
(***************************************************************************)
(* Buffer keeps its pointers inside its memory and implements Fifo, for    *)
(* buffers and chunks of every size.  TypeOK is inductive, and is all that *)
(* the refinement needs: the rest is where the bytes of the ring lie.      *)
(***************************************************************************)
EXTENDS BufferMoves, SequenceTheorems, TLAPS

-----------------------------------------------------------------------------
(* Where the bytes are.                                                    *)

\* The pointers leave the data and the free space within the memory.
LEMMA Bounds ==
  ASSUME TypeOK, size > 0
  PROVE  /\ readp \in 0..(size - 1) /\ writep \in 0..(size - 1)
         /\ Used \in 0..(size - 1)
         /\ Space \in 0..(size - 1) /\ Space = size - 1 - Used
         /\ ContRead \in 0..size /\ ContWrite \in 0..size
BY DEF TypeOK, Used, Space, ContRead, ContWrite

\* With no memory there is no data.
LEMMA NoMemory ==
  ASSUME TypeOK, ~(size > 0)
  PROVE  size = 0 /\ readp = 0 /\ writep = 0 /\ Used = 0 /\ ContRead = 0
BY DEF TypeOK, Used, ContRead

\* A pointer that advances by at most a buffer stays inside.
LEMMA Inside ==
  ASSUME size \in Nat, NEW p \in 0..(size - 1), NEW by \in 0..size
  PROVE  Advance(p, by) \in 0..(size - 1)
BY DEF Advance

\* The byte behind the data is the one that writep points to.
LEMMA BehindTheData ==
  ASSUME TypeOK, size > 0, NEW i \in Nat, Used + i < size
  PROVE  Advance(readp, Used + i) = Advance(writep, i)
BY Bounds DEF TypeOK, Used, Advance

\* The free space and the data do not overlap.
LEMMA Apart ==
  ASSUME TypeOK, size > 0, NEW n \in 0..Space,
         NEW i \in 1..n, NEW k \in 1..Used
  PROVE  Advance(readp, k - 1) # Advance(writep, i - 1)
BY Bounds DEF TypeOK, Used, Space, Advance

\* Two bytes of a chunk do not fall on each other.
LEMMA Distinct ==
  ASSUME size \in Nat, NEW p \in 0..(size - 1),
         NEW i \in 1..size, NEW j \in 1..size,
         Advance(p, i - 1) = Advance(p, j - 1)
  PROVE  i = j
BY DEF Advance

\* The bytes held are as many as the pointers say.
LEMMA TheData ==
  ASSUME TypeOK
  PROVE  Contents \in Seq(Byte \cup {Garbage}) /\ Len(Contents) = Used
<1>1. Used \in Nat /\ \A i \in 1..Used : mem[Advance(readp, i - 1)] \in Byte \cup {Garbage}
  <2>1. CASE size > 0
    <3> SUFFICES ASSUME NEW i \in 1..Used
                 PROVE  mem[Advance(readp, i - 1)] \in Byte \cup {Garbage}
      BY <2>1, Bounds
    <3>1. size \in Nat /\ readp \in 0..(size - 1) /\ i - 1 \in 0..size
      BY <2>1, Bounds DEF TypeOK
    <3>2. Advance(readp, i - 1) \in 0..(size - 1)
      BY <3>1, Inside
    <3>3. QED
      BY <3>2 DEF TypeOK
  <2>2. CASE ~(size > 0)
    BY <2>2, NoMemory
  <2>3. QED
    BY <2>1, <2>2
<1>2. QED
  BY <1>1 DEF Contents

\* A sequence is the function of its elements.
LEMMA AsFunction ==
  ASSUME NEW S, NEW a \in Seq(S)
  PROVE  a = [k \in 1..Len(a) |-> a[k]]
BY LenProperties, Zenon

-----------------------------------------------------------------------------
(* A write.                                                                *)

\* The n bytes behind writep are the first n of s, the bytes from readp to
\* writep are as they were and writep is n bytes further.
Stored(s, n) ==
  /\ mem' \in [0..(size - 1) -> Byte \cup {Garbage}]
  /\ \A i \in 1..n : mem'[Advance(writep, i - 1)] = s[i]
  /\ \A k \in 1..Used : mem'[Advance(readp, k - 1)] = mem[Advance(readp, k - 1)]
  /\ writep' = Advance(writep, n)
  /\ moved' = SubSeq(s, 1, n)
  /\ UNCHANGED <<readp, size>>

\* What is stored is appended to the data, and is at most what there is room
\* for.
LEMMA StoredPuts ==
  ASSUME TypeOK, size > 0, NEW s \in Seq(Byte), NEW n \in 0..Space,
         n <= Len(s), Stored(s, n)
  PROVE  TypeOK' /\ F!Put
<1>1. /\ readp \in 0..(size - 1) /\ writep \in 0..(size - 1)
      /\ Used \in 0..(size - 1) /\ Space = size - 1 - Used
      /\ size \in Nat /\ n \in Nat /\ n <= size
  BY Bounds DEF TypeOK
<1>2. moved' \in Seq(Byte) /\ Len(moved') = n /\ \A i \in 1..n : moved'[i] = s[i]
  BY <1>1 DEF Stored
<1>3. writep' \in 0..(size - 1)
  BY <1>1, Inside DEF Stored
<1>4. TypeOK'
  <2>1. moved' \in Seq(Byte \cup {Garbage})
    BY <1>2
  <2>2. QED
    BY <1>1, <1>3, <2>1 DEF TypeOK, Stored
<1>5. Used' = Used + n
  BY <1>1 DEF Used, Stored, Advance
<1>6. Capacity' = Capacity /\ Capacity = size - 1
  BY <1>1 DEF Capacity, Stored
<1>7. Contents' = Contents \o moved'
  <2>1. \A k \in 1..Used' : mem'[Advance(readp, k - 1)'] = (Contents \o moved')[k]
    <3> SUFFICES ASSUME NEW k \in 1..(Used + n)
                 PROVE  mem'[Advance(readp, k - 1)'] = (Contents \o moved')[k]
      BY <1>5
    <3>1. Advance(readp, k - 1)' = Advance(readp, k - 1)
      BY DEF Advance, Stored
    <3>2. Contents \in Seq(Byte \cup {Garbage}) /\ Len(Contents) = Used
      BY TheData
    <3>3. CASE k <= Used
      BY <1>1, <3>1, <3>2, <3>3, <1>2 DEF Stored, Contents
    <3>4. CASE ~(k <= Used)
      <4>1. k - Used \in 1..n
        BY <1>1, <3>4
      <4>2. Advance(readp, k - 1) = Advance(writep, k - Used - 1)
        <5>1. k - Used - 1 \in Nat /\ Used + (k - Used - 1) = k - 1 /\ k - 1 < size
          BY <1>1, <3>4
        <5>2. QED
          BY <5>1, BehindTheData
      <4>3. mem'[Advance(writep, k - Used - 1)] = s[k - Used]
        BY <4>1 DEF Stored
      <4>4. (Contents \o moved')[k] = moved'[k - Used]
        BY <1>1, <1>2, <3>2, <3>4
      <4>5. QED
        BY <3>1, <4>1, <4>2, <4>3, <4>4, <1>2
    <3>5. QED
      BY <3>3, <3>4
  <2>2. Contents' = [k \in 1..(Used + n) |-> (Contents \o moved')[k]]
    BY <2>1, <1>5 DEF Contents
  <2>3. /\ Contents \o moved' \in Seq(Byte \cup {Garbage})
        /\ Len(Contents \o moved') = Used + n
    BY <1>2, <1>4, TheData, ConcatProperties DEF TypeOK
  <2>4. Contents \o moved' = [k \in 1..(Used + n) |-> (Contents \o moved')[k]]
    BY <2>3, AsFunction, Zenon
  <2>5. QED
    BY <2>2, <2>4
<1>8. Len(Contents') <= Capacity
  <2>1. Contents' = [i \in 1..Used' |-> mem'[Advance(readp, i - 1)']]
    BY DEF Contents
  <2>2. Len(Contents') = Used + n
    BY <1>1, <1>5, <2>1
  <2>3. QED
    BY <1>1, <1>6, <2>2
<1>9. QED
  BY <1>2, <1>4, <1>6, <1>7, <1>8 DEF F!Put

\* _buf_write stores what there is room for.
LEMMA WriteStores ==
  ASSUME TypeOK, NEW s \in Seq(Byte), Write(s)
  PROVE  size > 0 /\ \E n \in 0..Space : n <= Len(s) /\ Stored(s, n)
<1> DEFINE n   == Least(Len(s), Space)
           low == Least(n, ContWrite)
           T   == Byte \cup {Garbage}
           w   == SubSeq(s, low + 1, n)
           m   == Copy(mem, writep, s, low)
<1>1. size > 0
  BY DEF Write
<1>2. /\ size \in Nat /\ readp \in 0..(size - 1) /\ writep \in 0..(size - 1)
      /\ Used \in 0..(size - 1) /\ Space = size - 1 - Used
      /\ ContWrite \in 0..size /\ mem \in [0..(size - 1) -> T]
  BY <1>1, Bounds DEF TypeOK
<1>3. Len(s) \in Nat /\ \A i \in 1..Len(s) : s[i] \in Byte
  OBVIOUS
<1>4. n \in 0..Space /\ n \in Nat /\ n <= Len(s) /\ low \in 0..n
      /\ low = IF n <= ContWrite THEN n ELSE ContWrite
  BY <1>2, <1>3 DEF Least
<1>5. /\ m \in [0..(size - 1) -> T]
      /\ \A j \in 0..(size - 1) :
           m[j] = IF j \in writep..(writep + low - 1) THEN s[j - writep + 1] ELSE mem[j]
  <2>1. \A i \in 1..low : s[i] \in T
    BY <1>3, <1>4
  <2>2. writep \in Nat /\ low \in Nat
    BY <1>2, <1>4
  <2> HIDE DEF n, low, T
  <2>3. QED
    BY <1>2, <2>1, <2>2 DEF m, Copy
<1>6. \A i \in 1..(n - low) : w[i] = s[low + i] /\ w[i] \in T
  BY <1>3, <1>4
<1>7. mem' = Copy(m, 0, w, n - low)
  BY DEF Write
<1>8. /\ mem' \in [0..(size - 1) -> T]
      /\ \A j \in 0..(size - 1) :
           mem'[j] = IF j \in 0..(n - low - 1) THEN w[j + 1] ELSE m[j]
  <2>1. n - low \in Nat
    BY <1>4
  <2> HIDE DEF n, low, w, m, T
  <2>2. QED
    BY <1>2, <1>5, <1>6, <1>7, <2>1 DEF Copy
<1> HIDE DEF n, low, w, m
<1>9. \A i \in 1..n : mem'[Advance(writep, i - 1)] = s[i]
  <2> SUFFICES ASSUME NEW i \in 1..n
               PROVE  mem'[Advance(writep, i - 1)] = s[i]
    OBVIOUS
  <2>1. CASE i <= low
    <3>1. Advance(writep, i - 1) = writep + i - 1
      BY <1>2, <1>4, <2>1 DEF Advance, ContWrite
    <3>2. writep + i - 1 \in 0..(size - 1) /\ ~(writep + i - 1 \in 0..(n - low - 1))
      BY <1>2, <1>4, <2>1 DEF ContWrite, Used, Least
    <3>3. QED
      BY <1>2, <1>4, <1>5, <1>8, <2>1, <3>1, <3>2
  <2>2. CASE ~(i <= low)
    <3>1. Advance(writep, i - 1) = i - 1 - low
      BY <1>2, <1>4, <2>2 DEF Advance, ContWrite, Used, Least
    <3>2. i - low \in 1..(n - low) /\ i - 1 - low \in 0..(size - 1)
      BY <1>2, <1>4, <2>2
    <3>3. w[i - low] = s[i]
      BY <1>4, <1>6, <3>2, SMTT(20)
    <3>4. QED
      BY <1>4, <1>8, <3>1, <3>2, <3>3
  <2>3. QED
    BY <2>1, <2>2
<1>10. \A k \in 1..Used : mem'[Advance(readp, k - 1)] = mem[Advance(readp, k - 1)]
  <2> SUFFICES ASSUME NEW k \in 1..Used
               PROVE  mem'[Advance(readp, k - 1)] = mem[Advance(readp, k - 1)]
    OBVIOUS
  <2>1. Advance(readp, k - 1) \in 0..(size - 1)
    BY <1>2, Inside
  <2>2. /\ ~(Advance(readp, k - 1) \in 0..(n - low - 1))
        /\ ~(Advance(readp, k - 1) \in writep..(writep + low - 1))
    BY <1>2, <1>4 DEF Advance, ContWrite, Used, Least
  <2>3. QED
    BY <1>5, <1>8, <2>1, <2>2
<1>11. writep' = Advance(writep, n) /\ moved' = SubSeq(s, 1, n) /\ UNCHANGED <<readp, size>>
  BY DEF Write, n
<1>12. Stored(s, n)
  BY <1>8, <1>9, <1>10, <1>11 DEF Stored
<1>13. QED
  BY <1>1, <1>4, <1>12

\* A refill stores all it was given.
LEMMA RefillStores ==
  ASSUME TypeOK, NEW s \in Seq(Byte), Refill(s)
  PROVE  size > 0 /\ \E n \in 0..Space : n <= Len(s) /\ Stored(s, n)
<1> DEFINE n == Len(s)
           T == Byte \cup {Garbage}
<1>1. size > 0
  BY DEF Refill
<1>2. /\ size \in Nat /\ readp \in 0..(size - 1) /\ writep \in 0..(size - 1)
      /\ Used \in 0..(size - 1) /\ Space = size - 1 - Used
      /\ ContWrite \in 0..size /\ mem \in [0..(size - 1) -> T]
  BY <1>1, Bounds DEF TypeOK
<1>3. n \in Nat /\ \A i \in 1..n : s[i] \in T
  OBVIOUS
<1>4. n <= Space /\ n <= ContWrite
  BY <1>2, <1>3 DEF Refill, Least
<1>5. /\ mem' \in [0..(size - 1) -> T]
      /\ \A j \in 0..(size - 1) :
           mem'[j] = IF j \in writep..(writep + n - 1) THEN s[j - writep + 1] ELSE mem[j]
  <2>1. mem' = Copy(mem, writep, s, n)
    BY DEF Refill
  <2>2. writep \in Nat
    BY <1>2
  <2> HIDE DEF n, T
  <2>3. QED
    BY <1>2, <1>3, <2>1, <2>2 DEF Copy
<1>6. \A i \in 1..n : mem'[Advance(writep, i - 1)] = s[i]
  <2> SUFFICES ASSUME NEW i \in 1..n
               PROVE  mem'[Advance(writep, i - 1)] = s[i]
    OBVIOUS
  <2>1. Advance(writep, i - 1) = writep + i - 1 /\ writep + i - 1 \in 0..(size - 1)
    BY <1>2, <1>3, <1>4 DEF Advance, ContWrite
  <2>2. QED
    BY <1>2, <1>3, <1>5, <2>1
<1>7. \A k \in 1..Used : mem'[Advance(readp, k - 1)] = mem[Advance(readp, k - 1)]
  <2> SUFFICES ASSUME NEW k \in 1..Used
               PROVE  mem'[Advance(readp, k - 1)] = mem[Advance(readp, k - 1)]
    OBVIOUS
  <2>1. Advance(readp, k - 1) \in 0..(size - 1)
    BY <1>2, Inside
  <2>2. ~(Advance(readp, k - 1) \in writep..(writep + n - 1))
    BY <1>2, <1>3, <1>4 DEF Advance, ContWrite, Used
  <2>3. QED
    BY <1>5, <2>1, <2>2
<1>8. writep' = Advance(writep, n) /\ moved' = SubSeq(s, 1, n) /\ UNCHANGED <<readp, size>>
  BY SubSeqFull DEF Refill
<1>9. n \in 0..Space /\ n <= Len(s)
  BY <1>2, <1>3, <1>4
<1> HIDE DEF n
<1>10. Stored(s, n)
  BY <1>5, <1>6, <1>7, <1>8 DEF Stored
<1>11. QED
  BY <1>1, <1>9, <1>10

-----------------------------------------------------------------------------
(* A read.                                                                 *)

\* The n bytes at readp are taken, and readp is n bytes further.
Taken(n) ==
  /\ moved' = [i \in 1..n |-> mem[Advance(readp, i - 1)]]
  /\ readp' = Advance(readp, n)
  /\ UNCHANGED <<mem, writep, size>>

\* What is taken is the start of the data, and the rest stays.
LEMMA TakenTakes ==
  ASSUME TypeOK, NEW n \in 0..Used, Taken(n)
  PROVE  TypeOK' /\ F!Take
<1>1. /\ size \in Nat /\ Used \in Nat /\ n \in Nat /\ n <= Used
      /\ Contents \in Seq(Byte \cup {Garbage}) /\ Len(Contents) = Used
  BY TheData, LenProperties DEF TypeOK
<1>2. moved' = [i \in 1..n |-> Contents[i]]
  BY <1>1 DEF Taken, Contents
<1>3. moved' \in Seq(Byte \cup {Garbage}) /\ Len(moved') = n
  BY <1>1, <1>2
<1>4. TypeOK'
  <2>1. CASE size > 0
    <3>1. readp' \in 0..(size - 1)
      <4>1. readp \in 0..(size - 1) /\ n \in 0..size
        BY <1>1, <2>1, Bounds
      <4>2. QED
        BY <1>1, <4>1, Inside DEF Taken
    <3>2. QED
      BY <1>3, <2>1, <3>1 DEF TypeOK, Taken
  <2>2. CASE ~(size > 0)
    <3>1. n = 0 /\ readp = 0 /\ size = 0
      BY <1>1, <2>2, NoMemory
    <3>2. readp' = 0
      BY <3>1 DEF Taken, Advance
    <3>3. QED
      BY <1>3, <2>2, <3>1, <3>2 DEF TypeOK, Taken
  <2>3. QED
    BY <2>1, <2>2
<1>5. Used' = Used - n
  BY <1>1 DEF TypeOK, Taken, Used, Advance
<1>6. \A i \in 1..(Used - n) : Advance(Advance(readp, n), i - 1) = Advance(readp, n + i - 1)
  BY <1>1 DEF TypeOK, Used, Advance
<1>7. Contents' = [i \in 1..(Used - n) |-> Contents[n + i]]
  <2>1. Contents' = [i \in 1..(Used - n) |-> mem[Advance(Advance(readp, n), i - 1)]]
    BY <1>5 DEF Contents, Taken, Advance
  <2>2. \A i \in 1..(Used - n) : Contents[n + i] = mem[Advance(readp, n + i - 1)]
    BY <1>1 DEF Contents
  <2>3. QED
    BY <1>6, <2>1, <2>2
<1>8. Contents = moved' \o Contents'
  <2>1. Contents' \in Seq(Byte \cup {Garbage}) /\ Len(Contents') = Used - n
    BY <1>1, <1>7
  <2>2. /\ moved' \o Contents' \in Seq(Byte \cup {Garbage})
        /\ Len(moved' \o Contents') = n + (Used - n)
        /\ \A i \in 1..(n + (Used - n)) :
             (moved' \o Contents')[i] = IF i <= n THEN moved'[i] ELSE Contents'[i - n]
    <3> DEFINE a == moved'
               b == Contents'
               p == Used - n
               T == Byte \cup {Garbage}
    <3>1. a \in Seq(T) /\ b \in Seq(T) /\ Len(a) = n /\ Len(b) = p
      BY <1>3, <2>1
    <3>2. n \in Nat /\ p \in Nat
      BY <1>1
    <3> HIDE DEF a, b, p, T
    <3>3. /\ a \o b \in Seq(T)
          /\ Len(a \o b) = n + p
      BY <3>1, <3>2
    <3>4. \A i \in 1..(n + p) : (a \o b)[i] = IF i <= n THEN a[i] ELSE b[i - n]
      BY <3>1, <3>2
    <3>5. QED
      BY <3>3, <3>4 DEF a, b, p, T
  <2>3. n + (Used - n) = Used
    BY <1>1
  <2>4. \A i \in 1..Used : Contents[i] = (moved' \o Contents')[i]
    <3> SUFFICES ASSUME NEW i \in 1..Used
                 PROVE  Contents[i] = (moved' \o Contents')[i]
      OBVIOUS
    <3>1. CASE i <= n
      BY <1>1, <1>2, <2>2, <2>3, <3>1
    <3>2. CASE ~(i <= n)
      <4>1. i - n \in 1..(Used - n) /\ n + (i - n) = i
        BY <1>1, <3>2
      <4>2. Contents'[i - n] = Contents[i]
        BY <1>7, <4>1
      <4>3. QED
        BY <2>2, <2>3, <3>2, <4>2
    <3>3. QED
      BY <3>1, <3>2
  <2>5. QED
    BY <1>1, <2>2, <2>3, <2>4, SeqEqual, Zenon
<1>9. Capacity' = Capacity
  BY DEF Capacity, Taken
<1>10. QED
  BY <1>1, <1>3, <1>4, <1>8, <1>9 DEF F!Take

\* _buf_read takes what was asked for, or all there is.
LEMMA ReadTakes ==
  ASSUME TypeOK, NEW n \in Nat, Read(n)
  PROVE  \E k \in 0..Used : Taken(k)
<1> DEFINE all == Least(n, Used)
           low == Least(all, ContRead)
<1>1. size \in Nat /\ readp \in 0..size /\ Used \in Nat /\ ContRead \in Nat
  BY Bounds, NoMemory DEF TypeOK
<1>2. /\ all \in 0..Used /\ all \in Nat /\ low \in 0..all /\ low <= ContRead
      /\ low = IF all <= ContRead THEN all ELSE ContRead
  BY <1>1 DEF Least
<1>3. /\ moved' = Slice(readp, low) \o Slice(0, all - low)
      /\ readp' = Advance(readp, all)
      /\ UNCHANGED <<mem, writep, size>>
  BY DEF Read
<1> HIDE DEF all, low
<1>4. \A i \in 1..all :
        Advance(readp, i - 1) = IF i <= low THEN readp + i - 1 ELSE 0 + (i - low) - 1
  BY <1>1, <1>2 DEF TypeOK, Advance, ContRead, Used
<1>5. Slice(readp, low) \o Slice(0, all - low) = [i \in 1..all |-> mem[Advance(readp, i - 1)]]
  <2> DEFINE T == Byte \cup {Garbage}
             a == Slice(readp, low)
             b == Slice(0, all - low)
  <2>1. /\ a \in Seq(T) /\ Len(a) = low
        /\ \A i \in 1..low : a[i] = mem[readp + i - 1]
    <3>1. \A i \in 1..low : readp + i - 1 \in 0..(size - 1)
      BY <1>1, <1>2 DEF TypeOK, ContRead
    <3>2. \A i \in 1..low : mem[readp + i - 1] \in T
      BY <3>1 DEF TypeOK
    <3>3. QED
      BY <1>2, <3>2 DEF Slice
  <2>2. /\ b \in Seq(T) /\ Len(b) = all - low
        /\ \A i \in 1..(all - low) : b[i] = mem[0 + i - 1]
    <3>1. \A i \in 1..(all - low) : 0 + i - 1 \in 0..(size - 1)
      BY <1>1, <1>2 DEF TypeOK, Used
    <3>2. \A i \in 1..(all - low) : mem[0 + i - 1] \in T
      BY <3>1 DEF TypeOK
    <3>3. all - low \in Nat
      BY <1>2
    <3>4. QED
      BY <3>2, <3>3 DEF Slice
  <2> HIDE DEF a, b, T
  <2>3. /\ a \o b \in Seq(T) /\ Len(a \o b) = low + (all - low)
        /\ \A i \in 1..(low + (all - low)) :
             (a \o b)[i] = IF i <= low THEN a[i] ELSE b[i - low]
    <3>1. low \in Nat /\ all - low \in Nat
      BY <1>2
    <3>2. QED
      BY <2>1, <2>2, <3>1
  <2>4. low + (all - low) = all
    BY <1>2
  <2>5. \A i \in 1..all : (a \o b)[i] = mem[Advance(readp, i - 1)]
    <3> SUFFICES ASSUME NEW i \in 1..all
                 PROVE  (a \o b)[i] = mem[Advance(readp, i - 1)]
      OBVIOUS
    <3>1. CASE i <= low
      BY SMTT(30), <1>2, <1>4, <2>1, <2>3, <2>4, <3>1
    <3>2. CASE ~(i <= low)
      <4>1. i - low \in 1..(all - low)
        BY <1>2, <3>2
      <4>2. (a \o b)[i] = b[i - low]
        BY <2>3, <2>4, <3>2
      <4>3. b[i - low] = mem[0 + (i - low) - 1]
        BY <2>2, <4>1
      <4>4. QED
        BY <1>4, <3>2, <4>2, <4>3
    <3>3. QED
      BY <3>1, <3>2
  <2>6. a \o b = [i \in 1..all |-> (a \o b)[i]]
    BY <2>3, <2>4, AsFunction, Zenon
  <2>7. QED
    BY <2>5, <2>6 DEF a, b
<1>6. Taken(all)
  BY <1>3, <1>5 DEF Taken
<1>7. QED
  BY <1>2, <1>6

\* A reader in place takes bytes that lie in one part.
LEMMA DrainTakes ==
  ASSUME TypeOK, NEW n \in Nat, Drain(n)
  PROVE  \E k \in 0..Used : Taken(k)
<1>1. size \in Nat /\ readp \in 0..size /\ Used \in Nat /\ ContRead \in Nat
  BY Bounds, NoMemory DEF TypeOK
<1>2. n <= Used /\ n <= ContRead
  BY <1>1 DEF Drain, Least
<1>3. \A i \in 1..n : Advance(readp, i - 1) = readp + i - 1
  BY <1>1, <1>2 DEF TypeOK, Advance, ContRead, Used
<1>4. Slice(readp, n) = [i \in 1..n |-> mem[Advance(readp, i - 1)]]
  BY <1>3 DEF Slice
<1>5. Taken(n)
  BY <1>4 DEF Drain, Taken
<1>6. QED
  BY <1>1, <1>2, <1>5

-----------------------------------------------------------------------------
(* Every step.                                                             *)

\* An empty ring is an empty queue.
LEMMA EmptyRing ==
  /\ readp = 0 /\ writep = 0 => Contents = <<>>
  /\ (readp = 0 /\ writep = 0 => Contents = <<>>)'
  /\ size \in Nat => Capacity \in Nat
  /\ (size \in Nat => Capacity \in Nat)'
BY DEF Contents, Used, Capacity

LEMMA FlushClears ==
  ASSUME TypeOK, Flush
  PROVE  TypeOK' /\ F!Clear
<1>1. TypeOK'
  BY DEF TypeOK, Flush
<1>2. QED
  BY <1>1, EmptyRing DEF F!Clear, Flush, TypeOK

LEMMA ResizeClears ==
  ASSUME TypeOK, NEW s \in Sizes, Resize(s)
  PROVE  TypeOK' /\ F!Clear
<1>1. s \in Nat \ {0}
  BY BufferAssumption
<1>2. size' \in Nat
  BY <1>1 DEF Resize, TypeOK
<1>3. mem' \in [0..(size' - 1) -> Byte \cup {Garbage}]
  BY DEF Resize
<1>4. TypeOK'
  BY <1>2, <1>3 DEF TypeOK, Resize
<1>5. QED
  BY <1>2, <1>4, EmptyRing DEF F!Clear, Resize

LEMMA InitOK == Init => TypeOK /\ F!Init
<1> SUFFICES ASSUME Init PROVE TypeOK /\ F!Init
  OBVIOUS
<1>1. size \in Nat \ {0}
  BY BufferAssumption DEF Init
<1>2. TypeOK
  BY <1>1 DEF Init, TypeOK
<1>3. readp = 0 /\ writep = 0 /\ moved = <<>> /\ size \in Nat
  BY <1>1 DEF Init
<1>4. F!Init
  BY <1>3, EmptyRing DEF F!Init
<1>5. QED
  BY <1>2, <1>4

LEMMA ChunkIsSeq ==
  ASSUME NEW s \in Chunk
  PROVE  s \in Seq(Byte)
<1>1. PICK n \in 1..MaxChunk : s \in [1..n -> Byte]
  BY DEF Chunk
<1>2. n \in Nat
  BY <1>1, BufferAssumption
<1>3. QED
  BY <1>1, <1>2

LEMMA NextOK ==
  ASSUME TypeOK, [Next]_vars
  PROVE  TypeOK' /\ [F!Next]_<<Contents, Capacity, moved>>
<1>1. ASSUME NEW s \in Chunk, Write(s) \/ Refill(s)
      PROVE  TypeOK' /\ F!Put
  BY <1>1, ChunkIsSeq, WriteStores, RefillStores, StoredPuts
<1>2. ASSUME NEW n \in 1..MaxChunk, Read(n) \/ Drain(n)
      PROVE  TypeOK' /\ F!Take
  <2>1. n \in Nat
    BY <1>2, BufferAssumption
  <2>2. PICK k \in 0..Used : Taken(k)
    BY <1>2, <2>1, ReadTakes, DrainTakes
  <2>3. QED
    BY <2>2, TakenTakes
<1>3. CASE Flush \/ Reset
  BY <1>3, FlushClears DEF F!Next, Reset
<1>4. ASSUME NEW s \in Sizes, Resize(s)
      PROVE  TypeOK' /\ F!Clear
  BY <1>4, ResizeClears
<1>5. CASE UNCHANGED vars
  BY <1>5 DEF vars, TypeOK, Contents, Capacity, Used, Advance
<1>6. QED
  BY <1>1, <1>2, <1>3, <1>4, <1>5 DEF Next, F!Next

\* The pointers of the ring stay inside its memory, whatever is written,
\* read, flushed and resized, with and without the memory for it.
THEOREM RingTypeCorrect == Spec => []TypeOK
<1>1. Init => TypeOK
  BY InitOK
<1>2. TypeOK /\ [Next]_vars => TypeOK'
  BY NextOK
<1>3. QED
  BY <1>1, <1>2, PTL DEF Spec

\* For buffers and chunks of every size, what was accepted comes out once, in
\* order and uncut: buffer.c implements Fifo.
THEOREM RingIsFifo == Spec => ImplementsFifo
<1>1. Init => F!Init
  BY InitOK
<1>2. TypeOK /\ [Next]_vars => [F!Next]_<<Contents, Capacity, moved>>
  BY NextOK
<1>3. QED
  BY <1>1, <1>2, RingTypeCorrect, PTL DEF Spec, ImplementsFifo, F!Spec

-----------------------------------------------------------------------------
(***************************************************************************)
(* _buf_unwrap.  The bytes held are those from readp up to wrap, the first *)
(* piece, and `writep` more at the start of the memory, the second.        *)
(***************************************************************************)

Place == 0..(size - 1)
Memory == [Place -> Byte \cup {Garbage}]
Rings == [mem : Memory, readp : Place, writep : Place, size : {size}]

LEMMA MoveIs ==
  ASSUME NEW m \in Memory, NEW to \in Int, NEW from \in Int, NEW n \in Int,
         \A j \in Place : j \in to..(to + n - 1) => j - to + from \in Place
  PROVE  LET u == Move(m, to, from, n)
         IN  /\ u \in Memory
             /\ \A j \in Place : u[j] = IF j \in to..(to + n - 1) THEN m[j - to + from] ELSE m[j]
<1> DEFINE u == Move(m, to, from, n)
<1>1. DOMAIN m = Place BY DEF Memory
<1>2. u = [j \in Place |-> IF j \in to..(to + n - 1) THEN m[j - to + from] ELSE m[j]]
  BY <1>1 DEF Move
<1> HIDE DEF u
<1>3. \A j \in Place : (IF j \in to..(to + n - 1) THEN m[j - to + from] ELSE m[j])
                         \in Byte \cup {Garbage}
  BY DEF Memory
<1>4. u \in Memory BY <1>2, <1>3 DEF Memory
<1>5. \A j \in Place : u[j] = IF j \in to..(to + n - 1) THEN m[j - to + from] ELSE m[j]
  BY <1>2
<1>6. QED BY <1>4, <1>5 DEF u

\* The data is in one piece.
LEMMA ShiftedKeeps ==
  ASSUME size \in Nat, NEW b \in Rings, b.writep >= b.readp, NEW by \in 1..b.readp
  PROVE  Held(Shifted(b, by)) = Held(b) /\ Shifted(b, by).readp = b.readp - by
<1> DEFINE r == b.readp
           w == b.writep
           m == Move(b.mem, r - by, r, w - r)
           u == Shifted(b, by)
<1>1. /\ r \in Int /\ w \in Int /\ by \in Int /\ size \in Int /\ by >= 1 /\ by <= r /\ r <= w
      /\ w < size /\ r >= 0 /\ b.mem \in Memory /\ b.size = size
  BY DEF Rings, Place
<1>2. u = [b EXCEPT !.mem = m, !.readp = r - by, !.writep = w - by] BY DEF Shifted
<1> HIDE DEF m, u
<1>3. u.mem = m /\ u.readp = r - by /\ u.writep = w - by /\ u.size = size
  BY <1>2 DEF Rings
<1> HIDE DEF r, w
<1>4. \A j \in Place : j \in (r - by)..((r - by) + (w - r) - 1) => j - (r - by) + r \in Place
  BY <1>1 DEF Place
<1>5. \A j \in Place : m[j] = IF j \in (r - by)..((r - by) + (w - r) - 1)
                              THEN b.mem[j - (r - by) + r] ELSE b.mem[j]
  BY <1>1, <1>4, MoveIs DEF m
<1>6. \A i \in 1..(w - r) : /\ Advance(r, i - 1) = r + i - 1
                            /\ Advance(r - by, i - 1) = r - by + i - 1
                            /\ r - by + i - 1 \in Place
                            /\ r - by + i - 1 \in (r - by)..((r - by) + (w - r) - 1)
                            /\ (r - by + i - 1) - (r - by) + r = r + i - 1
  BY <1>1 DEF Advance, Place
<1>7. \A i \in 1..(w - r) : m[Advance(r - by, i - 1)] = b.mem[Advance(r, i - 1)]
  BY <1>5, <1>6
<1>8. Held(b) = [i \in 1..(w - r) |-> b.mem[Advance(r, i - 1)]] BY <1>1 DEF Held, r, w
<1>9. Held(u) = [i \in 1..(w - r) |-> m[Advance(r - by, i - 1)]]
  <2>1. u.writep >= u.readp /\ u.writep - u.readp = w - r BY <1>1, <1>3
  <2>2. QED BY <1>3, <2>1 DEF Held
<1>10. Held(u) = Held(b) BY <1>7, <1>8, <1>9
<1>11. QED BY <1>3, <1>10 DEF u, r

\* The bytes of two pieces are the same when the first one and the start of
\* the second follow each other up to wrap, and the rest follows at the start.
LEMMA Rejoined ==
  ASSUME size \in Nat, NEW b \in Rings, NEW u, NEW by \in 1..b.readp, b.writep < b.readp,
         u.readp = b.readp - by, u.size = size,
         \/ b.writep >= by /\ u.writep = b.writep - by
         \/ b.writep <= by /\ u.writep = b.writep + size - by,
         \A j \in Place : j \in (b.readp - by)..(size - by - 1) => u.mem[j] = b.mem[j + by],
         \A j \in Place : j \in (size - by)..(size - by + b.writep - 1) =>
                            u.mem[j] = b.mem[j - (size - by)],
         \A j \in Place : j < b.writep - by => u.mem[j] = b.mem[j + by]
  PROVE  Held(u) = Held(b)
<1> DEFINE r == b.readp
           w == b.writep
           c == size - (r - w)
<1>1. /\ r \in Int /\ w \in Int /\ by \in Int /\ size \in Int /\ by >= 1 /\ by <= r /\ w < r
      /\ r < size /\ w >= 0 /\ b.size = size
  BY DEF Rings, Place
<1>2. /\ u.readp = r - by
      /\ (w >= by /\ u.writep = w - by) \/ (w <= by /\ u.writep = w + size - by)
  OBVIOUS
<1> HIDE DEF r, w
<1>3. Held(b) = [i \in 1..c |-> b.mem[Advance(r, i - 1)]]
  <2>1. ~(w >= r) BY <1>1
  <2>2. QED BY <1>1, <2>1 DEF Held, r, w
<1>4. Held(u) = [i \in 1..c |-> u.mem[Advance(r - by, i - 1)]]
  <2>1. CASE w >= by /\ u.writep = w - by
    <3>1. ~(w - by >= r - by) BY <1>1
    <3>2. size - ((r - by) - (w - by)) = c BY <1>1
    <3>3. QED BY <1>2, <2>1, <3>1, <3>2 DEF Held
  <2>2. CASE w <= by /\ u.writep = w + size - by
    <3>1. w + size - by >= r - by BY <1>1
    <3>2. (w + size - by) - (r - by) = c BY <1>1
    <3>3. QED BY <1>2, <2>2, <3>1, <3>2 DEF Held
  <2>3. QED BY <1>2, <2>1, <2>2
<1>5. ASSUME NEW i \in 1..c
      PROVE  u.mem[Advance(r - by, i - 1)] = b.mem[Advance(r, i - 1)]
  <2>1. i \in Int /\ i >= 1 /\ i <= c /\ c \in Int BY <1>1
  <2>2. CASE i <= size - r
    <3> DEFINE j == r - by + i - 1
    <3>1. j \in Place /\ j \in (r - by)..(size - by - 1) /\ j + by = r + i - 1
          /\ Advance(r - by, i - 1) = j /\ Advance(r, i - 1) = r + i - 1
      BY <1>1, <2>1, <2>2 DEF Place, Advance
    <3> HIDE DEF j
    <3>2. QED BY <3>1 DEF r
  <2>3. CASE ~(i <= size - r) /\ r - by + i - 1 < size
    <3> DEFINE j == r - by + i - 1
    <3>1. j \in Place /\ j \in (size - by)..(size - by + w - 1) /\ j - (size - by) = r + i - 1 - size
          /\ Advance(r - by, i - 1) = j /\ Advance(r, i - 1) = r + i - 1 - size
      BY <1>1, <2>1, <2>3 DEF Place, Advance
    <3> HIDE DEF j
    <3>2. QED BY <3>1 DEF w
  <2>4. CASE ~(i <= size - r) /\ ~(r - by + i - 1 < size)
    <3> DEFINE j == r - by + i - 1 - size
    <3>1. j \in Place /\ j < w - by /\ j + by = r + i - 1 - size
          /\ Advance(r - by, i - 1) = j /\ Advance(r, i - 1) = r + i - 1 - size
      BY <1>1, <2>1, <2>4 DEF Place, Advance
    <3> HIDE DEF j
    <3>2. QED BY <3>1 DEF w
  <2>5. QED BY <2>2, <2>3, <2>4
<1>6. QED BY <1>3, <1>4, <1>5

\* The two pieces are joined before the rest of the second one moves.
LEMMA JoinedIs ==
  ASSUME size \in Nat, NEW b \in Rings, b.writep < b.readp, NEW by \in 1..b.readp,
         Least(b.writep, by) <= b.readp - by
  PROVE  LET u == Joined(b, by, b.writep)
         IN  /\ u \in Memory
             /\ \A j \in Place : /\ j < b.readp - by => u[j] = b.mem[j]
                                 /\ j \in (b.readp - by)..(size - by - 1) => u[j] = b.mem[j + by]
                                 /\ j \in (size - by)..(size - by + Least(b.writep, by) - 1) =>
                                      u[j] = b.mem[j - (size - by)]
<1> DEFINE r == b.readp
           w == b.writep
           n == Least(w, by)
           m == Move(b.mem, r - by, r, size - r)
           u == Move(m, size - by, 0, n)
<1>1. /\ r \in Int /\ w \in Int /\ by \in Int /\ size \in Int /\ by >= 1 /\ by <= r /\ w < r
      /\ r < size /\ w >= 0 /\ b.size = size /\ b.mem \in Memory
  BY DEF Rings, Place
<1>2. n \in Int /\ n <= w /\ n <= by /\ n <= r - by BY <1>1 DEF Least
<1>3. Joined(b, by, b.writep) = u BY <1>1 DEF Joined
<1> HIDE DEF m, u, n, r, w
<1>4. \A j \in Place : j \in (r - by)..((r - by) + (size - r) - 1) => j - (r - by) + r \in Place
  BY <1>1 DEF Place
<1>5. /\ m \in Memory
      /\ \A j \in Place : m[j] = IF j \in (r - by)..((r - by) + (size - r) - 1)
                                 THEN b.mem[j - (r - by) + r] ELSE b.mem[j]
  <2>1. r - by \in Int /\ size - r \in Int BY <1>1
  <2> DEFINE from == r - by
             count == size - r
             old == b.mem
  <2>2. old \in Memory BY <1>1
  <2>3. m = Move(old, from, r, count) BY DEF m
  <2>4. \A j \in Place : j \in from..(from + count - 1) => j - from + r \in Place BY <1>4
  <2>5. from \in Int /\ count \in Int BY <2>1
  <2> HIDE DEF from, count, old
  <2>6. /\ m \in Memory
        /\ \A j \in Place : m[j] = IF j \in from..(from + count - 1)
                                   THEN old[j - from + r] ELSE old[j]
    BY <1>1, <2>2, <2>3, <2>4, <2>5, MoveIs
  <2>7. QED BY <2>6 DEF from, count, old
<1>6. \A j \in Place : j \in (size - by)..((size - by) + n - 1) => j - (size - by) + 0 \in Place
  BY <1>1, <1>2 DEF Place
<1>7. /\ u \in Memory
      /\ \A j \in Place : u[j] = IF j \in (size - by)..((size - by) + n - 1)
                                 THEN m[j - (size - by) + 0] ELSE m[j]
  BY <1>1, <1>2, <1>5, <1>6, MoveIs DEF u
<1>8. ASSUME NEW j \in Place
      PROVE  /\ j < r - by => u[j] = b.mem[j]
             /\ j \in (r - by)..(size - by - 1) => u[j] = b.mem[j + by]
             /\ j \in (size - by)..(size - by + n - 1) => u[j] = b.mem[j - (size - by)]
  <2>1. j \in Int /\ j >= 0 /\ j < size BY <1>1 DEF Place
  <2>2. ASSUME j < r - by PROVE u[j] = b.mem[j]
    <3>1. j \notin (size - by)..((size - by) + n - 1) /\ j \notin (r - by)..((r - by) + (size - r) - 1)
      BY <1>1, <1>2, <2>1, <2>2
    <3>2. QED BY <1>5, <1>7, <3>1
  <2>3. ASSUME j \in (r - by)..(size - by - 1) PROVE u[j] = b.mem[j + by]
    <3>1. /\ j \notin (size - by)..((size - by) + n - 1)
          /\ j \in (r - by)..((r - by) + (size - r) - 1) /\ j - (r - by) + r = j + by
      BY <1>1, <1>2, <2>1, <2>3
    <3>2. QED BY <1>5, <1>7, <3>1
  <2>4. ASSUME j \in (size - by)..(size - by + n - 1) PROVE u[j] = b.mem[j - (size - by)]
    <3> DEFINE k == j - (size - by)
    <3>1. k \in Place /\ k < r - by /\ k = j - (size - by) + 0
      BY <1>1, <1>2, <2>1, <2>4 DEF Place
    <3>2. k \notin (r - by)..((r - by) + (size - r) - 1) BY <1>1, <3>1
    <3> HIDE DEF k
    <3>3. u[j] = m[k] BY <1>7, <2>4, <3>1
    <3>4. m[k] = b.mem[k] BY <1>5, <3>1, <3>2
    <3>5. QED BY <3>3, <3>4 DEF k
  <2>5. QED BY <2>2, <2>3, <2>4
<1>9. QED BY <1>3, <1>7, <1>8 DEF r, w, n

\* The data is in two pieces, with as much free space between them as it needs.
LEMMA DirectKeeps ==
  ASSUME size \in Nat, NEW b \in Rings, b.writep < b.readp,
         NEW by \in 1..b.readp, by = b.readp - b.writep
  PROVE  LET u == MovedDirectly(b, by) IN Held(u) = Held(b) /\ u.readp = b.readp - by
<1> DEFINE r == b.readp
           w == b.writep
           n == Least(w, by)
           m == Joined(b, by, w)
           u == MovedDirectly(b, by)
<1>1. /\ r \in Int /\ w \in Int /\ by \in Int /\ size \in Int /\ by >= 1 /\ by <= r /\ w < r
      /\ r < size /\ w >= 0 /\ b.size = size /\ b.mem \in Memory /\ by = r - w
  BY DEF Rings, Place
<1>2. n \in Int /\ n <= w /\ n <= by /\ n = (IF w <= by THEN w ELSE by) BY <1>1 DEF Least
<1>3. n <= r - by BY <1>1, <1>2
<1>4. /\ m \in Memory
      /\ \A j \in Place : /\ j < r - by => m[j] = b.mem[j]
                          /\ j \in (r - by)..(size - by - 1) => m[j] = b.mem[j + by]
                          /\ j \in (size - by)..(size - by + n - 1) =>
                               m[j] = b.mem[j - (size - by)]
  BY <1>3, JoinedIs
<1>5. CASE w > by
  <2> DEFINE v == Move(m, 0, by, w - by)
  <2>1. u = [b EXCEPT !.mem = v, !.readp = r - by, !.writep = w - by]
    BY <1>5 DEF MovedDirectly
  <2> HIDE DEF u, v, m, n
  <2>2. u.mem = v /\ u.readp = r - by /\ u.writep = w - by /\ u.size = size
    BY <1>1, <2>1 DEF Rings
  <2> HIDE DEF r, w
  <2>3. n = by BY <1>1, <1>2, <1>5
  <2>4. \A j \in Place : j \in 0..(0 + (w - by) - 1) => j - 0 + by \in Place
    BY <1>1 DEF Place
  <2>5. \A j \in Place : v[j] = IF j \in 0..(0 + (w - by) - 1) THEN m[j - 0 + by] ELSE m[j]
    BY <1>1, <1>4, <2>4, MoveIs DEF v
  <2>6. ASSUME NEW j \in Place
        PROVE  /\ j \in (r - by)..(size - by - 1) => v[j] = b.mem[j + by]
               /\ j \in (size - by)..(size - by + w - 1) => v[j] = b.mem[j - (size - by)]
               /\ j < w - by => v[j] = b.mem[j + by]
    <3>1. j \in Int /\ j >= 0 /\ j < size BY <1>1 DEF Place
    <3>2. j >= r - by => v[j] = m[j]
      <4>1. j >= r - by => j \notin 0..(0 + (w - by) - 1) BY <1>1, <3>1
      <4>2. QED BY <2>5, <4>1
    <3>3. ASSUME j \in (r - by)..(size - by - 1) PROVE v[j] = b.mem[j + by]
      BY <1>1, <1>4, <3>1, <3>2, <3>3
    <3>4. ASSUME j \in (size - by)..(size - by + w - 1) PROVE v[j] = b.mem[j - (size - by)]
      <4>1. j \in (size - by)..(size - by + n - 1) /\ j >= r - by
        BY <1>1, <2>3, <3>1, <3>4
      <4>2. QED BY <1>4, <3>2, <4>1
    <3>5. ASSUME j < w - by PROVE v[j] = b.mem[j + by]
      <4> DEFINE k == j + by
      <4>1. j \in 0..(0 + (w - by) - 1) /\ k = j - 0 + by /\ k \in Place /\ k < r - by
        BY <1>1, <3>1, <3>5 DEF Place
      <4> HIDE DEF k
      <4>2. v[j] = m[k] BY <2>5, <4>1
      <4>3. m[k] = b.mem[k] BY <1>4, <4>1
      <4>4. QED BY <4>2, <4>3 DEF k
    <3>6. QED BY <3>3, <3>4, <3>5
  <2>7. w - by < r - by BY <1>1
  <2>8. w >= by BY <1>1, <1>5
  <2>9. \A j \in Place : j \in (r - by)..(size - by - 1) => u.mem[j] = b.mem[j + by]
    BY <2>2, <2>6
  <2>10. \A j \in Place : j \in (size - by)..(size - by + w - 1) =>
                            u.mem[j] = b.mem[j - (size - by)]
    BY <2>2, <2>6
  <2>11. \A j \in Place : j < w - by => u.mem[j] = b.mem[j + by] BY <2>2, <2>6
  <2>12. Held(u) = Held(b) BY <2>2, <2>8, <2>9, <2>10, <2>11, Rejoined DEF r, w
  <2>13. QED BY <2>2, <2>12 DEF u, r
<1>6. CASE ~(w > by)
  <2>1. u = [b EXCEPT !.mem = m, !.readp = r - by, !.writep = w + size - by]
    BY <1>1, <1>6 DEF MovedDirectly
  <2> HIDE DEF u, m, n
  <2>2. u.mem = m /\ u.readp = r - by /\ u.writep = w + size - by /\ u.size = size
    BY <1>1, <2>1 DEF Rings
  <2> HIDE DEF r, w
  <2>3. n = w BY <1>1, <1>2, <1>6
  <2>4. \A j \in Place : ~(j < w - by) BY <1>1, <1>6 DEF Place
  <2>5. w <= by BY <1>1, <1>6
  <2>6. \A j \in Place : j \in (r - by)..(size - by - 1) => u.mem[j] = b.mem[j + by]
    BY <1>4, <2>2
  <2>7. \A j \in Place : j \in (size - by)..(size - by + w - 1) =>
                            u.mem[j] = b.mem[j - (size - by)]
    BY <1>4, <2>2, <2>3
  <2>8. \A j \in Place : j < w - by => u.mem[j] = b.mem[j + by] BY <2>4
  <2>9. Held(u) = Held(b) BY <2>2, <2>5, <2>6, <2>7, <2>8, Rejoined DEF r, w
  <2>10. QED BY <2>2, <2>9 DEF u, r
<1>7. QED BY <1>5, <1>6

\* The free space is short of `over` bytes, which go through a scratch zone.
LEMMA ScratchKeeps ==
  ASSUME size \in Nat, NEW b \in Rings, b.writep < b.readp, NEW by \in 1..b.readp,
         NEW over \in Nat, over = by - (b.readp - b.writep), b.writep - by - over >= 0
  PROVE  LET u == MovedByScratch(b, by, over) IN Held(u) = Held(b) /\ u.readp = b.readp - by
<1> DEFINE r == b.readp
           w == b.writep
           a == w - by - over
           n == Least(w, by)
           m == Joined(b, by, w)
           kept == [i \in 1..over |-> b.mem[w - over + i - 1]]
           v == Move(m, 0, by, a)
           x == Copy(v, a, kept, over)
           u == MovedByScratch(b, by, over)
<1>1. /\ r \in Int /\ w \in Int /\ by \in Int /\ size \in Int /\ by >= 1 /\ by <= r /\ w < r
      /\ r < size /\ w >= 0 /\ b.size = size /\ b.mem \in Memory /\ over = by - (r - w)
      /\ over \in Int /\ over >= 0 /\ a >= 0
  BY DEF Rings, Place
<1>2. n = by /\ a \in Int /\ over < by /\ by <= w BY <1>1 DEF Least
<1>3. n <= r - by BY <1>1, <1>2
<1>4. /\ m \in Memory
      /\ \A j \in Place : /\ j < r - by => m[j] = b.mem[j]
                          /\ j \in (r - by)..(size - by - 1) => m[j] = b.mem[j + by]
                          /\ j \in (size - by)..(size - by + n - 1) =>
                               m[j] = b.mem[j - (size - by)]
  BY <1>3, JoinedIs
<1>5. u = [b EXCEPT !.mem = x, !.readp = r - by, !.writep = w - by]
  BY <1>1 DEF MovedByScratch
<1>6. \A i \in 1..over : kept[i] = b.mem[w - over + i - 1] OBVIOUS
<1> HIDE DEF u, x, v, m, n, kept
<1>7. u.mem = x /\ u.readp = r - by /\ u.writep = w - by /\ u.size = size
  BY <1>1, <1>5 DEF Rings
<1>8. a = w - by - over OBVIOUS
<1> HIDE DEF r, w, a
<1>9. \A j \in Place : j \in 0..(0 + a - 1) => j - 0 + by \in Place
  BY <1>1, <1>2, <1>8 DEF Place
<1>10. /\ v \in Memory
       /\ \A j \in Place : v[j] = IF j \in 0..(0 + a - 1) THEN m[j - 0 + by] ELSE m[j]
  BY <1>1, <1>2, <1>4, <1>9, MoveIs DEF v
<1>11. \A j \in Place : x[j] = IF j \in a..(a + over - 1) THEN kept[j - a + 1] ELSE v[j]
  <2>1. DOMAIN v = Place BY <1>10 DEF Memory
  <2>2. QED BY <2>1 DEF x, Copy
<1>12. ASSUME NEW j \in Place
       PROVE  /\ j \in (r - by)..(size - by - 1) => x[j] = b.mem[j + by]
              /\ j \in (size - by)..(size - by + w - 1) => x[j] = b.mem[j - (size - by)]
              /\ j < w - by => x[j] = b.mem[j + by]
  <2>1. j \in Int /\ j >= 0 /\ j < size BY <1>1 DEF Place
  <2>2. j >= r - by => x[j] = m[j]
    <3>1. j >= r - by => j \notin a..(a + over - 1) /\ j \notin 0..(0 + a - 1)
      BY <1>1, <1>2, <1>8, <2>1
    <3>2. QED BY <1>10, <1>11, <3>1
  <2>3. ASSUME j \in (r - by)..(size - by - 1) PROVE x[j] = b.mem[j + by]
    BY <1>1, <1>4, <2>1, <2>2, <2>3
  <2>4. ASSUME j \in (size - by)..(size - by + w - 1) PROVE x[j] = b.mem[j - (size - by)]
    <3>1. j \in (size - by)..(size - by + n - 1) /\ j >= r - by
      BY <1>1, <1>2, <2>1, <2>4
    <3>2. QED BY <1>4, <2>2, <3>1
  <2>5. ASSUME j < w - by PROVE x[j] = b.mem[j + by]
    <3> DEFINE k == j + by
    <3>1. k \in Place /\ k = j - 0 + by BY <1>1, <1>2, <2>1, <2>5 DEF Place
    <3>2. CASE j < a
      <4>1. j \in 0..(0 + a - 1) /\ j \notin a..(a + over - 1) /\ k < r - by
        BY <1>1, <1>2, <1>8, <2>1, <3>2
      <4> HIDE DEF k
      <4>2. x[j] = m[k] BY <1>10, <1>11, <3>1, <4>1
      <4>3. m[k] = b.mem[k] BY <1>4, <3>1, <4>1
      <4>4. QED BY <4>2, <4>3 DEF k
    <3>3. CASE ~(j < a)
      <4>1. j \in a..(a + over - 1) /\ j - a + 1 \in 1..over
            /\ w - over + (j - a + 1) - 1 = k
        BY <1>1, <1>2, <1>8, <2>1, <2>5, <3>3
      <4> HIDE DEF k
      <4>2. x[j] = kept[j - a + 1] BY <1>11, <4>1
      <4>3. kept[j - a + 1] = b.mem[w - over + (j - a + 1) - 1] BY <1>6, <4>1
      <4>4. QED BY <4>1, <4>2, <4>3 DEF k
    <3>4. QED BY <3>2, <3>3
  <2>6. QED BY <2>3, <2>4, <2>5
<1>13. Held(u) = Held(b) BY <1>2, <1>7, <1>12, Rejoined DEF r, w
<1>14. QED BY <1>7, <1>13 DEF u, r

\* One call of _buf_unwrap.
LEMMA MovesAreKept ==
  ASSUME TypeOK
  PROVE  MovesKeep
<1> SUFFICES ASSUME NEW cont \in 1..(size - 1), NEW malloc \in BOOLEAN,
                    By(Buf, cont) > 0, ~InTwoCalls(Buf, cont, malloc),
                    Moved(Buf, cont) # Undefined
             PROVE  Held(Moved(Buf, cont)) = Held(Buf) /\ Moved(Buf, cont).readp = size - cont
  BY DEF MovesKeep
<1> DEFINE b == Buf
           by == By(b, cont)
           over == Over(b, cont)
<1>1. size \in Nat /\ size > 0 /\ cont \in Nat /\ cont < size /\ cont >= 1 BY DEF TypeOK
<1>2. b \in Rings BY <1>1 DEF Buf, Rings, Memory, Place, TypeOK
<1>3. /\ b.readp = readp /\ b.writep = writep /\ b.size = size
      /\ readp \in Nat /\ writep \in Nat /\ readp < size /\ writep < size
  BY <1>1 DEF Buf, TypeOK
<1>4. by = cont - (size - readp) /\ over = by - (readp - writep) BY <1>3 DEF By, Over
<1>5. by \in 1..b.readp /\ b.readp - by = size - cont /\ over \in Int BY <1>1, <1>3, <1>4
<1> HIDE DEF b, by, over
<1>6. CASE b.writep >= b.readp
  <2>1. Moved(Buf, cont) = Shifted(b, by) BY <1>6 DEF Moved, b, by
  <2>2. QED BY <1>1, <1>2, <1>5, <1>6, <2>1, ShiftedKeeps DEF b
<1>7. CASE ~(b.writep >= b.readp)
  <2>1. b.writep < b.readp BY <1>3, <1>7
  <2>2. over = 0 \/ over > 0 BY <2>1 DEF InTwoCalls, over, b
  <2>3. CASE over = 0
    <3>1. Moved(Buf, cont) = MovedDirectly(b, by) BY <1>7, <2>3 DEF Moved, b, by, over
    <3>2. by = b.readp - b.writep BY <1>3, <1>4, <1>5, <2>3
    <3>3. QED BY <1>1, <1>2, <1>5, <2>1, <3>1, <3>2, DirectKeeps DEF b
  <2>4. CASE over > 0
    <3>1. Moved(Buf, cont) = MovedByScratch(b, by, over)
      BY <1>5, <1>7, <2>4 DEF Moved, b, by, over
    <3>2. ~(b.writep - by - over < 0) BY <3>1 DEF MovedByScratch
    <3>3. over \in Nat /\ over = by - (b.readp - b.writep) /\ b.writep - by - over >= 0
      BY <1>3, <1>4, <1>5, <2>4, <3>2
    <3>4. QED BY <1>1, <1>2, <1>5, <2>1, <3>1, <3>3, ScratchKeeps DEF b
  <2>5. QED BY <2>2, <2>3, <2>4
<1>8. QED BY <1>6, <1>7

\* For buffers of every size, _buf_unwrap keeps what the buffer holds in each
\* of its moves, and makes the room it is asked for: MovesKeep.
THEOREM UnwrapMoves == Spec => []MovesKeep
<1>1. TypeOK => MovesKeep BY MovesAreKept
<1>2. QED BY <1>1, RingTypeCorrect, PTL
=============================================================================
