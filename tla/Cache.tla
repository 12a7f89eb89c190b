------------------------------- MODULE Cache -------------------------------
(***************************************************************************)
(* cache.c: what an output thread keeps of the track it serves, so that a  *)
(* device which connects again can be sent some of it once more.  A cache  *)
(* is a ring (the types CACHE_RING and CACHE_INFINITE, which only differ   *)
(* in what is said of them) or a temporary file.  The bytes of a track are *)
(* numbered from 0, and stand for themselves.  Pointers are offsets from   *)
(* buffer; read_offset of the file is read_p.                              *)
(***************************************************************************)
EXTENDS Integers, Sequences, FiniteSets

CONSTANT CacheSize       \* cache->size of a ring: 8 MB in the code

ASSUME CacheSizeAssumption == CacheSize \in Nat \ {0, 1}

Garbage == -3            \* memory that was never written

Least(a, b) == IF a <= b THEN a ELSE b

CacheTypes == {"ring", "file"}

CacheType == [type : CacheTypes, total : Nat, read_p : Nat,
              write_p : Nat, buffer : [0..CacheSize - 1 -> Int]]

NewCache(type) == [type |-> type, total |-> 0, read_p |-> 0, write_p |-> 0,
                   buffer |-> [i \in 0..CacheSize - 1 |-> Garbage]]

IsFile(c) == c.type = "file"

-----------------------------------------------------------------------------
\* The ring, one byte of which stays unused.

RingLevel(c) == IF c.total < CacheSize THEN c.total ELSE CacheSize - 1

\* What can be read without wrapping.
RingPending(c) == IF c.write_p >= c.read_p THEN c.write_p - c.read_p
                                           ELSE CacheSize - c.read_p

\* The byte after write_p.
Oldest(c) == IF c.write_p + 1 = CacheSize THEN 0 ELSE c.write_p + 1

RingSetOffset(c, offset) ==
  [c EXCEPT !.read_p = IF offset >= c.total THEN c.write_p
                       ELSE IF offset < c.total - RingLevel(c) THEN Oldest(c)
                       ELSE offset % CacheSize]

Wrapped(p) == IF p >= CacheSize THEN p - CacheSize ELSE p

RingReadInner(c, size) ==
  LET n == Least(Least(size, RingPending(c)), CacheSize - c.read_p)
  IN [data  |-> [i \in 1..n |-> c.buffer[c.read_p + i - 1]],
      cache |-> [c EXCEPT !.read_p = Wrapped(c.read_p + n)]]

\* A full ring drags read_p along; there it is left at wrap, not at buffer.
RingWrite(c, src) ==
  LET n == Len(src)
      stored == [c EXCEPT
        !.buffer  = [i \in 0..CacheSize - 1 |->
                       LET k == (i - c.write_p) % CacheSize
                       IN IF k < n THEN src[k + 1] ELSE c.buffer[i]],
        !.write_p = Wrapped(c.write_p + n),
        !.total   = c.total + n]
  IN IF RingLevel(stored) = CacheSize - 1
     THEN [stored EXCEPT !.read_p = stored.write_p + 1] ELSE stored

-----------------------------------------------------------------------------
\* The file, whose byte at offset k is byte k.  A read stops at its end.

FileReadInner(c, size) ==
  LET left == IF c.read_p < c.total THEN c.total - c.read_p ELSE 0
      n == Least(Least(size, c.total), left)
  IN [data  |-> [i \in 1..n |-> c.read_p + i - 1],
      cache |-> [c EXCEPT !.read_p = c.read_p + n]]

-----------------------------------------------------------------------------
\* The interface.

Level(c) == IF IsFile(c) THEN c.total ELSE RingLevel(c)

\* A mutant: the oldest byte is not in scope.
InScope_NotOldest(c, offset) == offset < c.total /\ offset > c.total - Level(c)

\* scope(offset) = 0.
InScope(c, offset) == offset < c.total /\ offset >= c.total - Level(c)

SetOffset(c, offset) ==
  IF IsFile(c) THEN [c EXCEPT !.read_p = offset] ELSE RingSetOffset(c, offset)

\* The data, empty where the code returns NULL, and the cache afterwards.
ReadInner(c, size) ==
  IF IsFile(c) THEN FileReadInner(c, size) ELSE RingReadInner(c, size)

Write(c, src) ==
  IF IsFile(c) THEN [c EXCEPT !.total = c.total + Len(src)]
               ELSE RingWrite(c, src)
=============================================================================
