---------------------------- MODULE BufferMoves ----------------------------
(***************************************************************************)
(* What one call of _buf_unwrap of squeezelite/buffer.c moves, when it     *)
(* does not call itself: the buffered data comes closer to the start of    *)
(* the memory, by as much as is missing for `cont` contiguous bytes at     *)
(* readp.                                                                  *)
(***************************************************************************)
EXTENDS Buffer

Buf == [mem |-> mem, readp |-> readp, writep |-> writep, size |-> size]

\* The call wrote or would write outside the memory.
Undefined == [mem |-> <<>>, readp |-> 0, writep |-> 0, size |-> 0]

\* memmove(buf + to, buf + from, n)
Move(m, to, from, n) ==
  [j \in DOMAIN m |-> IF j \in to..(to + n - 1) THEN m[j - to + from] ELSE m[j]]

\* The data is in one piece: it only moves up.
Shifted(b, by) ==
  [b EXCEPT !.mem = Move(b.mem, b.readp - by, b.readp, b.writep - b.readp),
            !.readp = b.readp - by, !.writep = b.writep - by]

\* The first piece moves up and the start of the second one, of `len` bytes,
\* follows it.
Joined(b, by, len) ==
  Move(Move(b.mem, b.readp - by, b.readp, b.size - b.readp),
       b.size - by, 0, Least(len, by))

\* The free space between the pieces is what is needed.
MovedDirectly(b, by) ==
  LET len == b.writep
      m   == Joined(b, by, len)
  IN  IF len > by
      THEN [b EXCEPT !.mem = Move(m, 0, by, len - by),
                     !.readp = b.readp - by, !.writep = b.writep - by]
      ELSE [b EXCEPT !.mem = m, !.readp = b.readp - by,
                     !.writep = b.writep + b.size - by]

\* Fault: the scratch zone is filled after the data has moved.
MovedByScratch_SavesLate(b, by, over) ==
  LET len  == b.writep
      m    == Move(Joined(b, by, len), 0, by, len - by - over)
      kept == [i \in 1..over |-> m[len - over + i - 1]]
  IN  IF len - by - over < 0 THEN Undefined
      ELSE [b EXCEPT !.mem = Copy(m, len - by - over, kept, over),
                     !.readp = b.readp - by, !.writep = len - by]

\* The last `over` bytes would be overwritten: they go through a scratch zone.
MovedByScratch(b, by, over) ==
  LET len  == b.writep
      kept == [i \in 1..over |-> b.mem[len - over + i - 1]]
      m    == Move(Joined(b, by, len), 0, by, len - by - over)
  IN  IF len - by - over < 0 THEN Undefined
      ELSE [b EXCEPT !.mem = Copy(m, len - by - over, kept, over),
                     !.readp = b.readp - by, !.writep = len - by]

\* How far the data has to move, and how much of it the free space is short of.
By(b, cont)   == cont - (b.size - b.readp)
Over(b, cont) == By(b, cont) - (b.readp - b.writep)

\* `over` is unsigned: when it should be negative it is huge, the branch that
\* was meant for it is not taken and malloc fails.
InTwoCalls(b, cont, malloc) ==
  b.writep < b.readp /\ Over(b, cont) # 0 /\ ~(Over(b, cont) > 0 /\ malloc)

Moved(b, cont) ==
  IF b.writep >= b.readp THEN Shifted(b, By(b, cont))
  ELSE IF Over(b, cont) = 0 THEN MovedDirectly(b, By(b, cont))
  ELSE MovedByScratch(b, By(b, cont), Over(b, cont))

-----------------------------------------------------------------------------
(* Properties: of a call in every state the buffer can be in.              *)

\* The bytes a buffer holds, in order.
Held(b) ==
  LET count == IF b.writep >= b.readp THEN b.writep - b.readp
               ELSE b.size - (b.readp - b.writep)
  IN  [i \in 1..count |-> b.mem[Advance(b.readp, i - 1)]]

\* A call that does not call itself keeps the bytes held as they are, across
\* up to four moves of pieces that overlap, and leaves readp with `cont` bytes
\* before wrap (_buf_unwrap, 116-151).
MovesKeep ==
  \A cont \in 1..(size - 1), malloc \in BOOLEAN :
    LET m == Moved(Buf, cont)
    IN  By(Buf, cont) > 0 /\ ~InTwoCalls(Buf, cont, malloc) /\ m # Undefined =>
          Held(m) = Held(Buf) /\ m.readp = size - cont
=============================================================================
