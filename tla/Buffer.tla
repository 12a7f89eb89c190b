------------------------------- MODULE Buffer -------------------------------
(***************************************************************************)
(* The ring buffer of squeezelite/buffer.c, which streambuf, outputbuf and *)
(* the HTTP backlog are made of: readp and writep chase each other through *)
(* `size` bytes and one byte stays free, for a full buffer would look      *)
(* empty.  Pointers are offsets from buf; wrap is buf + size.              *)
(*                                                                         *)
(* Every action is under the buffer's mutex.  Refills are the writers that *)
(* receive into writep and then call _buf_inc_writep, Drains the readers   *)
(* that use the bytes in place and then call _buf_inc_readp: both within   *)
(* the contiguous part.  _buf_unwrap is in BufferUnwrap.                   *)
(***************************************************************************)
EXTENDS Integers, Sequences

CONSTANTS
  Byte,      \* values of a byte
  Garbage,   \* the contents of memory that nothing was written to
  Sizes,     \* bound: the sizes that _buf_resize is called with
  MaxChunk   \* bound: the bytes of one write or read

ASSUME BufferAssumption ==
  /\ Sizes \subseteq Nat \ {0}
  /\ MaxChunk \in Nat

VARIABLES
  mem,      \* the bytes at buf
  readp,
  writep,
  size,
  moved     \* the bytes that the last write took or the last read gave

vars == <<mem, readp, writep, size, moved>>

-----------------------------------------------------------------------------
Used == IF writep >= readp THEN writep - readp ELSE size - (readp - writep)

\* Fault: a full buffer may look empty.
Space_TakesAll == size - Used

Space == size - Used - 1

ContRead  == IF writep >= readp THEN writep - readp ELSE size - readp
ContWrite == IF writep >= readp THEN size - writep ELSE readp - writep

\* Fault: a pointer stops at the wrap.
Advance_StopsAtWrap(p, by) == IF p + by > size THEN p + by - size ELSE p + by

Advance(p, by) == IF p + by >= size THEN p + by - size ELSE p + by

Least(a, b) == IF a <= b THEN a ELSE b

\* memcpy(buf + to, s, n)
Copy(m, to, s, n) ==
  [j \in DOMAIN m |-> IF j \in to..(to + n - 1) THEN s[j - to + 1] ELSE m[j]]

\* The n bytes at buf + from.
Slice(from, n) == [i \in 1..n |-> mem[from + i - 1]]

\* Data of at most MaxChunk bytes.
Chunk == UNION {[1..n -> Byte] : n \in 1..MaxChunk}

-----------------------------------------------------------------------------
\* _buf_write: what fits is copied, in two parts when it wraps.  With no
\* memory (_buf_resize) it would write through a null pointer.
Write(s) ==
  LET n   == Least(Len(s), Space)
      low == Least(n, ContWrite)
  IN  /\ size > 0
      /\ mem' = Copy(Copy(mem, writep, s, low), 0, SubSeq(s, low + 1, n), n - low)
      /\ writep' = Advance(writep, n)
      /\ moved' = SubSeq(s, 1, n)
      /\ UNCHANGED <<readp, size>>

\* The stream thread and the decoders: one part, within the free space.
Refill(s) ==
  /\ size > 0 /\ Len(s) <= Least(Space, ContWrite)
  /\ mem' = Copy(mem, writep, s, Len(s))
  /\ writep' = Advance(writep, Len(s))
  /\ moved' = s
  /\ UNCHANGED <<readp, size>>

\* _buf_read
Read(n) ==
  LET all == Least(n, Used)
      low == Least(all, ContRead)
  IN  /\ moved' = Slice(readp, low) \o Slice(0, all - low)
      /\ readp' = Advance(readp, all)
      /\ UNCHANGED <<mem, writep, size>>

\* The decoders, the output and the HTTP threads.
Drain(n) ==
  /\ n <= Least(Used, ContRead)
  /\ moved' = Slice(readp, n)
  /\ readp' = Advance(readp, n)
  /\ UNCHANGED <<mem, writep, size>>

\* buf_flush
Flush ==
  /\ readp' = 0 /\ writep' = 0
  /\ moved' = <<>>
  /\ UNCHANGED <<mem, size>>

\* _buf_reset: only an empty buffer.
Reset == readp = writep /\ Flush

\* _buf_resize: new memory of the size asked for, or of the old size, or none.
Resize(s) ==
  /\ s # size
  /\ size' \in {s, size, 0}
  /\ mem' = [j \in 0..(size' - 1) |-> Garbage]
  /\ readp' = 0 /\ writep' = 0 /\ moved' = <<>>

\* buf_init
Init ==
  /\ size \in Sizes
  /\ mem = [j \in 0..(size - 1) |-> Garbage]
  /\ readp = 0 /\ writep = 0 /\ moved = <<>>

Next ==
  \/ \E s \in Chunk : Write(s) \/ Refill(s)
  \/ \E n \in 1..MaxChunk : Read(n) \/ Drain(n)
  \/ Flush \/ Reset
  \/ \E s \in Sizes : Resize(s)

Spec == Init /\ [][Next]_vars

-----------------------------------------------------------------------------
(* Properties                                                              *)

\* The pointers are inside the memory, whatever was written and read.
TypeOK ==
  /\ size \in Nat
  /\ mem \in [0..(size - 1) -> Byte \cup {Garbage}]
  /\ readp \in 0..size /\ writep \in 0..size
  /\ size > 0 => readp < size /\ writep < size
  /\ moved \in Seq(Byte \cup {Garbage})

\* The bytes from readp to writep.
Contents == [i \in 1..Used |-> mem[Advance(readp, i - 1)]]

Capacity == IF size = 0 THEN 0 ELSE size - 1

F == INSTANCE Fifo WITH queue <- Contents, room <- Capacity

\* The ring loses, repeats and reorders nothing, across the wrap and up to a
\* full buffer: it implements Fifo.
ImplementsFifo == F!Spec
=============================================================================
