---------------------------- MODULE BufferUnwrap ----------------------------
(***************************************************************************)
(* _buf_unwrap of squeezelite/buffer.c: the header parsers of the MP4      *)
(* decoders call it to have `cont` contiguous bytes at readp.  It moves    *)
(* what is in the buffer for that (BufferMoves), or calls itself twice.    *)
(***************************************************************************)
EXTENDS BufferMoves

RECURSIVE Unwrapped(_, _, _)
Unwrapped(b, cont, malloc) ==
  LET again == Unwrapped(b, cont \div 2, malloc)
  IN  IF By(b, cont) <= 0 \/ cont >= b.size THEN b
      ELSE IF ~InTwoCalls(b, cont, malloc) THEN Moved(b, cont)
      ELSE IF again = Undefined THEN Undefined
      ELSE Unwrapped(again, cont - cont \div 2, malloc)

-----------------------------------------------------------------------------
(* Properties: of a call in every state the buffer can be in.              *)

\* The bytes held stay the same, also with two calls of half the bytes each,
\* as long as no call writes outside the memory.
CallsKeep ==
  \A cont \in 1..size, malloc \in BOOLEAN :
    LET u == Unwrapped(Buf, cont, malloc)
    IN  u # Undefined => Held(u) = Held(Buf)

\* Whatever is moved, and whether or not there is a scratch zone, nothing that
\* is in the buffer is lost.
UnwrapKeeps == MovesKeep /\ CallsKeep

\* The parsers do not ask for more than the buffer holds; with memory for the
\* scratch zone they then have the bytes in one piece.
UnwrapMakesRoom ==
  \A cont \in 1..(size - 1) :
    LET u == Unwrapped(Buf, cont, TRUE)
    IN  u # Undefined => u.size - u.readp >= cont
=============================================================================
