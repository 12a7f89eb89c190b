-------------------------------- MODULE Fifo --------------------------------
(***************************************************************************)
(* What the users of squeezelite/buffer.c rely on: the bytes that a write  *)
(* took come out once and in order, unless the buffer is cleared.  A write *)
(* takes only what there is room for, a read gives only what there is.     *)
(***************************************************************************)
EXTENDS Integers, Sequences

CONSTANT Byte

VARIABLES
  queue,   \* the bytes that were written and not read
  room,    \* how many the buffer can hold
  moved    \* the bytes that the last write took or the last read gave

Put ==
  /\ moved' \in Seq(Byte)
  /\ queue' = queue \o moved'
  /\ Len(queue') <= room
  /\ UNCHANGED room

Take ==
  /\ Len(moved') <= Len(queue)
  /\ queue = moved' \o queue'
  /\ UNCHANGED room

Clear == queue' = <<>> /\ moved' = <<>> /\ room' \in Nat

Init == queue = <<>> /\ moved = <<>> /\ room \in Nat

Next == Put \/ Take \/ Clear

Spec == Init /\ [][Next]_<<queue, room, moved>>
=============================================================================
