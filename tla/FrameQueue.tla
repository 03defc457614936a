----------------------------- MODULE FrameQueue -----------------------------
(***************************************************************************)
(* What the pipeline promises its consumers: a bounded first-in first-out  *)
(* queue of encoded pictures.  Pictures are numbered in the order they     *)
(* were encoded; one that found the queue full was never encoded and has   *)
(* no number.                                                              *)
(***************************************************************************)
EXTENDS Naturals, Sequences

CONSTANT Capacity

VARIABLES
  queue,   \* the pictures not consumed yet, oldest first
  next     \* the number of the picture that will be encoded next

Init ==
  /\ queue = <<>>
  /\ next = 0

Put ==
  /\ Len(queue) < Capacity
  /\ queue' = Append(queue, next)
  /\ next' = next + 1

Take ==
  /\ queue # <<>>
  /\ queue' = Tail(queue)
  /\ UNCHANGED next

Spec == Init /\ [][Put \/ Take]_<<queue, next>>
=============================================================================
