---------------------------- MODULE BoundedFifo ----------------------------
(***************************************************************************)
(* What LockFreeQueue promises its two threads: a FIFO of at most Capacity *)
(* items.  push() answers FALSE only when the FIFO is full, pop() answers  *)
(* FALSE only when it is empty, and pop() hands out the oldest item, once. *)
(***************************************************************************)
EXTENDS QueueConstants, Sequences

VARIABLES
  fifo,    \* the items held, oldest first
  pushed,  \* what the last push() returned: "ok" or "full"
  popped   \* what the last pop() stored, or Nothing

fifoVars == <<fifo, pushed, popped>>

FifoInit == fifo = <<>> /\ pushed = "ok" /\ popped = Nothing

Put(v) ==
  /\ Len(fifo) < Capacity
  /\ fifo' = Append(fifo, v) /\ pushed' = "ok"
  /\ UNCHANGED popped

Refuse ==
  /\ Len(fifo) = Capacity
  /\ pushed' = "full"
  /\ UNCHANGED <<fifo, popped>>

Take ==
  /\ fifo # <<>>
  /\ popped' = Head(fifo) /\ fifo' = Tail(fifo)
  /\ UNCHANGED pushed

FindEmpty ==
  /\ fifo = <<>>
  /\ popped' = Nothing
  /\ UNCHANGED <<fifo, pushed>>

FifoNext == (\E v \in Items : Put(v)) \/ Refuse \/ Take \/ FindEmpty

Fifo == FifoInit /\ [][FifoNext]_fifoVars
=============================================================================
