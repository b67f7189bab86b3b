--------------------------- MODULE LockFreeQueue ---------------------------
(***************************************************************************)
(* The wait-free queue of src/src/LockFreeQueue.h between one writer (the  *)
(* audio thread) and one reader (the file-writer thread).  Each read or    *)
(* write of a counter or of a slot is a step; a thread's own counter is    *)
(* changed by nobody else, so reading it is part of the step that uses it. *)
(* The counters are INDEX_TYPE values: they wrap at Modulus.               *)
(***************************************************************************)
EXTENDS QueueConstants, Sequences

VARIABLES
  buffer,        \* the slots
  writeCounter,
  readCounter,
  writerPc, item,  \* the thread in push(): next step and argument
  readerPc, val,   \* the thread in pop(): next step and value copied
  pushed, popped   \* what the last push() and the last pop() answered

writerVars == <<writeCounter, writerPc, item, pushed>>
readerVars == <<readCounter, readerPc, val, popped>>
vars == <<buffer, writerVars, readerVars>>

Modulus  == Laps * Capacity
Counters == 0 .. Modulus - 1
Slots    == 0 .. Capacity - 1

Mask(n) == n % Capacity                \* n & (CAPACITY - 1)
Plus(n, d) == IF n + d < Modulus THEN n + d ELSE n + d - Modulus

\* Seeded fault: the difference is taken without the wrap.
Distance_NoWrap(w, r) == IF w >= r THEN w - r ELSE 0

\* w - r in unsigned arithmetic.
Distance(w, r) == IF w >= r THEN w - r ELSE w - r + Modulus
Size == Distance(writeCounter, readCounter)

IsEmpty == readCounter = writeCounter

\* Seeded fault: one item more than there are slots is let in.
IsFull_OneMore == Size > Capacity

IsFull == Size = Capacity

Init ==
  /\ buffer = [s \in Slots |-> Nothing]
  /\ writeCounter = 0 /\ writerPc = "idle" /\ item = Nothing /\ pushed = "ok"
  /\ readCounter = 0 /\ readerPc = "idle" /\ val = Nothing /\ popped = Nothing

-----------------------------------------------------------------------------
(* push()                                                                  *)

PushFull ==
  /\ writerPc = "idle" /\ IsFull
  /\ pushed' = "full"
  /\ UNCHANGED <<buffer, writeCounter, writerPc, item, readerVars>>

PushTest(v) ==
  /\ writerPc = "idle" /\ ~IsFull
  /\ writerPc' = "write" /\ item' = v
  /\ UNCHANGED <<buffer, writeCounter, pushed, readerVars>>

\* Seeded fault: the counter is advanced before it is used.
PushWrite_NextSlot ==
  /\ writerPc = "write"
  /\ buffer' = [buffer EXCEPT ![Mask(writeCounter + 1)] = item]
  /\ writerPc' = "advance"
  /\ UNCHANGED <<writeCounter, item, pushed, readerVars>>

PushWrite ==
  /\ writerPc = "write"
  /\ buffer' = [buffer EXCEPT ![Mask(writeCounter)] = item]
  /\ writerPc' = "advance"
  /\ UNCHANGED <<writeCounter, item, pushed, readerVars>>

PushAdvance ==
  /\ writerPc = "advance"
  /\ writeCounter' = Plus(writeCounter, 1)
  /\ writerPc' = "idle" /\ pushed' = "ok"
  /\ UNCHANGED <<buffer, item, readerVars>>

-----------------------------------------------------------------------------
(* pop()                                                                   *)

PopEmpty ==
  /\ readerPc = "idle" /\ IsEmpty
  /\ popped' = Nothing
  /\ UNCHANGED <<buffer, writerVars, readCounter, readerPc, val>>

PopTest ==
  /\ readerPc = "idle" /\ ~IsEmpty
  /\ readerPc' = "read"
  /\ UNCHANGED <<buffer, writerVars, readCounter, val, popped>>

PopRead ==
  /\ readerPc = "read"
  /\ val' = buffer[Mask(readCounter)]
  /\ readerPc' = "advance"
  /\ UNCHANGED <<buffer, writerVars, readCounter, popped>>

PopAdvance ==
  /\ readerPc = "advance"
  /\ readCounter' = Plus(readCounter, 1)
  /\ readerPc' = "idle" /\ popped' = val
  /\ UNCHANGED <<buffer, writerVars, val>>

WriterNext == PushFull \/ (\E v \in Items : PushTest(v)) \/ PushWrite \/ PushAdvance
ReaderNext == PopEmpty \/ PopTest \/ PopRead \/ PopAdvance
Next == WriterNext \/ ReaderNext

Spec == Init /\ [][Next]_vars

-----------------------------------------------------------------------------
(* Properties.                                                             *)

\* The types of the variables; a slot about to be read holds an item.
TypeOK ==
  /\ buffer \in [Slots -> Items \union {Nothing}]
  /\ writeCounter \in Counters /\ readCounter \in Counters
  /\ writerPc \in {"idle", "write", "advance"}
  /\ readerPc \in {"idle", "read", "advance"}
  /\ item \in Items \union {Nothing} /\ val \in Items \union {Nothing}
  /\ pushed \in {"ok", "full"} /\ popped \in Items \union {Nothing}
  /\ writerPc # "idle" => item \in Items
  /\ readerPc = "advance" => val \in Items

\* The slots are plain memory: push() storing an item and pop() copying one out
\* never work on the same slot at the same time, wherever the counters wrapped.
NoSlotRace ==
  ~ (writerPc = "write" /\ readerPc = "read" /\ Mask(writeCounter) = Mask(readCounter))

\* The items between the two counters, oldest first.
Window(b, r, n) == [i \in 1 .. n |-> b[Mask(Plus(r, i - 1))]]
Contents == Window(buffer, readCounter, Size)

\* push() and pop() in small steps, with wrapping counters, are the bounded
\* FIFO: nothing is lost, repeated or reordered, and "full" and "empty" are only
\* answered by a queue that is full or empty at the moment the counters are read.
Abstract == INSTANCE BoundedFifo WITH fifo <- Contents
IsFifo == Abstract!Fifo
=============================================================================
