------------------------------ MODULE Recorder ------------------------------
(***************************************************************************)
(* The recording path: LockFreeQueueManager (src/src/LockFreeQueue.cpp)    *)
(* and FileWriter (src/src/FileWriter.cpp).  The audio thread copies every *)
(* block into the next buffer of a pool and queues the buffer, recording   *)
(* or not; the file-writer thread pops buffers and gives them to           *)
(* FileWriter::encode; the UI thread opens and closes the encoder.         *)
(*                                                                         *)
(* The queue is BoundedFifo, which LockFreeQueue implements; RecordingPath *)
(* has the two threads work on LockFreeQueue itself.  A block of samples   *)
(* is its number.  The five encoders and their static pointers are one     *)
(* encoder: each open*() sets its pointer and then `recording`, each       *)
(* branch of close() flushes, frees and then nulls, each branch of         *)
(* encode() loads the pointer and calls the library.                       *)
(***************************************************************************)
EXTENDS BoundedFifo, SequencesExt

CONSTANTS
  Pool,      \* SPARE_BUFFERS
  MaxBlocks  \* bound: blocks the audio thread processes

ASSUME PoolAssumption   == Pool \in Nat \ {0}
ASSUME BlocksAssumption == MaxBlocks \in Nat
ASSUME ItemsAssumption  == Items = [slot : 0 .. Pool - 1, block : 1 .. MaxBlocks]

VARIABLES
  made,      \* blocks the audio thread has begun to copy
  counter,   \* buffer_counter
  pool,      \* the block whose samples each pool buffer holds
  audioPc,   \* the audio thread in LockFreeQueueManager::process()
  lapped,    \* history: "yes" once a buffer in use has been copied over
  writerPc,  \* the file-writer thread in main() and encode()
  loaded,    \* the encoder pointer encode() loaded: "none", "current", "stale"
  last,      \* the last block encoded into the current recording, 0 if none
  recording, \* FileWriter::recording, a plain bool
  encoder,   \* "none", "live", or "freed": freed with its pointer still set
  uiPc       \* the UI thread in FileWriter::open() or close()

audioVars  == <<made, counter, pool, audioPc, lapped>>
writerVars == <<writerPc, loaded, last>>
uiVars     == <<recording, encoder, uiPc>>
vars == <<fifoVars, audioVars, writerVars, uiVars>>

Init ==
  /\ FifoInit
  /\ made = 0 /\ counter = 0 /\ pool = [s \in 0 .. Pool - 1 |-> 0]
  /\ audioPc = "idle" /\ lapped = "no"
  /\ writerPc = "poll" /\ loaded = "none" /\ last = 0
  /\ recording = "off" /\ encoder = "none" /\ uiPc = "idle"

\* The buffers in use: queued, or popped and in main().
Held == IF writerPc \in {"gate", "load", "write"} THEN {popped} ELSE {}
InUse == ToSet(fifo) \union Held

-----------------------------------------------------------------------------
(* Audio thread: process().                                                *)

CopyBegin ==
  /\ audioPc = "idle" /\ made < MaxBlocks
  /\ made' = made + 1 /\ audioPc' = "copy"
  /\ UNCHANGED <<fifoVars, counter, pool, lapped, writerVars, uiVars>>

\* Seeded fault: the samples are copied only while a recording runs.
CopyEnd_OnlyRecording ==
  /\ audioPc = "copy"
  /\ pool' = IF recording = "on" THEN [pool EXCEPT ![counter] = made] ELSE pool
  /\ audioPc' = "push"
  /\ UNCHANGED <<fifoVars, made, counter, lapped, writerVars, uiVars>>

CopyEnd ==
  /\ audioPc = "copy"
  /\ pool' = [pool EXCEPT ![counter] = made]
  /\ audioPc' = "push"
  /\ lapped' = IF \E e \in InUse : e.slot = counter THEN "yes" ELSE lapped
  /\ UNCHANGED <<fifoVars, made, counter, writerVars, uiVars>>

\* Seeded fault: the last buffer of the pool is never used.
NextCounter_Short == (counter + 1) % (IF Pool = 1 THEN 1 ELSE Pool - 1)

NextCounter == (counter + 1) % Pool

\* Seeded fault: a refused buffer is kept for the next block.
PushBuffer_KeepRefused ==
  /\ audioPc = "push"
  /\ Put([slot |-> counter, block |-> made]) \/ Refuse
  /\ counter' = IF pushed' = "full" THEN counter ELSE NextCounter
  /\ audioPc' = "idle"
  /\ UNCHANGED <<made, pool, lapped, writerVars, uiVars>>

\* push() may answer FALSE; buffer_counter advances all the same.
PushBuffer ==
  /\ audioPc = "push"
  /\ Put([slot |-> counter, block |-> made]) \/ Refuse
  /\ counter' = NextCounter /\ audioPc' = "idle"
  /\ UNCHANGED <<made, pool, lapped, writerVars, uiVars>>

-----------------------------------------------------------------------------
(* File-writer thread: main() and FileWriter::encode().                    *)

\* Seeded fault: nothing is popped unless a recording runs.
WriterPop_OnlyRecording ==
  /\ writerPc = "poll" /\ recording = "on"
  /\ Take
  /\ writerPc' = "gate"
  /\ UNCHANGED <<audioVars, loaded, last, uiVars>>

WriterPop ==
  /\ writerPc = "poll"
  /\ Take
  /\ writerPc' = "gate"
  /\ UNCHANGED <<audioVars, loaded, last, uiVars>>

\* pop() fails: sleep 100 ms.
WriterSleep ==
  /\ writerPc = "poll"
  /\ FindEmpty
  /\ writerPc' = "sleep"
  /\ UNCHANGED <<audioVars, loaded, last, uiVars>>

WriterWake ==
  /\ writerPc = "sleep"
  /\ writerPc' = "poll"
  /\ UNCHANGED <<fifoVars, audioVars, loaded, last, uiVars>>

\* encode() returns at once unless `recording`.
WriterGate ==
  /\ writerPc = "gate"
  /\ writerPc' = IF recording = "on" THEN "load" ELSE "poll"
  /\ UNCHANGED <<fifoVars, audioVars, loaded, last, uiVars>>

\* The first encoder pointer that is not null; none: encode() returns.
WriterLoad ==
  /\ writerPc = "load"
  /\ IF encoder = "none"
     THEN writerPc' = "poll" /\ UNCHANGED loaded
     ELSE /\ writerPc' = "write"
          /\ loaded' = IF encoder = "live" THEN "current" ELSE "stale"
  /\ UNCHANGED <<fifoVars, audioVars, last, uiVars>>

\* The library call.  With a stale encoder it is undefined; of its outcomes the
\* model keeps the one the process survives, in which nothing is recorded.
WriterWrite ==
  /\ writerPc = "write"
  /\ writerPc' = "poll" /\ loaded' = "none"
  /\ last' = IF loaded = "current" THEN pool[popped.slot] ELSE last
  /\ UNCHANGED <<fifoVars, audioVars, uiVars>>

-----------------------------------------------------------------------------
(* UI thread: startRecording() is FileWriter::open(), stopRecording() is   *)
(* FileWriter::close().                                                    *)

OpenFails ==
  /\ uiPc = "idle" /\ encoder = "none"
  /\ UNCHANGED vars

\* open*() stores the new encoder ...
OpenEncoder ==
  /\ uiPc = "idle" /\ encoder = "none"
  /\ encoder' = "live" /\ uiPc' = "opening" /\ last' = 0
  /\ UNCHANGED <<fifoVars, audioVars, writerPc, loaded, recording>>

\* ... and lets encode() in.
OpenDone ==
  /\ uiPc = "opening"
  /\ recording' = "on" /\ uiPc' = "idle"
  /\ UNCHANGED <<fifoVars, audioVars, writerVars, encoder>>

CloseGate ==
  /\ uiPc = "idle" /\ encoder = "live"
  /\ recording' = "off" /\ uiPc' = "flush"
  /\ UNCHANGED <<fifoVars, audioVars, writerVars, encoder>>

\* The encoder flushes its last data and is freed; an encode() that has loaded
\* its pointer now holds a dangling one.
CloseFree ==
  /\ uiPc = "flush"
  /\ encoder' = "freed" /\ uiPc' = "null"
  /\ loaded' = IF loaded = "current" THEN "stale" ELSE loaded
  /\ UNCHANGED <<fifoVars, audioVars, writerPc, last, recording>>

CloseNull ==
  /\ uiPc = "null"
  /\ encoder' = "none" /\ uiPc' = "idle"
  /\ UNCHANGED <<fifoVars, audioVars, writerVars, recording>>

AudioNext  == CopyBegin \/ CopyEnd \/ PushBuffer
WriterNext == WriterPop \/ WriterSleep \/ WriterWake \/ WriterGate \/ WriterLoad \/ WriterWrite
UiNext     == OpenFails \/ OpenEncoder \/ OpenDone \/ CloseGate \/ CloseFree \/ CloseNull

\* The bound on blocks is reached and the writer may sleep for ever.
Next == AudioNext \/ WriterNext \/ UiNext

Spec == Init /\ [][Next]_vars

\* The operating system schedules the file-writer thread.
FairSpec == Spec /\ WF_vars(WriterNext)

-----------------------------------------------------------------------------
(* Properties.                                                             *)

\* The types of the variables; the writer thread works on a buffer.
TypeOK ==
  /\ fifo \in Seq(Items) /\ Len(fifo) <= Capacity
  /\ pushed \in {"ok", "full"} /\ popped \in Items \union {Nothing}
  /\ made \in 0 .. MaxBlocks /\ counter \in 0 .. Pool - 1
  /\ pool \in [0 .. Pool - 1 -> 0 .. MaxBlocks]
  /\ audioPc \in {"idle", "copy", "push"} /\ lapped \in {"no", "yes"}
  /\ writerPc \in {"poll", "sleep", "gate", "load", "write"}
  /\ loaded \in {"none", "current", "stale"} /\ last \in 0 .. MaxBlocks
  /\ recording \in {"on", "off"} /\ encoder \in {"none", "live", "freed"}
  /\ uiPc \in {"idle", "opening", "flush", "null"}
  /\ Held \subseteq Items

\* process() never looks whether a buffer is still queued or being encoded before
\* it copies over it.  A buffer in use is touched only once the writer thread is a
\* whole pool of blocks behind; until then every queued block is intact.
IntactUntilLapped ==
  \A e \in InUse :
    (audioPc = "copy" /\ counter = e.slot) \/ pool[e.slot] # e.block
      => made >= e.block + Pool

\* The queue refuses a buffer only when the writer thread is Capacity behind, and
\* what is encoded then is the overwritten buffer's newer block: encode() is never
\* given samples older than a pool of blocks, however long the thread was held up.
NeverStale == writerPc = "write" => pool[popped.slot] + Pool >= made

\* While no buffer has been lapped, the blocks of one recording are encoded in the
\* order they were processed and none twice, across close() and open() at any
\* moment of encode().
InOrder == [][WriterWrite /\ loaded = "current" /\ lapped = "no" => last' > last]_vars

\* Every queued block is popped, whether a recording runs or not, so that the queue
\* does not fill up before Record is pressed.
Drained == \A b \in 1 .. MaxBlocks :
             (\E e \in ToSet(fifo) : e.block = b) ~> (\A e \in ToSet(fifo) : e.block # b)

\* docs/milestone-8.md:18: "`FileWriter::recording` flag gates the encode callback".
\* No encoder is in use after close() has cleared the flag.
EncodeGated == writerPc = "write" => recording = "on"
=============================================================================
