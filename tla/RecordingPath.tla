---------------------------- MODULE RecordingPath ----------------------------
(***************************************************************************)
(* The recording path with the queue as it is: the audio thread of         *)
(* Recorder in push() and its file-writer thread in pop() of               *)
(* LockFreeQueue, one access to a counter or a slot at a time, with        *)
(* everything else either thread and the UI thread do in between.  A step  *)
(* of Recorder that puts into or takes from the FIFO is taken where the    *)
(* queue's own step makes the change visible: when a counter advances, or  *)
(* when a counter that is read shows a full or an empty queue.             *)
(***************************************************************************)
EXTENDS Recorder

VARIABLES
  buffer, writeCounter, readCounter,  \* LockFreeQueue
  pushPc, item,                       \* the audio thread in push()
  popPc, val                          \* the file-writer thread in pop()

queueVars == <<buffer, writeCounter, readCounter, pushPc, item, popPc, val>>
pathVars  == <<vars, queueVars>>

Q == INSTANCE LockFreeQueue WITH writerPc <- pushPc, readerPc <- popPc

PathInit == Init /\ Q!Init

\* process() without its push(), and push() called on the buffer just filled.
PathAudio ==
  \/ (CopyBegin \/ CopyEnd) /\ UNCHANGED queueVars
  \/ /\ audioPc = "push"
     /\ Q!PushTest([slot |-> counter, block |-> made]) \/ Q!PushWrite
     /\ UNCHANGED <<fifo, audioVars, writerVars, uiVars>>
  \/ (Q!PushAdvance \/ Q!PushFull) /\ PushBuffer

\* pop() called by main(), and what main() and encode() do between two calls.
PathWriter ==
  \/ /\ writerPc = "poll"
     /\ Q!PopTest \/ Q!PopRead
     /\ UNCHANGED <<fifo, audioVars, writerVars, uiVars>>
  \/ Q!PopAdvance /\ WriterPop
  \/ Q!PopEmpty /\ WriterSleep
  \/ (WriterWake \/ WriterGate \/ WriterLoad \/ WriterWrite) /\ UNCHANGED queueVars

PathUi == UiNext /\ UNCHANGED queueVars

PathNext == PathAudio \/ PathWriter \/ PathUi

\* The operating system schedules the file-writer thread.
PathSpec == PathInit /\ [][PathNext]_pathVars /\ WF_pathVars(PathWriter)

-----------------------------------------------------------------------------
(* Properties.                                                             *)

\* push() filling a slot and pop() copying one out never meet in it, whatever the two
\* threads and the UI do between their calls, and wherever the counters wrapped.
NoSlotRace == Q!NoSlotRace

\* The calls that process() and main() make see a bounded FIFO.
IsFifo == Q!IsFifo

\* Recorder may take the FIFO for the queue: between the counters lie the items of the
\* FIFO; an item about to be handed out is its oldest; and one being put in has room.
QueueIsFifo ==
  /\ fifo = Q!Contents
  /\ popPc = "advance" => fifo # <<>> /\ val = Head(fifo)
  /\ pushPc # "idle" => Len(fifo) < Capacity
=============================================================================
