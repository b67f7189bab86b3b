----------------------------- MODULE MCRecorder -----------------------------
(***************************************************************************)
(* Recorder for TLC: the queue carries a pool buffer and the number of the *)
(* block it was filled with.                                               *)
(***************************************************************************)
EXTENDS Recorder

MCItems == [slot : 0 .. Pool - 1, block : 1 .. MaxBlocks]
=============================================================================
