----------------------------- MODULE RenderDrain -----------------------------
(***************************************************************************)
(* The way of processed frames to the render device: the second half of    *)
(* the packet loop of AudioEngine::runLoop() (src/src/win32/AudioEngine.cpp*)
(* :785-901).  A packet is pushed into the drain ring; the fill level of   *)
(* the render buffer is read and, once a window of packets, corrected; as  *)
(* many whole frames as fit go from the ring to the device.  Meanwhile the *)
(* device plays: its fill level falls at any moment.                       *)
(*                                                                         *)
(* A sample is a pair <<f, c>>, channel c of frame f; frames are numbered  *)
(* as they are processed.  The ring is the sequence of its samples:        *)
(* MessageRing shows that the byte ring is one.                            *)
(***************************************************************************)
EXTENDS Integers, Sequences

CONSTANTS
  CaptureBuf, \* frames of the capture buffer, captureBufSize
  RenderBuf,  \* frames of the render buffer, renderBufSize
  Channels,   \* renChannels
  RingSize,   \* samples the drain ring has room for
  DspMax,     \* frames one packet becomes at most, after resampling
  Window,     \* kDriftWindow
  MaxFrames   \* bound: frames processed

ASSUME CaptureAssumption  == CaptureBuf \in Nat \ {0}
ASSUME RenderAssumption   == RenderBuf \in Nat \ {0}
ASSUME ChannelsAssumption == Channels \in Nat \ {0}
ASSUME WindowAssumption   == Window \in Nat \ {0}
ASSUME FramesAssumption   == MaxFrames \in Nat

\* dspOutBuf has room for the larger of the two device buffers; nothing in the
\* code compares that with what the resampler returns.
ASSUME DspAssumption == DspMax \in Nat /\ (DspMax <= CaptureBuf \/ DspMax <= RenderBuf)

\* The ring is asked to hold four buffers, and has the next power of two.
Wanted == 4 * Channels * (IF CaptureBuf > RenderBuf THEN CaptureBuf ELSE RenderBuf)
ASSUME RingAssumption ==
  /\ RingSize \in Nat /\ Wanted <= RingSize /\ RingSize \div 2 < Wanted
  /\ \E e \in 0 .. 31 : RingSize = 2 ^ e

VARIABLES
  pc,                        \* the audio thread within a packet
  made,                      \* frames processed so far
  ring,                      \* samples in renderDrainRing
  padding,                   \* frames the device has still to play
  available,                 \* room in the render buffer, as read
  driftFillSum, driftPackets,
  outBuf,                    \* samples read for the device
  toWrite,                   \* frames the device is asked to take
  last,                      \* the last frame the device was given, 0 if none
  dropouts,                  \* "none", or "some" once a dropout was counted
  refused                    \* history: "yes" once GetBuffer has failed

driftVars == <<driftFillSum, driftPackets>>
outVars   == <<outBuf, toWrite>>
vars == <<pc, made, ring, padding, available, driftVars, outVars, last, dropouts, refused>>

\* Seeded fault: the target is two periods, so that the underfill branch can run.
DriftTarget_TwoPeriods == 2 * CaptureBuf

DriftTarget == IF CaptureBuf > 1 THEN CaptureBuf ELSE 1
Threshold   == CaptureBuf

Least(a, b) == IF a <= b THEN a ELSE b

\* The render buffer starts with a period of silence, with all it holds if the device
\* does not tell its period, or empty if GetBuffer() fails.
Init ==
  /\ pc = "packet" /\ made = 0 /\ ring = <<>>
  /\ padding \in 0 .. RenderBuf /\ available = 0
  /\ driftFillSum = 0 /\ driftPackets = 0
  /\ outBuf = <<>> /\ toWrite = 0 /\ last = 0
  /\ dropouts = "none" /\ refused = "no"

\* n frames, numbered on from those made before, channel by channel.
Processed(n) ==
  [k \in 1 .. n * Channels |-> <<made + 1 + ((k - 1) \div Channels), 1 + ((k - 1) % Channels)>>]

\* Seeded fault: a truncated push is not noticed.
Push_Uncounted(n) ==
  LET fitting == Least(n * Channels, RingSize - Len(ring))
  IN  /\ pc = "packet" /\ made + n <= MaxFrames
      /\ made' = made + n
      /\ ring' = ring \o SubSeq(Processed(n), 1, fitting)
      /\ dropouts' \in {dropouts, "some"}
      /\ pc' = "fill"
      /\ UNCHANGED <<padding, available, driftVars, outVars, last, refused>>

\* A packet arrives, passes the DSP and is written as far as the ring has space.
\* The capture device may report a discontinuity, which counts as a dropout too.
Push(n) ==
  LET fitting == Least(n * Channels, RingSize - Len(ring))
  IN  /\ pc = "packet" /\ made + n <= MaxFrames
      /\ made' = made + n
      /\ ring' = ring \o SubSeq(Processed(n), 1, fitting)
      /\ dropouts' \in (IF fitting < n * Channels THEN {"some"} ELSE {dropouts, "some"})
      /\ pc' = "fill"
      /\ UNCHANGED <<padding, available, driftVars, outVars, last, refused>>

\* GetCurrentPadding(); every Window packets the average is looked at.
ReadPadding ==
  /\ pc = "fill"
  /\ available' = RenderBuf - padding
  /\ driftFillSum' = driftFillSum + padding
  /\ driftPackets' = driftPackets + 1
  /\ pc' = IF driftPackets' >= Window THEN "correct" ELSE "drain"
  /\ UNCHANGED <<made, ring, padding, outVars, last, dropouts, refused>>

AvgFill == driftFillSum \div driftPackets

\* The discard passes a null destination to lv2_ringbuffer_read(), which copies
\* all the same: with anything in the ring the process ends there.  The silence
\* goes to the device directly; `available' is not read again.
CorrectDrift ==
  /\ pc = "correct"
  /\ driftFillSum' = 0 /\ driftPackets' = 0
  /\ IF AvgFill > DriftTarget + Threshold
     THEN /\ pc' = IF ring # <<>> THEN "crashed" ELSE "drain"
          /\ UNCHANGED padding
     ELSE /\ pc' = "drain"
          /\ padding' = IF DriftTarget > Threshold /\ AvgFill + Threshold < DriftTarget
                        THEN padding + Least(CaptureBuf, RenderBuf - padding)
                        ELSE padding
  /\ UNCHANGED <<made, ring, available, outVars, last, dropouts, refused>>

\* Seeded fault: samples are taken for frames.
RingFrames_Samples == Len(ring)

RingFrames == Len(ring) \div Channels

\* Frames go through outBuf; without any the packet is done.
ReadRing ==
  LET frames == Least(RingFrames, available)
      taken  == Least(frames * Channels, Len(ring))
  IN  /\ pc = "drain"
      /\ toWrite' = frames
      /\ outBuf' = SubSeq(ring, 1, taken)
      /\ ring' = SubSeq(ring, taken + 1, Len(ring))
      /\ pc' = IF frames > 0 THEN "render" ELSE "packet"
      /\ UNCHANGED <<made, padding, available, driftVars, last, dropouts, refused>>

\* GetBuffer() and ReleaseBuffer(): the device has the frames.
Render ==
  /\ pc = "render"
  /\ padding' = padding + toWrite
  /\ last' = outBuf[Len(outBuf)][1]
  /\ outBuf' = <<>> /\ toWrite' = 0
  /\ pc' = "packet"
  /\ UNCHANGED <<made, ring, available, driftVars, dropouts, refused>>

\* GetBuffer() fails: the frames have left the ring already.
RenderFails ==
  /\ pc = "render"
  /\ outBuf' = <<>> /\ toWrite' = 0 /\ refused' = "yes"
  /\ pc' = "packet"
  /\ UNCHANGED <<made, ring, padding, available, driftVars, last, dropouts>>

\* AUDCLNT_E_DEVICE_INVALIDATED: runLoop() returns false.
RenderLost ==
  /\ pc = "render"
  /\ pc' = "lost"
  /\ UNCHANGED <<made, ring, padding, available, driftVars, outVars, last, dropouts, refused>>

\* The render device plays some of what it has.
DevicePlays ==
  /\ \E n \in 1 .. padding : padding' = padding - n
  /\ UNCHANGED <<pc, made, ring, available, driftVars, outVars, last, dropouts, refused>>

Next ==
  \/ \E n \in 0 .. DspMax : Push(n)
  \/ ReadPadding \/ CorrectDrift \/ ReadRing
  \/ Render \/ RenderFails \/ RenderLost
  \/ DevicePlays

\* The bound on frames, a lost device and a crash end a behaviour.
Spec == Init /\ [][Next]_vars

-----------------------------------------------------------------------------
(* Properties.                                                             *)

\* The types of the variables.
Samples == (1 .. MaxFrames) \X (1 .. Channels)
TypeOK ==
  /\ pc \in {"packet", "fill", "correct", "drain", "render", "lost", "crashed"}
  /\ made \in 0 .. MaxFrames /\ last \in 0 .. MaxFrames
  /\ ring \in Seq(Samples) /\ Len(ring) <= RingSize
  /\ padding \in 0 .. RenderBuf /\ available \in 0 .. RenderBuf
  /\ driftPackets \in 0 .. Window /\ driftFillSum \in 0 .. Window * RenderBuf
  /\ outBuf \in Seq(Samples) /\ toWrite \in 0 .. RenderBuf
  /\ dropouts \in {"none", "some"} /\ refused \in {"no", "yes"}

\* The room read before the drift correction still exists when the device is asked
\* for a buffer, whatever it has played meanwhile: GetBuffer() is never asked for
\* more than the render buffer can hold, which it would answer with
\* AUDCLNT_E_BUFFER_TOO_LARGE, and the frames would be gone.
RoomForWrite == pc = "render" => padding + toWrite <= RenderBuf

\* What the device gets are whole frames, also after a push that did not fit: every
\* channel in its place, each frame newer than the one before, none twice.  This needs
\* a channel count that divides the size of the ring: with six channels a full ring
\* would shift every channel after it.
WholeFrames ==
  RingSize % Channels = 0 /\ pc = "render" =>
    /\ Len(outBuf) = toWrite * Channels
    /\ \A k \in DOMAIN outBuf :
         /\ outBuf[k][2] = 1 + ((k - 1) % Channels)
         /\ outBuf[k][2] > 1 => outBuf[k][1] = outBuf[k - 1][1]
         /\ outBuf[k][2] = 1 => outBuf[k][1] > (IF k = 1 THEN last ELSE outBuf[k - 1][1])

\* A frame is lost without a dropout being counted only where GetBuffer() failed:
\* while the user reads no dropouts and it has not, the device gets every frame.
Gapless ==
  pc = "render" /\ dropouts = "none" /\ refused = "no" =>
    \A k \in DOMAIN outBuf : outBuf[k][1] = last + 1 + ((k - 1) \div Channels)

\* What a discard should do, AudioEngine.cpp:846, 853: "Discard one packet's worth of
\* frames from the ring" and "Advance the read pointer without copying".
Shed == CaptureBuf * Channels
DiscardSheds ==
  [][CorrectDrift /\ AvgFill > DriftTarget + Threshold =>
       pc' = "drain" /\ ring' = SubSeq(ring, Shed + 1, Len(ring))]_vars

\* Where it cannot happen: the discard compares the fill of the render buffer with
\* periods of the capture device, so that a render buffer of no more than two of them
\* is never full enough.
DiscardNeedsDeepBuffer == RenderBuf <= 2 * CaptureBuf => pc # "crashed"
=============================================================================
