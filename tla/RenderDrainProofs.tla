-------------------------- MODULE RenderDrainProofs --------------------------
(***************************************************************************)
(* The drain of RenderDrain for every pair of device buffers, channel      *)
(* count, window and number of frames.  Three arguments that do not need   *)
(* one another: the room read in a packet does not shrink before it is     *)
(* used (RoomInv); the average fill is at most the render buffer           *)
(* (DriftInv); and the samples of a ring that holds whole frames stay in   *)
(* the order of their frames (OrderInv, GapInv).                           *)
(***************************************************************************)
EXTENDS RenderDrain, SequenceTheorems, TLAPS

-----------------------------------------------------------------------------
(* Quotients and remainders.                                               *)

\* Quotient and remainder.
LEMMA Division ==
  ASSUME NEW C \in Nat \ {0}, NEW m \in Int
  PROVE  m = C * (m \div C) + (m % C) /\ m % C \in 0 .. C - 1 /\ m \div C \in Int
BY SMT

\* A product is zero or at least as far from it as its first factor.
LEMMA ProductSign ==
  ASSUME NEW C \in Nat \ {0}, NEW x \in Int
  PROVE  /\ x >= 0 => C * x >= 0
         /\ x > 0 => C * x >= C
         /\ x < 0 => C * x <= -C
BY SMT

\* Quotient and remainder are unique.
LEMMA Unique ==
  ASSUME NEW C \in Nat \ {0}, NEW q \in Int, NEW r \in 0 .. C - 1
  PROVE  (C * q + r) \div C = q /\ (C * q + r) % C = r
<1> DEFINE d == (C * q + r) \div C
           s == (C * q + r) % C
<1>1. C * q + r = C * d + s /\ s \in 0 .. C - 1 /\ d \in Int
  <2>1. C * q + r \in Int
    BY SMT
  <2> QED  BY <2>1, Division
<1> HIDE DEF d, s
<1>2. C * (q - d) = C * q - C * d /\ q - d \in Int /\ C * q \in Int /\ C * d \in Int
  BY <1>1, SMT
<1>3. q - d = 0
  BY <1>1, <1>2, ProductSign, SMT
<1> QED  BY <1>1, <1>2, <1>3, SMT DEF d, s

\* Moving by q periods adds q to the quotient and leaves the remainder.
LEMMA Shift ==
  ASSUME NEW C \in Nat \ {0}, NEW q \in Int, NEW i \in Int
  PROVE  (C * q + i) \div C = q + (i \div C) /\ (C * q + i) % C = i % C
<1> DEFINE d == i \div C
           r == i % C
<1>1. i = C * d + r /\ r \in 0 .. C - 1 /\ d \in Int
  BY Division
<1> HIDE DEF d, r
<1>2. C * q + i = C * (q + d) + r /\ q + d \in Int
  BY <1>1, SMT
<1>3. (C * (q + d) + r) \div C = q + d /\ (C * (q + d) + r) % C = r
  BY <1>1, <1>2, Unique
<1> QED  BY <1>2, <1>3 DEF d, r

\* Between two multiples of C the quotient is known.
LEMMA QuotientBounds ==
  ASSUME NEW C \in Nat \ {0}, NEW q \in Int, NEW i \in Int
  PROVE  (C * q <= i <=> q <= i \div C) /\ (i < C * q <=> i \div C < q)
<1> DEFINE d == i \div C
           r == i % C
<1>1. i = C * d + r /\ r \in 0 .. C - 1 /\ d \in Int
  BY Division
<1> HIDE DEF d, r
<1>2. C * (d - q) = C * d - C * q /\ d - q \in Int /\ C * d \in Int /\ C * q \in Int
  BY <1>1, SMT
<1>3. (d - q >= 0 => C * (d - q) >= 0) /\ (d - q < 0 => C * (d - q) <= -C)
  BY <1>2, ProductSign
<1> QED  BY <1>1, <1>2, <1>3, SMT DEF d

\* One step back stays in the period unless it began there.
LEMMA StepBack ==
  ASSUME NEW C \in Nat \ {0}, NEW i \in Int
  PROVE  /\ i % C > 0 => (i - 1) \div C = i \div C
         /\ i % C = 0 => (i - 1) \div C < i \div C
<1> DEFINE d == i \div C
           r == i % C
<1>1. i = C * d + r /\ r \in 0 .. C - 1 /\ d \in Int
  BY Division
<1> HIDE DEF d, r
<1>2. ASSUME r > 0 PROVE (i - 1) \div C = d
  <2>1. r - 1 \in 0 .. C - 1 /\ i - 1 = C * d + (r - 1)
    BY <1>1, <1>2, SMT
  <2> QED  BY <1>1, <2>1, Unique
<1>3. ASSUME r = 0 PROVE (i - 1) \div C < d
  <2>1. i - 1 < C * d /\ i - 1 \in Int
    BY <1>1, <1>3, SMT
  <2> QED  BY <1>1, <2>1, QuotientBounds
<1> QED  BY <1>2, <1>3 DEF d, r

-----------------------------------------------------------------------------

USE CaptureAssumption, RenderAssumption, ChannelsAssumption, WindowAssumption,
    FramesAssumption, DspAssumption

\* The size of the ring is a number of samples.
LEMMA RingSizeNat == RingSize \in Nat
  BY RingAssumption

-----------------------------------------------------------------------------
(* The operators.                                                          *)

\* The smaller of two numbers is one of them and exceeds neither.
LEMMA LeastBounds ==
  ASSUME NEW a \in Nat, NEW b \in Nat
  PROVE  Least(a, b) \in Nat /\ Least(a, b) <= a /\ Least(a, b) <= b
                             /\ (Least(a, b) = a \/ Least(a, b) = b)
  BY SMT DEF Least

\* Less of the same still fits.
LEMMA LessRoom ==
  ASSUME NEW a \in Int, NEW b \in Int, NEW c \in Int, NEW d \in Int, a + b <= c, d <= a
  PROVE  d + b <= c
  BY SMT

\* A number of frames is a number of samples.
LEMMA SamplesNat == ASSUME NEW n \in Nat PROVE n * Channels \in Nat /\ n * Channels = Channels * n
  BY SMT

\* Samples of one frame have one quotient; the frames of n * Channels samples are n.
LEMMA FrameOf ==
  ASSUME NEW n \in Nat, NEW i \in 1 .. n * Channels
  PROVE  /\ (i - 1) \div Channels \in 0 .. n - 1
         /\ (i - 1) % Channels \in 0 .. Channels - 1
<1>1. i - 1 \in Int /\ 0 <= i - 1 /\ i - 1 < Channels * n /\ Channels * 0 <= i - 1
  BY SamplesNat, SMT
<1>2. (i - 1) \div Channels \in Int /\ (i - 1) % Channels \in 0 .. Channels - 1
  BY <1>1, Division
<1>3. 0 <= (i - 1) \div Channels
  BY <1>1, QuotientBounds
<1>4. (i - 1) \div Channels < n
  BY <1>1, QuotientBounds
<1> QED
  BY <1>2, <1>3, <1>4

\* The frames in the ring are at most what it holds.
LEMMA RingFramesBounds ==
  ASSUME Len(ring) \in Nat
  PROVE  RingFrames \in Nat /\ RingFrames * Channels <= Len(ring)
<1>1. /\ Len(ring) = Channels * (Len(ring) \div Channels) + (Len(ring) % Channels)
      /\ Len(ring) % Channels \in 0 .. Channels - 1 /\ Len(ring) \div Channels \in Int
  BY Division
<1>2. Channels * 0 <= Len(ring)
  BY SMT
<1>3. 0 <= Len(ring) \div Channels
  BY <1>2, QuotientBounds
<1>4. RingFrames * Channels = Channels * RingFrames /\ Channels * RingFrames \in Int
  BY <1>1, SMT DEF RingFrames
<1> QED
  BY <1>1, <1>3, <1>4, SMT DEF RingFrames

\* Processed frames are samples, numbered on from those made.
LEMMA ProcessedSamples ==
  ASSUME made \in Nat, NEW n \in Nat, made + n <= MaxFrames
  PROVE  /\ Processed(n) \in Seq(Samples)
         /\ Len(Processed(n)) = n * Channels
         /\ \A i \in 1 .. n * Channels :
              Processed(n)[i] = <<made + 1 + ((i - 1) \div Channels), 1 + ((i - 1) % Channels)>>
<1>1. \A i \in 1 .. n * Channels :
        <<made + 1 + ((i - 1) \div Channels), 1 + ((i - 1) % Channels)>> \in Samples
  <2> TAKE i \in 1 .. n * Channels
  <2>1. made + 1 + ((i - 1) \div Channels) \in 1 .. MaxFrames
    BY FrameOf, SMT
  <2>2. 1 + ((i - 1) % Channels) \in 1 .. Channels
    BY FrameOf, SMT
  <2> QED
    BY <2>1, <2>2 DEF Samples
<1>2. n * Channels \in Nat
  BY SamplesNat
<1> QED
  BY <1>1, <1>2, SMT DEF Processed

\* Both parts of a sequence that is cut.
LEMMA Cut ==
  ASSUME NEW S, NEW s \in Seq(S), NEW m \in 0 .. Len(s)
  PROVE  /\ SubSeq(s, 1, m) \in Seq(S) /\ Len(SubSeq(s, 1, m)) = m
         /\ \A i \in 1 .. m : SubSeq(s, 1, m)[i] = s[i]
         /\ SubSeq(s, m + 1, Len(s)) \in Seq(S) /\ Len(SubSeq(s, m + 1, Len(s))) = Len(s) - m
         /\ \A i \in 1 .. Len(s) - m : SubSeq(s, m + 1, Len(s))[i] = s[m + i]
<1>1. Len(s) \in Nat /\ \A i \in 1 .. Len(s) : s[i] \in S
  BY SMT
<1>2. /\ SubSeq(s, 1, m) \in Seq(S) /\ Len(SubSeq(s, 1, m)) = IF 1 <= m THEN m - 1 + 1 ELSE 0
      /\ \A i \in 1 .. m - 1 + 1 : SubSeq(s, 1, m)[i] = s[1 + i - 1]
  <2>1. \A i \in 1 .. m : s[i] \in S
    BY <1>1
  <2> QED
    BY <2>1, SubSeqProperties
<1>3. /\ SubSeq(s, m + 1, Len(s)) \in Seq(S)
      /\ Len(SubSeq(s, m + 1, Len(s))) = IF m + 1 <= Len(s) THEN Len(s) - (m + 1) + 1 ELSE 0
      /\ \A i \in 1 .. Len(s) - (m + 1) + 1 : SubSeq(s, m + 1, Len(s))[i] = s[m + 1 + i - 1]
  <2>1. \A i \in m + 1 .. Len(s) : s[i] \in S
    BY <1>1
  <2>2. m + 1 \in Int /\ Len(s) \in Int
    BY <1>1
  <2> QED
    BY <2>1, <2>2, SubSeqProperties
<1> QED
  BY <1>1, <1>2, <1>3, SMT

-----------------------------------------------------------------------------
(* The inductive invariant: numbers.                                       *)

\* The room read before still exists, and what leaves the ring fits it.
RoomInv ==
  /\ pc \in {"correct", "drain", "render"} => padding + available <= RenderBuf
  /\ pc = "render" => toWrite <= available

\* The sum is one of at most Window readings, each at most the render buffer.
DriftInv ==
  /\ pc = "correct" => driftPackets > 0
  /\ pc # "correct" => driftPackets < Window
  /\ driftFillSum <= driftPackets * RenderBuf

\* Frames are in outBuf only on their way to the device.
OutInv ==
  /\ pc \notin {"render", "lost"} => outBuf = <<>> /\ toWrite = 0
  /\ pc \in {"render", "lost"} => toWrite > 0 /\ Len(outBuf) = toWrite * Channels

NumberInv == TypeOK /\ RoomInv /\ DriftInv /\ OutInv /\ DiscardNeedsDeepBuffer

\* A session starts with an empty ring and an empty render buffer.
LEMMA InitNumber == Init => NumberInv
<1> SUFFICES ASSUME Init PROVE NumberInv
  OBVIOUS
<1>1. <<>> \in Seq(Samples) /\ Len(<<>>) = 0
  BY SMT
<1>2. Window * RenderBuf \in Nat /\ 0 * RenderBuf = 0
  BY SMT
<1>3. TypeOK
  BY <1>1, <1>2, RingSizeNat, SMT DEF Init, TypeOK
<1> QED
  BY <1>2, <1>3, SMT DEF Init, NumberInv, RoomInv, DriftInv, OutInv, DiscardNeedsDeepBuffer

\* Readings of at most the render buffer have an average of at most that.
LEMMA Readings ==
  ASSUME NEW a \in Nat, NEW b \in Nat, a <= b
  PROVE  /\ a * RenderBuf \in Nat /\ a * RenderBuf <= b * RenderBuf
         /\ (a + 1) * RenderBuf = a * RenderBuf + RenderBuf
<1>1. /\ a * RenderBuf \in Nat /\ b * RenderBuf \in Nat
      /\ (a + 1) * RenderBuf = a * RenderBuf + RenderBuf
      /\ RenderBuf * (b - a) = b * RenderBuf - a * RenderBuf /\ b - a \in Int /\ b - a >= 0
  BY SMT
<1>2. RenderBuf * (b - a) >= 0
  BY <1>1, ProductSign
<1> QED
  BY <1>1, <1>2

\* The average of fill levels is a fill level.
LEMMA Average ==
  ASSUME NEW sum \in Nat, NEW n \in Nat \ {0}, sum <= n * RenderBuf
  PROVE  sum \div n \in 0 .. RenderBuf
<1>1. n * (RenderBuf + 1) = n * RenderBuf + n /\ n * 0 = 0
  BY SMT
<1>2. sum < n * (RenderBuf + 1) /\ n * 0 <= sum /\ RenderBuf + 1 \in Int
  BY <1>1, SMT
<1>3. sum \div n < RenderBuf + 1 /\ 0 <= sum \div n
  BY <1>2, QuotientBounds
<1>4. sum \div n \in Int
  BY Division
<1> QED
  BY <1>3, <1>4

\* Every step keeps the numbers.
LEMMA NextNumber == NumberInv /\ [Next]_vars => NumberInv'
<1> SUFFICES ASSUME NumberInv, [Next]_vars PROVE NumberInv'
  OBVIOUS
<1> USE DEF NumberInv, RoomInv, DriftInv, OutInv, DiscardNeedsDeepBuffer
<1>0. /\ TypeOK /\ RingSize \in Nat /\ Len(ring) \in Nat
      /\ RenderBuf \in Nat /\ RenderBuf > 0 /\ CaptureBuf \in Nat /\ CaptureBuf > 0
      /\ Window \in Nat /\ Window > 0 /\ Window * RenderBuf \in Nat /\ MaxFrames \in Nat
  BY RingSizeNat, SMT DEF TypeOK
<1>1. ASSUME NEW n \in 0 .. DspMax, Push(n) PROVE NumberInv'
  <2> DEFINE fitting == Least(n * Channels, RingSize - Len(ring))
             new     == SubSeq(Processed(n), 1, fitting)
  <2>1. n \in Nat /\ made \in Nat /\ made + n <= MaxFrames /\ made' = made + n
    BY <1>0, <1>1, SMT DEF Push, TypeOK
  <2>2. n * Channels \in Nat /\ RingSize - Len(ring) \in Nat
    BY <1>0, <2>1, SamplesNat, SMT DEF TypeOK
  <2>3. fitting \in 0 .. n * Channels /\ fitting <= RingSize - Len(ring)
    <3>1. /\ fitting \in Nat /\ fitting <= n * Channels /\ fitting <= RingSize - Len(ring)
      BY <2>2, LeastBounds, Zenon
    <3> HIDE DEF fitting
    <3> QED
      BY <2>2, <3>1
  <2>4. new \in Seq(Samples) /\ Len(new) = fitting
    <3>1. Processed(n) \in Seq(Samples) /\ Len(Processed(n)) = n * Channels
      BY <2>1, ProcessedSamples
    <3> QED
      BY <2>3, <3>1, Cut
  <2>5. ring' = ring \o new
    BY <1>1 DEF Push
  <2> HIDE DEF fitting, new
  <2>6. ring' \in Seq(Samples) /\ Len(ring') <= RingSize
    BY <1>0, <2>2, <2>3, <2>4, <2>5, ConcatProperties, SMT DEF TypeOK
  <2>7. TypeOK'
    BY <1>0, <1>1, <2>1, <2>6, SMT DEF Push, TypeOK, driftVars, outVars
  <2> QED
    BY <1>1, <2>7, SMT DEF Push, driftVars, outVars
<1>2. CASE ReadPadding
  <2>1. /\ driftPackets \in Nat /\ driftFillSum \in Nat /\ padding \in 0 .. RenderBuf
        /\ driftPackets < Window /\ driftFillSum <= driftPackets * RenderBuf
    BY <1>0, <1>2, SMT DEF TypeOK, ReadPadding
  <2>2. /\ driftFillSum + padding <= (driftPackets + 1) * RenderBuf
        /\ (driftPackets + 1) * RenderBuf <= Window * RenderBuf
    <3>1. /\ driftPackets * RenderBuf \in Nat
          /\ (driftPackets + 1) * RenderBuf = driftPackets * RenderBuf + RenderBuf
      BY <2>1, Readings
    <3>2. (driftPackets + 1) * RenderBuf <= Window * RenderBuf
      BY <1>0, <2>1, Readings
    <3> QED
      BY <2>1, <3>1, <3>2
  <2>3. /\ driftFillSum' = driftFillSum + padding /\ driftPackets' = driftPackets + 1
        /\ available' = RenderBuf - padding /\ pc = "fill"
        /\ pc' = IF driftPackets' >= Window THEN "correct" ELSE "drain"
        /\ UNCHANGED <<made, ring, padding, outBuf, toWrite, last, dropouts, refused>>
    BY <1>2 DEF ReadPadding, outVars
  <2>4. (driftPackets + 1) * RenderBuf \in Nat
    BY <2>1, SMT
  <2>5. TypeOK'
    BY <1>0, <2>1, <2>2, <2>3, <2>4, SMT DEF TypeOK
  <2>6. DriftInv'
    BY <1>0, <2>1, <2>2, <2>3, SMT
  <2> QED
    BY <2>1, <2>3, <2>5, <2>6, SMT
<1>3. CASE CorrectDrift
  <2>1. AvgFill \in 0 .. RenderBuf
    BY <1>0, <1>3, Average, SMT DEF AvgFill, TypeOK, CorrectDrift
  <2>2. DriftTarget = CaptureBuf /\ Threshold = CaptureBuf
    BY <1>0, SMT DEF DriftTarget, Threshold
  <2>3. /\ driftFillSum' = 0 /\ driftPackets' = 0 /\ padding' = padding /\ pc = "correct"
        /\ \/ AvgFill > CaptureBuf + CaptureBuf /\ pc' \in {"crashed", "drain"}
           \/ pc' = "drain"
        /\ UNCHANGED <<made, ring, available, outBuf, toWrite, last, dropouts, refused>>
    BY <1>0, <1>3, <2>2, SMT DEF CorrectDrift, outVars
  <2>4. 0 * RenderBuf = 0
    BY SMT
  <2>5. TypeOK'
    BY <1>0, <2>3, SMT DEF TypeOK
  <2> QED
    BY <1>0, <2>1, <2>3, <2>4, <2>5, SMT
<1>4. CASE ReadRing
  <2> DEFINE frames == Least(RingFrames, available)
             taken  == Least(frames * Channels, Len(ring))
  <2>1. /\ ring \in Seq(Samples) /\ available \in 0 .. RenderBuf /\ pc = "drain"
        /\ Len(ring) <= RingSize
    BY <1>0, <1>4 DEF TypeOK, ReadRing
  <2>2. RingFrames \in Nat /\ RingFrames * Channels <= Len(ring)
    BY <1>0, RingFramesBounds
  <2>3. frames \in Nat /\ frames <= available /\ frames <= RingFrames
    <3>1. available \in Nat
      BY <2>1
    <3> QED
      BY <2>2, <3>1, LeastBounds, Zenon
  <2> HIDE DEF frames
  <2>4. frames * Channels \in Nat /\ frames * Channels <= Len(ring)
    <3>1. Channels * (RingFrames - frames) = RingFrames * Channels - frames * Channels
      BY <2>2, <2>3, SMT
    <3>2. Channels * (RingFrames - frames) >= 0
      BY <2>2, <2>3, ProductSign, SMT
    <3> QED
      BY <1>0, <2>2, <2>3, <3>1, <3>2, SamplesNat, SMT
  <2>5. taken = frames * Channels
    BY <1>0, <2>4, SMT DEF Least
  <2> HIDE DEF taken
  <2>6. /\ outBuf' = SubSeq(ring, 1, taken) /\ ring' = SubSeq(ring, taken + 1, Len(ring))
        /\ toWrite' = frames /\ pc' = IF frames > 0 THEN "render" ELSE "packet"
        /\ UNCHANGED <<made, padding, available, driftFillSum, driftPackets, last, dropouts,
             refused>>
    BY <1>4 DEF ReadRing, driftVars, frames, taken
  <2>7. taken \in 0 .. Len(ring)
    BY <1>0, <2>4, <2>5
  <2>8. /\ outBuf' \in Seq(Samples) /\ Len(outBuf') = taken
        /\ ring' \in Seq(Samples) /\ Len(ring') = Len(ring) - taken
    BY <2>1, <2>6, <2>7, Cut
  <2>9. frames = 0 => outBuf' = <<>>
    <3>1. 0 * Channels = 0
      BY SMT
    <3> QED
      BY <2>8, <2>5, <3>1, EmptySeq
  <2>10. TypeOK'
    BY <1>0, <2>1, <2>3, <2>6, <2>7, <2>8, SMT DEF TypeOK
  <2> QED
    BY <2>1, <2>3, <2>5, <2>6, <2>8, <2>9, <2>10, SMT
<1>5. CASE Render
  <2>1. /\ padding' = padding + toWrite /\ outBuf' = <<>> /\ toWrite' = 0
        /\ pc = "render" /\ pc' = "packet" /\ last' = outBuf[Len(outBuf)][1]
        /\ UNCHANGED <<made, ring, available, driftFillSum, driftPackets, dropouts, refused>>
    BY <1>5 DEF Render, driftVars
  <2>2. last' \in 0 .. MaxFrames
    <3>1. Len(outBuf) \in 1 .. Len(outBuf) /\ outBuf \in Seq(Samples)
      BY <1>0, <2>1, SamplesNat, SMT DEF TypeOK
    <3>2. outBuf[Len(outBuf)] \in Samples
      BY <3>1, SMT
    <3> QED
      BY <1>0, <2>1, <3>2, SMT DEF Samples
  <2>3. <<>> \in Seq(Samples)
    BY SMT
  <2>4. TypeOK'
    BY <1>0, <2>1, <2>2, <2>3, SMT DEF TypeOK
  <2> QED
    BY <2>1, <2>4, SMT
<1>6. CASE RenderFails
  <2>1. <<>> \in Seq(Samples)
    BY SMT
  <2>2. TypeOK'
    BY <1>0, <1>6, <2>1, SMT DEF TypeOK, RenderFails, driftVars
  <2> QED
    BY <1>6, <2>2, SMT DEF RenderFails, driftVars
<1>7. CASE RenderLost
  <2>1. TypeOK'
    BY <1>0, <1>7, SMT DEF TypeOK, RenderLost, driftVars, outVars
  <2> QED
    BY <1>7, <2>1, SMT DEF RenderLost, driftVars, outVars
<1>8. CASE DevicePlays
  <2>1. /\ padding' \in Nat /\ padding' <= padding
        /\ UNCHANGED <<pc, made, ring, available, driftFillSum, driftPackets, outBuf, toWrite,
                       last, dropouts, refused>>
    BY <1>0, <1>8, SMT DEF TypeOK, DevicePlays, driftVars, outVars
  <2>2. TypeOK'
    BY <1>0, <2>1, SMT DEF TypeOK
  <2>3. RoomInv'
    <3>1. padding \in Int /\ available \in Int /\ RenderBuf \in Int /\ padding' \in Int
      BY <1>0, <2>1 DEF TypeOK
    <3>2. ASSUME pc \in {"correct", "drain", "render"} PROVE padding' + available <= RenderBuf
      <4>1. padding + available <= RenderBuf
        BY <3>2
      <4> QED
        BY <2>1, <3>1, <4>1, LessRoom, Zenon
    <3> QED
      BY <2>1, <3>2, Zenon
  <2>4. DriftInv' /\ OutInv' /\ DiscardNeedsDeepBuffer'
    BY <2>1
  <2> QED
    BY <2>2, <2>3, <2>4
<1>9. CASE UNCHANGED vars
  <2>1. TypeOK'
    BY <1>0, <1>9, SMT DEF TypeOK, vars, driftVars, outVars
  <2> QED
    BY <1>9, <2>1, SMT DEF vars, driftVars, outVars
<1> QED
  BY <1>1, <1>2, <1>3, <1>4, <1>5, <1>6, <1>7, <1>8, <1>9 DEF Next

-----------------------------------------------------------------------------
(* Sequences of whole frames.                                              *)

\* The frame and the channel of the k-th sample, counted from 0.
Q(k) == (k - 1) \div Channels
R(k) == (k - 1) % Channels

\* Both are defined for every sample.
LEMMA QNat ==
  ASSUME NEW k \in Nat \ {0}
  PROVE  Q(k) \in Nat /\ R(k) \in 0 .. Channels - 1
<1>1. k - 1 \in Int /\ Channels * 0 <= k - 1
  BY SMT
<1>2. (k - 1) \div Channels \in Int /\ (k - 1) % Channels \in 0 .. Channels - 1
  BY <1>1, Division
<1>3. 0 <= (k - 1) \div Channels
  BY <1>1, QuotientBounds
<1> QED
  BY <1>2, <1>3 DEF Q, R

\* The first Channels * q samples are those of the first q frames.
LEMMA QBound ==
  ASSUME NEW k \in Nat \ {0}, NEW q \in Int
  PROVE  k <= Channels * q <=> Q(k) < q
<1>1. k - 1 \in Int /\ Channels * q \in Int
  BY SMT
<1>2. k - 1 < Channels * q <=> (k - 1) \div Channels < q
  BY <1>1, QuotientBounds
<1> QED
  BY <1>1, <1>2, SMT DEF Q

\* Whole frames in front shift the frame and leave the channel.
LEMMA QShift ==
  ASSUME NEW k \in Int, NEW q \in Int, NEW i \in Int, k = Channels * q + i
  PROVE  Q(k) = q + Q(i) /\ R(k) = R(i)
<1>1. k - 1 = Channels * q + (i - 1) /\ i - 1 \in Int
  BY SMT
<1> QED
  BY <1>1, Shift DEF Q, R

\* Samples are in the order of their channels, and of their frames.
Placed(s) ==
  \A k \in 1 .. Len(s) :
    /\ s[k][2] = 1 + R(k)
    /\ \A j \in 1 .. Len(s) :
         (Q(j) = Q(k) => s[j][1] = s[k][1]) /\ (Q(j) < Q(k) => s[j][1] < s[k][1])

\* Their frames are after lo, and hi at most; all of s comes before all of t; the
\* frames are numbered on from b without a gap.
Within(s, lo, hi) == \A k \in 1 .. Len(s) : lo < s[k][1] /\ s[k][1] <= hi
Before(s, t) == \A j \in 1 .. Len(s) : \A k \in 1 .. Len(t) : s[j][1] < t[k][1]
Run(s, b) == \A k \in 1 .. Len(s) : s[k][1] = b + 1 + Q(k)

\* No samples are in order, within any bounds and without a gap.
LEMMA EmptyFrames ==
  /\ Placed(<<>>)
  /\ \A lo, hi : Within(<<>>, lo, hi)
  /\ \A t : Before(<<>>, t)
  /\ \A b : Run(<<>>, b)
<1>1. 1 .. Len(<<>>) = {}
  BY SMT
<1> QED
  BY <1>1, Zenon DEF Placed, Within, Before, Run

\* The frame of a sample is a number.
LEMMA FrameNat ==
  ASSUME NEW s \in Seq(Samples), NEW k \in 1 .. Len(s)
  PROVE  s[k][1] \in Nat /\ s[k][1] <= MaxFrames
<1>1. s[k] \in (1 .. MaxFrames) \X (1 .. Channels)
  BY SMT DEF Samples
<1> QED
  BY <1>1, SMT

\* What a new frame and an old one have between them.
LEMMA Later ==
  ASSUME NEW x \in Nat, NEW m \in Nat, NEW c \in Nat, NEW d \in Nat, NEW q \in Nat,
         x <= m, c < q, d >= q
  PROVE  x < m + 1 + (d - q) /\ c # d
  BY SMT

\* What is pushed behind q whole frames keeps the order.
LEMMA PushFrames ==
  ASSUME NEW r \in Seq(Samples), NEW t \in Seq(Samples), NEW q \in Nat, NEW m \in Nat,
         NEW lo \in Nat, NEW hi \in Nat,
         Len(r) = Channels * q, Placed(r), Within(r, lo, m), lo <= m, m <= hi,
         \A i \in 1 .. Len(t) : t[i] = <<m + 1 + Q(i), 1 + R(i)>> /\ m + 1 + Q(i) <= hi
  PROVE  /\ Placed(r \o t) /\ Within(r \o t, lo, hi)
         /\ \A b \in Int : Run(r, b) /\ m = b + q => Run(r \o t, b)
<1> DEFINE s == r \o t
<1>1. /\ s \in Seq(Samples) /\ Len(s) = Len(r) + Len(t) /\ Len(r) \in Nat /\ Len(t) \in Nat
      /\ \A k \in 1 .. Len(r) + Len(t) : s[k] = IF k <= Len(r) THEN r[k] ELSE t[k - Len(r)]
  BY ConcatProperties, LenProperties
<1> HIDE DEF s
\* The samples that were there.
<1>2. ASSUME NEW k \in 1 .. Len(r)
      PROVE  /\ s[k] = r[k] /\ Q(k) \in Nat /\ Q(k) < q
             /\ r[k][1] \in Nat /\ r[k][1] <= m /\ lo < r[k][1] /\ r[k][2] = 1 + R(k)
  <2>1. k \in Nat \ {0} /\ k <= Channels * q /\ k \in 1 .. Len(r) + Len(t) /\ k <= Len(r)
    BY <1>1
  <2>2. Q(k) \in Nat
    BY <2>1, QNat
  <2>3. Q(k) < q
    BY <2>1, QBound
  <2>4. r[k][1] <= m /\ lo < r[k][1] /\ r[k][1] \in Nat
    BY FrameNat DEF Within
  <2>5. r[k][2] = 1 + R(k)
    BY DEF Placed
  <2> QED
    BY <1>1, <2>1, <2>2, <2>3, <2>4, <2>5
\* The samples pushed.
<1>3. ASSUME NEW k \in 1 .. Len(s), k > Len(r)
      PROVE  /\ Q(k) \in Nat /\ Q(k) >= q
             /\ s[k][1] = m + 1 + (Q(k) - q) /\ s[k][1] <= hi
             /\ s[k][2] = 1 + R(k)
  <2> DEFINE i == k - Len(r)
  <2>1. i \in 1 .. Len(t) /\ i \in Nat \ {0} /\ k \in Int
    BY <1>1, <1>3
  <2>2. k = Channels * q + i
    BY <1>1, <2>1, SMT
  <2>3. s[k] = t[i]
    BY <1>1, <1>3
  <2> HIDE DEF i
  <2>4. Q(k) = q + Q(i) /\ R(k) = R(i)
    <3>1. i \in Int /\ k \in Int /\ q \in Int
      BY <2>1
    <3> QED
      BY <2>2, <3>1, QShift, Zenon
  <2>5. Q(i) \in Nat
    BY <2>1, QNat
  <2>6. t[i] = <<m + 1 + Q(i), 1 + R(i)>> /\ m + 1 + Q(i) <= hi
    BY <2>1
  <2>7. s[k][1] = m + 1 + Q(i) /\ s[k][2] = 1 + R(i)
    BY <2>3, <2>6
  <2> QED
    BY <2>4, <2>5, <2>6, <2>7
<1>4. Placed(s)
  <2>1. ASSUME NEW k \in 1 .. Len(s) PROVE s[k][2] = 1 + R(k)
    <3>1. CASE k <= Len(r)
      <4>1. k \in 1 .. Len(r)
        BY <1>1, <3>1
      <4> QED
        BY <1>2, <4>1
    <3>2. CASE k > Len(r)
      BY <1>3, <3>2
    <3> QED
      BY <1>1, <3>1, <3>2
  <2>2. ASSUME NEW k \in 1 .. Len(s), NEW j \in 1 .. Len(s)
        PROVE  (Q(j) = Q(k) => s[j][1] = s[k][1]) /\ (Q(j) < Q(k) => s[j][1] < s[k][1])
    <3>1. CASE j <= Len(r) /\ k <= Len(r)
      <4>1. j \in 1 .. Len(r) /\ k \in 1 .. Len(r)
        BY <1>1, <3>1
      <4>2. (Q(j) = Q(k) => r[j][1] = r[k][1]) /\ (Q(j) < Q(k) => r[j][1] < r[k][1])
        BY <4>1 DEF Placed
      <4>3. s[j] = r[j] /\ s[k] = r[k]
        BY <1>2, <4>1
      <4> QED
        BY <4>2, <4>3
    <3>2. CASE j <= Len(r) /\ k > Len(r)
      <4>1. j \in 1 .. Len(r)
        BY <1>1, <3>2
      <4>2. Q(j) \in Nat /\ Q(j) < q /\ s[j][1] \in Nat /\ s[j][1] <= m
        BY <1>2, <4>1
      <4>3. Q(k) \in Nat /\ Q(k) >= q /\ s[k][1] = m + 1 + (Q(k) - q)
        BY <1>3, <3>2
      <4>4. s[j][1] < m + 1 + (Q(k) - q) /\ Q(j) # Q(k)
        BY <4>2, <4>3, Later, Zenon
      <4> QED
        BY <4>3, <4>4, Zenon
    <3>3. CASE j > Len(r) /\ k <= Len(r)
      <4>1. k \in 1 .. Len(r)
        BY <1>1, <3>3
      <4>2. Q(k) \in Nat /\ Q(k) < q
        BY <1>2, <4>1
      <4>3. Q(j) \in Nat /\ Q(j) >= q
        BY <1>3, <3>3
      <4> QED
        BY <4>2, <4>3
    <3>4. CASE j > Len(r) /\ k > Len(r)
      <4>1. Q(k) \in Nat /\ Q(j) \in Nat
        BY <1>3, <3>4
      <4>2. s[k][1] = m + 1 + (Q(k) - q) /\ s[j][1] = m + 1 + (Q(j) - q)
        BY <1>3, <3>4
      <4> QED
        BY <4>1, <4>2
    <3> QED
      BY <1>1, <3>1, <3>2, <3>3, <3>4
  <2> QED
    BY <2>1, <2>2 DEF Placed
<1>5. Within(s, lo, hi)
  <2> SUFFICES ASSUME NEW k \in 1 .. Len(s) PROVE lo < s[k][1] /\ s[k][1] <= hi
    BY DEF Within
  <2>1. CASE k <= Len(r)
    <3>1. k \in 1 .. Len(r)
      BY <1>1, <2>1
    <3>2. s[k][1] \in Nat /\ s[k][1] <= m /\ lo < s[k][1]
      BY <1>2, <3>1
    <3> QED
      BY <3>2
  <2>2. CASE k > Len(r)
    <3>1. Q(k) \in Nat /\ Q(k) >= q /\ s[k][1] = m + 1 + (Q(k) - q) /\ s[k][1] <= hi
      BY <1>3, <2>2
    <3> QED
      BY <3>1
  <2> QED
    BY <1>1, <2>1, <2>2
<1>6. ASSUME NEW b \in Int, Run(r, b), m = b + q PROVE Run(s, b)
  <2> SUFFICES ASSUME NEW k \in 1 .. Len(s) PROVE s[k][1] = b + 1 + Q(k)
    BY DEF Run
  <2>1. CASE k <= Len(r)
    <3>1. k \in 1 .. Len(r)
      BY <1>1, <2>1
    <3> QED
      BY <1>2, <1>6, <3>1 DEF Run
  <2>2. CASE k > Len(r)
    <3>1. Q(k) \in Nat /\ s[k][1] = m + 1 + (Q(k) - q)
      BY <1>3, <2>2
    <3> QED
      BY <1>6, <3>1
  <2> QED
    BY <1>1, <2>1, <2>2
<1> QED
  BY <1>4, <1>5, <1>6 DEF s

\* Cut at a frame, both parts keep it.
LEMMA CutFrames ==
  ASSUME NEW s \in Seq(Samples), NEW q \in Nat, NEW f \in Nat, f <= q,
         Len(s) = Channels * q, NEW m \in 0 .. Len(s), m = Channels * f, Placed(s),
         NEW lo, NEW hi, Within(s, lo, hi)
  PROVE  LET a == SubSeq(s, 1, m)
             z == SubSeq(s, m + 1, Len(s))
         IN  /\ Placed(a) /\ Placed(z) /\ Before(a, z)
             /\ Within(a, lo, hi) /\ Within(z, lo, hi)
             /\ \A b \in Int : Run(s, b) => Run(a, b) /\ Run(z, b + f)
<1> DEFINE a == SubSeq(s, 1, m)
           z == SubSeq(s, m + 1, Len(s))
<1>1. /\ Len(a) = m /\ \A i \in 1 .. m : a[i] = s[i]
      /\ Len(z) = Len(s) - m /\ \A i \in 1 .. Len(s) - m : z[i] = s[m + i]
  BY Cut
<1>2. Len(s) \in Nat /\ m \in 0 .. Len(s)
  BY LenProperties
<1> HIDE DEF a, z
<1>3. ASSUME NEW i \in 1 .. Len(a)
      PROVE  i \in 1 .. Len(s) /\ a[i] = s[i] /\ Q(i) \in Nat /\ Q(i) < f
  <2>1. i \in Nat \ {0} /\ i <= Channels * f /\ i \in 1 .. Len(s) /\ a[i] = s[i]
    BY <1>1, <1>2
  <2> QED
    BY <2>1, QBound, QNat
<1>4. ASSUME NEW i \in 1 .. Len(z)
      PROVE  /\ m + i \in 1 .. Len(s) /\ z[i] = s[m + i] /\ Q(i) \in Nat
             /\ Q(m + i) = f + Q(i) /\ R(m + i) = R(i)
  <2>1. i \in Nat \ {0} /\ m + i \in 1 .. Len(s) /\ m + i \in Int /\ z[i] = s[m + i]
    BY <1>1, <1>2
  <2>2. m + i = Channels * f + i
    BY <2>1
  <2>3. Q(m + i) = f + Q(i) /\ R(m + i) = R(i)
    <3>1. i \in Int /\ m + i \in Int /\ f \in Int
      BY <2>1
    <3> QED
      BY <2>2, <3>1, QShift, Zenon
  <2> QED
    BY <2>1, <2>3, QNat
<1>5. Placed(a)
  BY <1>3, SMT DEF Placed
<1>6. ASSUME NEW j \in 1 .. Len(z), NEW k \in 1 .. Len(z)
      PROVE  /\ z[k][2] = 1 + R(k)
             /\ Q(j) = Q(k) => z[j][1] = z[k][1]
             /\ Q(j) < Q(k) => z[j][1] < z[k][1]
  <2>1. m + j \in 1 .. Len(s) /\ z[j] = s[m + j] /\ Q(j) \in Nat /\ Q(m + j) = f + Q(j)
    BY <1>4
  <2>2. /\ m + k \in 1 .. Len(s) /\ z[k] = s[m + k] /\ Q(k) \in Nat /\ Q(m + k) = f + Q(k)
        /\ R(m + k) = R(k)
    BY <1>4
  <2>3. /\ s[m + k][2] = 1 + R(m + k)
        /\ Q(m + j) = Q(m + k) => s[m + j][1] = s[m + k][1]
        /\ Q(m + j) < Q(m + k) => s[m + j][1] < s[m + k][1]
    BY <2>1, <2>2 DEF Placed
  <2> QED
    BY <2>1, <2>2, <2>3
<1>7. Placed(z)
  BY <1>6, Zenon DEF Placed
<1>8. Before(a, z)
  <2> SUFFICES ASSUME NEW j \in 1 .. Len(a), NEW k \in 1 .. Len(z) PROVE a[j][1] < z[k][1]
    BY DEF Before
  <2>1. j \in 1 .. Len(s) /\ a[j] = s[j] /\ Q(j) \in Nat /\ Q(j) < f
    BY <1>3
  <2>2. m + k \in 1 .. Len(s) /\ z[k] = s[m + k] /\ Q(k) \in Nat /\ Q(m + k) = f + Q(k)
    BY <1>4
  <2>3. Q(j) < Q(m + k)
    BY <2>1, <2>2
  <2>4. s[j][1] < s[m + k][1]
    BY <2>1, <2>2, <2>3 DEF Placed
  <2> QED
    BY <2>1, <2>2, <2>4
<1>9. Within(a, lo, hi) /\ Within(z, lo, hi)
  BY <1>3, <1>4, Zenon DEF Within
<1>10. ASSUME NEW b \in Int, Run(s, b) PROVE Run(a, b) /\ Run(z, b + f)
  <2>1. Run(a, b)
    BY <1>3, <1>10, Zenon DEF Run
  <2>2. ASSUME NEW k \in 1 .. Len(z) PROVE z[k][1] = b + f + 1 + Q(k)
    <3>1. m + k \in 1 .. Len(s) /\ z[k] = s[m + k] /\ Q(k) \in Nat /\ Q(m + k) = f + Q(k)
      BY <1>4
    <3>2. s[m + k][1] = b + 1 + Q(m + k)
      BY <1>10, <3>1 DEF Run
    <3> QED
      BY <3>1, <3>2
  <2> QED
    BY <2>1, <2>2, Zenon DEF Run
<1> QED
  BY <1>5, <1>7, <1>8, <1>9, <1>10 DEF a, z

-----------------------------------------------------------------------------
(* The inductive invariant: frames.                                        *)

\* No push has ended inside a frame.
Aligned == RingSize % Channels = 0 \/ dropouts = "none"

OrderInv ==
  Aligned =>
    /\ Len(ring) = Channels * RingFrames
    /\ Placed(ring) /\ Placed(outBuf) /\ Before(outBuf, ring)
    /\ Within(ring, last, made) /\ Within(outBuf, last, made) /\ last <= made

\* No frame was lost: those on their way are the next after the last.
Complete == dropouts = "none" /\ refused = "no"
GapInv ==
  Complete => Run(outBuf, last) /\ Run(ring, last + toWrite) /\ made = last + toWrite + RingFrames

IInv == NumberInv /\ OrderInv /\ GapInv

\* A session starts with an empty ring: nothing is out of order or missing.
LEMMA InitFrames == Init => OrderInv /\ GapInv
<1> SUFFICES ASSUME Init PROVE OrderInv /\ GapInv
  OBVIOUS
<1>1. Len(<<>>) = 0 /\ Channels * 0 = 0 /\ 0 \in 0 .. Channels - 1
  BY SMT
<1>2. 0 \div Channels = 0
  BY <1>1, Unique
<1>3. RingFrames = 0
  BY <1>1, <1>2 DEF Init, RingFrames
<1> QED
  BY <1>1, <1>3, EmptyFrames, SMT DEF Init, OrderInv, GapInv

\* The values that the types give.
LEMMA Types ==
  ASSUME TypeOK
  PROVE  /\ ring \in Seq(Samples) /\ outBuf \in Seq(Samples) /\ Len(ring) \in Nat
         /\ Len(ring) <= RingSize /\ RingSize \in Nat /\ made \in Nat /\ last \in Nat
         /\ toWrite \in Nat /\ available \in Nat /\ RingFrames \in Nat
<1>1. /\ ring \in Seq(Samples) /\ outBuf \in Seq(Samples) /\ made \in Nat /\ last \in Nat
      /\ toWrite \in Nat /\ available \in Nat /\ Len(ring) <= RingSize
  BY SMT DEF TypeOK
<1>2. Len(ring) \in Nat
  BY <1>1, LenProperties
<1> QED
  BY <1>1, <1>2, RingFramesBounds, RingSizeNat

\* A push keeps the frames.
LEMMA PushKeeps ==
  ASSUME IInv, NEW n \in 0 .. DspMax, Push(n)
  PROVE  OrderInv' /\ GapInv'
<1> DEFINE fitting == Least(n * Channels, RingSize - Len(ring))
           new     == SubSeq(Processed(n), 1, fitting)
<1>0. TypeOK /\ OrderInv /\ GapInv /\ OutInv /\ outBuf = <<>> /\ toWrite = 0
  BY DEF IInv, NumberInv, OutInv, Push
<1>1. /\ n \in Nat /\ made + n <= MaxFrames /\ made' = made + n /\ made + n \in Nat
      /\ ring' = ring \o new
      /\ UNCHANGED <<outBuf, toWrite, last, refused>>
      /\ dropouts' = "none" => dropouts = "none" /\ ~(fitting < n * Channels)
  BY <1>0, Types, SMT DEF Push, outVars
<1>2. n * Channels \in Nat /\ RingSize - Len(ring) \in Nat /\ n * Channels = Channels * n
  BY <1>0, <1>1, Types, SamplesNat
<1>3. /\ fitting \in Nat /\ fitting <= n * Channels
      /\ fitting = n * Channels \/ fitting = RingSize - Len(ring)
  BY <1>2, LeastBounds, Zenon
<1>4. /\ Processed(n) \in Seq(Samples) /\ Len(Processed(n)) = n * Channels
      /\ \A i \in 1 .. n * Channels : Processed(n)[i] = <<made + 1 + Q(i), 1 + R(i)>>
  BY <1>0, <1>1, Types, ProcessedSamples DEF Q, R
<1> HIDE DEF fitting
<1>5. /\ new \in Seq(Samples) /\ Len(new) = fitting
      /\ \A i \in 1 .. fitting : new[i] = Processed(n)[i]
  <2>1. fitting \in 0 .. Len(Processed(n))
    BY <1>2, <1>3, <1>4
  <2> QED
    BY <1>4, <2>1, Cut
<1> HIDE DEF new
<1>6. \A i \in 1 .. Len(new) :
        new[i] = <<made + 1 + Q(i), 1 + R(i)>> /\ made + 1 + Q(i) <= made + n
  <2> TAKE i \in 1 .. Len(new)
  <2>1. i \in 1 .. n * Channels /\ i \in Nat \ {0} /\ i <= Channels * n /\ n \in Int
    BY <1>1, <1>2, <1>3, <1>5
  <2>2. Q(i) < n /\ Q(i) \in Nat
    BY <2>1, QBound, QNat
  <2>3. new[i] = <<made + 1 + Q(i), 1 + R(i)>>
    BY <1>4, <1>5, <2>1
  <2>4. made \in Nat
    BY <1>0, Types
  <2> QED
    BY <1>1, <2>2, <2>3, <2>4
<1>7. ASSUME Aligned'
      PROVE  Aligned /\ \E f \in Nat : fitting = Channels * f /\ (dropouts' = "none" => f = n)
  <2>1. Aligned
    BY <1>1, <1>7 DEF Aligned
  <2>2. CASE fitting = n * Channels
    BY <1>1, <1>2, <2>1, <2>2
  <2>3. CASE fitting # n * Channels
    <3>1. fitting < n * Channels /\ fitting = RingSize - Len(ring)
      BY <1>2, <1>3, <2>3
    <3>2. RingSize % Channels = 0 /\ dropouts' # "none"
      BY <1>1, <1>7, <3>1 DEF Aligned
    <3> DEFINE g == RingSize \div Channels
    <3>3. RingSize = Channels * g + 0 /\ g \in Int
      <4>1. RingSize \in Int
        BY <1>0, Types
      <4>2. RingSize = Channels * g + (RingSize % Channels) /\ g \in Int
        BY <4>1, Division, Zenon
      <4> QED
        BY <3>2, <4>2, Zenon
    <3> HIDE DEF g
    <3>4. Len(ring) = Channels * RingFrames /\ RingFrames \in Nat
      BY <1>0, <2>1, Types DEF OrderInv
    <3>5. Channels * (g - RingFrames) = Channels * g - Channels * RingFrames
            /\ g - RingFrames \in Int
      BY <3>3, <3>4, SMT
    <3>6. fitting = Channels * (g - RingFrames)
      BY <3>1, <3>3, <3>4, <3>5, SMT
    <3>7. g - RingFrames >= 0
      BY <1>3, <3>5, <3>6, ProductSign, SMT
    <3> QED
      BY <2>1, <3>2, <3>5, <3>6, <3>7
  <2> QED
    BY <2>2, <2>3
<1>8. ASSUME NEW f \in Nat, fitting = Channels * f, Aligned
      PROVE  Len(ring') = Channels * RingFrames' /\ RingFrames' = RingFrames + f
  <2>1. /\ Len(ring) = Channels * RingFrames /\ RingFrames \in Nat
        /\ Len(ring') = Len(ring) + fitting
    BY <1>0, <1>1, <1>5, <1>8, Types, ConcatProperties DEF OrderInv
  <2>2. Channels * (RingFrames + f) = Channels * RingFrames + Channels * f /\ RingFrames + f \in Int
    BY <2>1, SMT
  <2>3. Len(ring') = Channels * (RingFrames + f) + 0 /\ 0 \in 0 .. Channels - 1
    BY <1>8, <2>1, <2>2, SMT
  <2>4. Len(ring') \div Channels = RingFrames + f
    BY <2>2, <2>3, Unique
  <2>5. RingFrames' = RingFrames + f
    BY <2>4 DEF RingFrames
  <2> QED
    BY <1>8, <2>1, <2>2, <2>5
<1>9. ASSUME Aligned
      PROVE  /\ Placed(ring') /\ Within(ring', last, made')
             /\ \A b \in Int : Run(ring, b) /\ made = b + RingFrames => Run(ring', b)
  <2>1. /\ ring \in Seq(Samples) /\ RingFrames \in Nat /\ made \in Nat /\ last \in Nat
        /\ Len(ring) = Channels * RingFrames
        /\ Placed(ring) /\ Within(ring, last, made) /\ last <= made /\ made <= made + n
    BY <1>0, <1>1, <1>9, Types DEF OrderInv
  <2>2. /\ Placed(ring \o new) /\ Within(ring \o new, last, made + n)
        /\ \A b \in Int : Run(ring, b) /\ made = b + RingFrames => Run(ring \o new, b)
    BY <1>1, <1>5, <1>6, <2>1, PushFrames, Zenon
  <2> QED
    BY <1>1, <2>2, Zenon
<1>10. OrderInv'
  <2> SUFFICES ASSUME Aligned'
      PROVE  /\ Len(ring') = Channels * RingFrames'
             /\ Placed(ring') /\ Placed(outBuf') /\ Before(outBuf', ring')
             /\ Within(ring', last', made') /\ Within(outBuf', last', made') /\ last' <= made'
    BY Zenon DEF OrderInv
  <2>1. last' <= made'
    BY <1>0, <1>1, <1>7, Types DEF OrderInv
  <2>2. Len(ring') = Channels * RingFrames'
    BY <1>7, <1>8
  <2> QED
    BY <1>0, <1>1, <1>7, <1>9, <2>1, <2>2, EmptyFrames, Zenon
<1>11. GapInv'
  <2> SUFFICES ASSUME Complete'
      PROVE  /\ Run(outBuf', last') /\ Run(ring', last' + toWrite')
             /\ made' = last' + toWrite' + RingFrames'
    BY Zenon DEF GapInv
  <2>1. Complete /\ Aligned' /\ Aligned /\ dropouts' = "none"
    BY <1>1 DEF Complete, Aligned
  <2>2. Run(ring, last + toWrite) /\ made = last + toWrite + RingFrames
    BY <1>0, <2>1 DEF GapInv
  <2>3. last \in Nat /\ last + toWrite \in Int /\ last + toWrite = last /\ RingFrames \in Nat
    BY <1>0, Types
  <2>4. Run(ring', last + toWrite)
    BY <1>9, <2>1, <2>2, <2>3, Zenon
  <2>5. PICK f \in Nat : fitting = Channels * f /\ f = n
    BY <1>7, <2>1
  <2>6. RingFrames' = RingFrames + n
    BY <1>8, <2>1, <2>5
  <2>7. made' = last + toWrite + RingFrames'
    BY <1>0, <1>1, <2>2, <2>3, <2>6
  <2> QED
    BY <1>0, <1>1, <2>4, <2>7, EmptyFrames, Zenon
<1> QED
  BY <1>10, <1>11

\* So does a read of whole frames.
LEMMA ReadKeeps ==
  ASSUME IInv, ReadRing
  PROVE  OrderInv' /\ GapInv'
<1> DEFINE frames == Least(RingFrames, available)
           taken  == Least(frames * Channels, Len(ring))
<1>0. TypeOK /\ OrderInv /\ GapInv /\ OutInv /\ outBuf = <<>> /\ toWrite = 0
  BY DEF IInv, NumberInv, OutInv, ReadRing
<1>1. frames \in Nat /\ frames <= RingFrames
  BY <1>0, Types, LeastBounds
<1> HIDE DEF frames
<1>2. /\ toWrite' = frames /\ outBuf' = SubSeq(ring, 1, taken)
      /\ ring' = SubSeq(ring, taken + 1, Len(ring))
      /\ UNCHANGED <<made, last, dropouts, refused>>
  BY DEF ReadRing, frames
<1>3. Aligned' <=> Aligned
  BY <1>2 DEF Aligned
<1>4. ASSUME Aligned
      PROVE  /\ taken = Channels * frames /\ taken \in 0 .. Len(ring)
             /\ Len(ring) = Channels * RingFrames
  <2>1. Len(ring) = Channels * RingFrames /\ RingFrames \in Nat
    BY <1>0, <1>4, Types DEF OrderInv
  <2>2. Channels * (RingFrames - frames) = Channels * RingFrames - Channels * frames
    BY <1>1, <2>1, SMT
  <2>3. Channels * (RingFrames - frames) >= 0
    BY <1>1, <2>1, ProductSign, SMT
  <2>4. frames * Channels \in Nat /\ frames * Channels = Channels * frames /\ Len(ring) \in Nat
    BY <1>0, <1>1, SamplesNat, Types
  <2>5. frames * Channels <= Len(ring)
    BY <2>1, <2>2, <2>3, <2>4, SMT
  <2> QED
    BY <2>1, <2>4, <2>5 DEF Least
<1> HIDE DEF taken
<1>5. ASSUME Aligned
      PROVE  Len(ring') = Channels * RingFrames' /\ RingFrames' = RingFrames - frames
  <2>1. Len(ring') = Len(ring) - taken
    <3>1. ring \in Seq(Samples) /\ taken \in 0 .. Len(ring)
      BY <1>0, <1>4, <1>5, Types
    <3>2. Len(SubSeq(ring, taken + 1, Len(ring))) = Len(ring) - taken
      BY <3>1, Cut, Zenon
    <3> QED
      BY <1>2, <3>2, Zenon
  <2>2. Channels * (RingFrames - frames) = Channels * RingFrames - Channels * frames
        /\ RingFrames - frames \in Int
    BY <1>0, <1>1, Types, SMT
  <2>3. Len(ring') = Channels * (RingFrames - frames) + 0 /\ 0 \in 0 .. Channels - 1
    <3>1. Len(ring') = Channels * RingFrames - Channels * frames
      BY <1>4, <1>5, <2>1
    <3>2. Channels * (RingFrames - frames) \in Int
      BY <2>2, SMT
    <3>3. Len(ring') = Channels * (RingFrames - frames)
      BY <2>2, <3>1, Zenon
    <3> QED
      BY <3>2, <3>3
  <2>4. Len(ring') \div Channels = RingFrames - frames
    BY <2>2, <2>3, Unique
  <2>5. RingFrames' = RingFrames - frames
    BY <2>4 DEF RingFrames
  <2> QED
    BY <1>4, <1>5, <2>1, <2>2, <2>5
<1>6. ASSUME Aligned
      PROVE  /\ Placed(outBuf') /\ Placed(ring') /\ Before(outBuf', ring')
             /\ Within(outBuf', last, made) /\ Within(ring', last, made)
             /\ \A b \in Int : Run(ring, b) => Run(outBuf', b) /\ Run(ring', b + frames)
  <2>1. /\ ring \in Seq(Samples) /\ RingFrames \in Nat
        /\ Placed(ring) /\ Within(ring, last, made)
    BY <1>0, <1>6, Types DEF OrderInv
  <2>2. taken = Channels * frames /\ taken \in 0 .. Len(ring) /\ Len(ring) = Channels * RingFrames
    BY <1>4, <1>6
  <2> QED
    BY <1>1, <1>2, <2>1, <2>2, CutFrames, Zenon
<1>7. OrderInv'
  <2> SUFFICES ASSUME Aligned'
      PROVE  /\ Len(ring') = Channels * RingFrames'
             /\ Placed(ring') /\ Placed(outBuf') /\ Before(outBuf', ring')
             /\ Within(ring', last', made') /\ Within(outBuf', last', made') /\ last' <= made'
    BY Zenon DEF OrderInv
  <2>1. last' <= made'
    BY <1>0, <1>2, <1>3 DEF OrderInv
  <2> QED
    BY <1>2, <1>3, <1>5, <1>6, <2>1, Zenon
<1>8. GapInv'
  <2> SUFFICES ASSUME Complete'
      PROVE  /\ Run(outBuf', last') /\ Run(ring', last' + toWrite')
             /\ made' = last' + toWrite' + RingFrames'
    BY Zenon DEF GapInv
  <2>1. Complete /\ Aligned
    BY <1>2 DEF Complete, Aligned
  <2>2. Run(ring, last + toWrite) /\ made = last + toWrite + RingFrames
    BY <1>0, <2>1 DEF GapInv
  <2>3. last \in Int /\ last + toWrite = last /\ RingFrames \in Nat
    BY <1>0, Types
  <2>4. Run(outBuf', last) /\ Run(ring', last + frames)
    BY <1>6, <2>1, <2>2, <2>3, Zenon
  <2>5. made = last + frames + RingFrames'
    BY <1>0, <1>1, <1>5, <2>1, <2>2, <2>3
  <2> QED
    BY <1>2, <2>4, <2>5, Zenon
<1> QED
  BY <1>7, <1>8

\* So does a write to the device.
LEMMA RenderKeeps ==
  ASSUME IInv, Render
  PROVE  OrderInv' /\ GapInv'
<1>0. /\ TypeOK /\ OrderInv /\ GapInv /\ toWrite > 0 /\ toWrite \in Nat
      /\ Len(outBuf) = toWrite * Channels /\ RingFrames \in Nat /\ last \in Nat
  BY Types DEF IInv, NumberInv, OutInv, Render
<1>1. /\ outBuf' = <<>> /\ toWrite' = 0 /\ last' = outBuf[Len(outBuf)][1]
      /\ UNCHANGED <<made, ring, dropouts, refused>> /\ RingFrames' = RingFrames
  BY DEF Render, RingFrames
<1>2. (Aligned' <=> Aligned) /\ (Complete' <=> Complete)
  BY <1>1 DEF Aligned, Complete
<1>3. Len(outBuf) \in 1 .. Len(outBuf) /\ Len(outBuf) \in Nat \ {0}
  <2>1. toWrite * Channels \in Nat /\ toWrite * Channels > 0
    BY <1>0, SMT
  <2> QED
    BY <1>0, <2>1
<1>4. outBuf[Len(outBuf)][1] \in Nat
  BY <1>0, <1>3, FrameNat, Types
<1>5. OrderInv'
  <2> SUFFICES ASSUME Aligned
      PROVE  /\ Len(ring) = Channels * RingFrames
             /\ Placed(ring) /\ Placed(<<>>) /\ Before(<<>>, ring)
             /\ Within(ring, outBuf[Len(outBuf)][1], made)
             /\ Within(<<>>, outBuf[Len(outBuf)][1], made) /\ outBuf[Len(outBuf)][1] <= made
    BY <1>1, <1>2, Zenon DEF OrderInv
  <2>1. OrderInv /\ Before(outBuf, ring) /\ Within(ring, last, made) /\ Within(outBuf, last, made)
    BY <1>0 DEF OrderInv
  <2>2. Within(ring, outBuf[Len(outBuf)][1], made)
    BY <1>3, <2>1, Zenon DEF Before, Within
  <2>3. outBuf[Len(outBuf)][1] <= made
    BY <1>3, <2>1, Zenon DEF Within
  <2> QED
    BY <2>1, <2>2, <2>3, EmptyFrames, Zenon DEF OrderInv
<1>6. GapInv'
  <2> SUFFICES ASSUME Complete
      PROVE  /\ Run(<<>>, outBuf[Len(outBuf)][1]) /\ Run(ring, outBuf[Len(outBuf)][1] + 0)
             /\ made = outBuf[Len(outBuf)][1] + 0 + RingFrames
    BY <1>1, <1>2, Zenon DEF GapInv
  <2>1. /\ Run(outBuf, last) /\ Run(ring, last + toWrite)
        /\ made = last + toWrite + RingFrames
    BY <1>0 DEF GapInv
  <2>2. Q(Len(outBuf)) = toWrite - 1
    <3>1. Channels * (toWrite - 1) + (Channels - 1) = Len(outBuf) - 1
      BY <1>0, SMT
    <3>2. toWrite - 1 \in Int /\ Channels - 1 \in 0 .. Channels - 1
      BY <1>0
    <3>3. (Channels * (toWrite - 1) + (Channels - 1)) \div Channels = toWrite - 1
      BY <3>2, Unique
    <3> QED
      BY <3>1, <3>3 DEF Q
  <2>3. outBuf[Len(outBuf)][1] = last + 1 + Q(Len(outBuf))
    BY <1>3, <2>1 DEF Run
  <2>4. outBuf[Len(outBuf)][1] = last + toWrite /\ last + toWrite + 0 = last + toWrite
    BY <1>0, <2>2, <2>3
  <2> QED
    BY <2>1, <2>4, EmptyFrames, Zenon
<1> QED
  BY <1>5, <1>6

\* And every other step.
LEMMA NextFrames == IInv /\ [Next]_vars => OrderInv' /\ GapInv'
<1> SUFFICES ASSUME IInv, [Next]_vars PROVE OrderInv' /\ GapInv'
  OBVIOUS
<1>0. OrderInv /\ GapInv
  BY DEF IInv
<1>1. ASSUME UNCHANGED <<made, ring, outBuf, toWrite, last, dropouts, refused>>
      PROVE  OrderInv' /\ GapInv'
  BY <1>0, <1>1 DEF OrderInv, GapInv, Aligned, Complete, RingFrames, Placed, Within, Before, Run
<1>2. CASE RenderFails
  <2>1. /\ outBuf' = <<>> /\ refused' = "yes" /\ UNCHANGED <<made, ring, last, dropouts>>
    BY <1>2 DEF RenderFails
  <2>2. GapInv'
    BY <2>1, Zenon DEF GapInv, Complete
  <2>3. (Aligned' <=> Aligned) /\ RingFrames' = RingFrames
    BY <2>1 DEF Aligned, RingFrames
  <2>4. OrderInv'
    BY <1>0, <2>1, <2>3, EmptyFrames, Zenon DEF OrderInv
  <2> QED
    BY <2>2, <2>4
<1>3. CASE ReadPadding
  BY <1>1, <1>3 DEF ReadPadding, outVars
<1>4. CASE CorrectDrift
  BY <1>1, <1>4 DEF CorrectDrift, outVars
<1>5. CASE RenderLost
  BY <1>1, <1>5 DEF RenderLost, outVars
<1>6. CASE DevicePlays
  BY <1>1, <1>6 DEF DevicePlays, outVars
<1>7. CASE UNCHANGED vars
  BY <1>1, <1>7 DEF vars, outVars
<1> QED
  BY <1>2, <1>3, <1>4, <1>5, <1>6, <1>7, PushKeeps, ReadKeeps, RenderKeeps DEF Next

-----------------------------------------------------------------------------
(* The theorems.                                                           *)

\* The inductive invariant holds in every reachable state.
LEMMA Inductive == Spec => []IInv
<1>1. Init => IInv
  BY InitNumber, InitFrames DEF IInv
<1>2. IInv /\ [Next]_vars => IInv'
  BY NextNumber, NextFrames, Zenon DEF IInv
<1> QED
  BY <1>1, <1>2, PTL DEF Spec

\* The variables of the packet loop keep their types, for every pair of device buffers.
THEOREM TypeCorrect == Spec => []TypeOK
<1>1. IInv => TypeOK
  BY DEF IInv, NumberInv
<1> QED
  BY Inductive, <1>1, PTL

\* GetBuffer() is never asked for more than the render buffer has room for, whatever
\* the device plays between GetCurrentPadding() and the call.
THEOREM WritesFit == Spec => []RoomForWrite
<1>1. IInv => RoomForWrite
  <2> SUFFICES ASSUME IInv, pc = "render" PROVE padding + toWrite <= RenderBuf
    BY DEF RoomForWrite
  <2>1. /\ padding + available <= RenderBuf /\ toWrite <= available
        /\ padding \in Int /\ available \in Int /\ toWrite \in Int
    BY SMT DEF IInv, NumberInv, RoomInv, TypeOK
  <2>2. RenderBuf \in Int
    OBVIOUS
  <2> QED
    BY <2>1, <2>2
<1> QED
  BY Inductive, <1>1, PTL

\* The discard of the drift correction, with its null destination, needs a render
\* buffer deeper than two capture periods, for every window of packets.
THEOREM DiscardIsRare == Spec => []DiscardNeedsDeepBuffer
<1>1. IInv => DiscardNeedsDeepBuffer
  BY DEF IInv, NumberInv
<1> QED
  BY Inductive, <1>1, PTL

\* The device gets whole frames in their order, for every channel count that divides
\* the size of the ring.
THEOREM FramesAreWhole == Spec => []WholeFrames
<1>1. IInv => WholeFrames
  <2> SUFFICES ASSUME IInv, RingSize % Channels = 0, pc = "render",
                      NEW k \in DOMAIN outBuf
      PROVE  /\ outBuf[k][2] = 1 + ((k - 1) % Channels)
             /\ outBuf[k][2] > 1 => outBuf[k][1] = outBuf[k - 1][1]
             /\ outBuf[k][2] = 1 => outBuf[k][1] > (IF k = 1 THEN last ELSE outBuf[k - 1][1])
    BY Zenon DEF WholeFrames, IInv, NumberInv, OutInv
  <2>1. /\ outBuf \in Seq(Samples) /\ last \in Nat
        /\ Placed(outBuf) /\ Within(outBuf, last, made)
    BY Types DEF IInv, NumberInv, OrderInv, Aligned
  <2>2. Len(outBuf) \in Nat /\ DOMAIN outBuf = 1 .. Len(outBuf)
    BY <2>1, LenProperties
  <2>3. k \in 1 .. Len(outBuf) /\ outBuf[k][2] = 1 + R(k) /\ R(k) \in 0 .. Channels - 1
    BY <2>1, <2>2, QNat DEF Placed
  <2>4. last < outBuf[k][1] /\ outBuf[k][1] \in Nat
    BY <2>1, <2>3, FrameNat DEF Within
  <2>5. /\ R(k) > 0 => Q(k - 1) = Q(k)
        /\ R(k) = 0 => Q(k - 1) < Q(k)
    <3>1. k - 1 \in Int
      BY <2>2, <2>3
    <3> QED
      BY <3>1, StepBack DEF Q, R
  <2>6. k = 1 => R(k) = 0
    <3>1. Channels * 0 + 0 = 1 - 1 /\ 0 \in 0 .. Channels - 1
      BY SMT
    <3>2. (1 - 1) % Channels = 0
      BY <3>1, Unique
    <3> QED
      BY <3>2 DEF R
  <2>7. ASSUME k # 1
        PROVE  /\ Q(k - 1) = Q(k) => outBuf[k - 1][1] = outBuf[k][1]
               /\ Q(k - 1) < Q(k) => outBuf[k - 1][1] < outBuf[k][1]
               /\ outBuf[k - 1][1] \in Nat
    <3>1. k - 1 \in 1 .. Len(outBuf)
      BY <2>2, <2>3, <2>7
    <3> QED
      BY <2>1, <2>3, <3>1, FrameNat DEF Placed
  <2>8. outBuf[k][2] > 1 => outBuf[k][1] = outBuf[k - 1][1]
    BY <2>3, <2>5, <2>6, <2>7
  <2>9. outBuf[k][2] = 1 => outBuf[k][1] > (IF k = 1 THEN last ELSE outBuf[k - 1][1])
    BY <2>1, <2>3, <2>4, <2>5, <2>6, <2>7
  <2> QED
    BY <2>3, <2>8, <2>9 DEF R
<1> QED
  BY Inductive, <1>1, PTL

\* While no dropout is counted and GetBuffer() has not failed, the device gets every
\* frame, for every channel count.
THEOREM FramesAreComplete == Spec => []Gapless
<1>1. IInv => Gapless
  <2> SUFFICES ASSUME IInv, pc = "render", dropouts = "none", refused = "no",
                      NEW k \in DOMAIN outBuf
      PROVE  outBuf[k][1] = last + 1 + ((k - 1) \div Channels)
    BY DEF Gapless
  <2>1. outBuf \in Seq(Samples) /\ Run(outBuf, last)
    BY Types DEF IInv, NumberInv, GapInv, Complete
  <2>2. DOMAIN outBuf = 1 .. Len(outBuf)
    BY <2>1, LenProperties
  <2> QED
    BY <2>1, <2>2 DEF Run, Q
<1> QED
  BY Inductive, <1>1, PTL
=============================================================================
