------------------------ MODULE LockFreeQueueProofs ------------------------
(***************************************************************************)
(* LockFreeQueue is a bounded FIFO for every capacity and every range of   *)
(* its counters.  The argument: the writer's slot is Size slots ahead of   *)
(* the reader's, Size is below Capacity while the writer writes, and slots *)
(* fewer than Capacity apart are different slots even when a counter wraps *)
(* in between, because Modulus is a multiple of Capacity (PlusMask).       *)
(***************************************************************************)
EXTENDS LockFreeQueue, SequenceTheorems, TLAPS

-----------------------------------------------------------------------------
(* Quotients and remainders.                                               *)

\* Quotient and remainder.
LEMMA Division ==
  ASSUME NEW C \in Nat \ {0}, NEW m \in Int
  PROVE  m = C * (m \div C) + (m % C) /\ m % C \in 0 .. C - 1 /\ m \div C \in Int
BY SMT

\* A product is zero or at least as far from it as its first factor.
LEMMA ProductSign ==
  ASSUME NEW C \in Nat \ {0}, NEW x \in Int
  PROVE  /\ x >= 0 => C * x >= 0
         /\ x > 0 => C * x >= C
         /\ x < 0 => C * x <= -C
BY SMT

\* Quotient and remainder are unique.
LEMMA Unique ==
  ASSUME NEW C \in Nat \ {0}, NEW q \in Int, NEW r \in 0 .. C - 1
  PROVE  (C * q + r) \div C = q /\ (C * q + r) % C = r
<1> DEFINE d == (C * q + r) \div C
           s == (C * q + r) % C
<1>1. C * q + r = C * d + s /\ s \in 0 .. C - 1 /\ d \in Int
  <2>1. C * q + r \in Int
    BY SMT
  <2> QED  BY <2>1, Division
<1> HIDE DEF d, s
<1>2. C * (q - d) = C * q - C * d /\ q - d \in Int /\ C * q \in Int /\ C * d \in Int
  BY <1>1, SMT
<1>3. q - d = 0
  BY <1>1, <1>2, ProductSign, SMT
<1> QED  BY <1>1, <1>2, <1>3, SMT DEF d, s

\* Multiplication distributes.
LEMMA Distribute ==
  ASSUME NEW C \in Nat, NEW x \in Int, NEW L \in Nat
  PROVE  C * (x + 1 - L) = C * x + C - L * C /\ x + 1 - L \in Int
BY SMT

-----------------------------------------------------------------------------
(* The counters.                                                           *)

\* The range of the counters holds the queue at least twice.
LEMMA ModulusFact == Modulus \in Nat /\ Modulus >= 2 * Capacity /\ Capacity \in Nat \ {0}
<1>1. Capacity \in Nat \ {0} /\ Laps \in Nat /\ Laps >= 2
  BY CapacityAssumption, LapsAssumption
<1>2. Laps * Capacity \in Nat /\ Laps * Capacity >= 2 * Capacity
  BY <1>1, SMT
<1> QED
  BY <1>1, <1>2 DEF Modulus

\* Going d places ahead of a counter is going d slots ahead around the buffer.
LEMMA PlusMask ==
  ASSUME NEW n \in Counters, NEW d \in 0 .. Capacity
  PROVE  /\ Plus(n, d) \in Counters
         /\ Mask(n) \in Slots
         /\ d < Capacity =>
              Mask(Plus(n, d)) = IF Mask(n) + d < Capacity THEN Mask(n) + d
                                 ELSE Mask(n) + d - Capacity
<1> DEFINE q == n \div Capacity
           s == n % Capacity
<1>1. /\ Capacity \in Nat \ {0} /\ Laps \in Nat /\ Modulus \in Nat
      /\ Modulus >= 2 * Capacity /\ n \in Int /\ d \in Int
  BY ModulusFact, LapsAssumption DEF Counters
<1>2. n = Capacity * q + s /\ s \in 0 .. Capacity - 1 /\ q \in Int
  BY <1>1, Division
<1>3. Plus(n, d) \in Counters
  BY <1>1 DEF Plus, Counters
<1>4. Mask(n) \in Slots /\ Mask(n) = s
  BY <1>2 DEF Mask, Slots
<1>5. ASSUME d < Capacity
      PROVE  Mask(Plus(n, d)) = IF s + d < Capacity THEN s + d ELSE s + d - Capacity
  <2>1. CASE n + d < Modulus
    <3>1. CASE s + d < Capacity
      <4>1. n + d = Capacity * q + (s + d) /\ s + d \in 0 .. Capacity - 1
        BY <1>1, <1>2, <3>1
      <4>2. (Capacity * q + (s + d)) % Capacity = s + d
        BY <4>1, <1>1, <1>2, Unique, Zenon
      <4> QED
        BY <4>1, <4>2, <2>1, <3>1 DEF Plus, Mask
    <3>2. CASE ~ (s + d < Capacity)
      <4>1. Capacity * (q + 1) = Capacity * q + Capacity
        BY <1>1, <1>2, SMT
      <4>2. n + d = Capacity * (q + 1) + (s + d - Capacity)
        BY <4>1, <1>1, <1>2, SMT
      <4>3. s + d - Capacity \in 0 .. Capacity - 1 /\ q + 1 \in Int
        BY <1>1, <1>2, <1>5, <3>2
      <4> QED
        BY <4>2, <4>3, <2>1, <3>2, <1>1, Unique DEF Plus, Mask
    <3> QED
      BY <3>1, <3>2
  <2>2. CASE ~ (n + d < Modulus)
    <3> DEFINE a == q + 1 - Laps
    <3>1. Capacity * a = Capacity * q + Capacity - Laps * Capacity /\ a \in Int
      BY <1>1, <1>2, Distribute
    <3>2. Capacity * a + s = n + Capacity - Modulus
      BY <3>1, <1>1, <1>2, SMT DEF Modulus
    <3>3. n + Capacity - Modulus \in 0 .. Capacity - 1
      BY <1>1, <1>5, <2>2 DEF Counters
    <3> HIDE DEF a
    <3>4. a = 0
      <4>1. (a > 0 => Capacity * a >= Capacity) /\ (a < 0 => Capacity * a <= -Capacity)
        BY <3>1, <1>1, ProductSign
      <4> QED
        BY <4>1, <3>1, <3>2, <3>3, <1>1, <1>2
    <3>4a. Capacity * a = 0
      BY <3>4, <1>1, SMT
    <3>4b. s = n + Capacity - Modulus
      BY <3>4a, <3>2, <1>1, <1>2
    <3>5. n + d - Modulus = s + d - Capacity /\ ~ (s + d < Capacity)
      BY <3>4b, <1>1, <1>2, <2>2
    <3>6. s + d - Capacity = Capacity * 0 + (s + d - Capacity)
      BY <1>1, <1>2, SMT
    <3>7. s + d - Capacity \in 0 .. Capacity - 1
      BY <3>5, <1>1, <1>2, <1>5
    <3>8. (Capacity * 0 + (s + d - Capacity)) % Capacity = s + d - Capacity
      <4>1. 0 \in Int
        OBVIOUS
      <4> QED
        BY <4>1, <3>7, <1>1, Unique, Zenon
    <3> QED
      BY <3>5, <3>6, <3>8, <2>2 DEF Plus, Mask
  <2> QED
    BY <2>1, <2>2
<1> QED
  BY <1>3, <1>4, <1>5

\* The writer's counter is Size places ahead of the reader's, and stays so when
\* either moves.
LEMMA DistanceStep ==
  ASSUME NEW w \in Counters, NEW r \in Counters
  PROVE  /\ Distance(w, r) \in Nat
         /\ Distance(w, r) = 0 <=> w = r
         /\ Plus(r, Distance(w, r)) = w
         /\ Plus(w, 1) \in Counters /\ Plus(r, 1) \in Counters
         /\ Distance(w, r) < Capacity => Distance(Plus(w, 1), r) = Distance(w, r) + 1
         /\ Distance(w, r) > 0 =>
              /\ Distance(w, Plus(r, 1)) = Distance(w, r) - 1
              /\ \A d \in 0 .. Capacity : Plus(Plus(r, 1), d) = Plus(r, d + 1)
BY ModulusFact DEF Counters, Distance, Plus

\* Two places fewer than Capacity apart are two slots.
LEMMA DifferentSlots ==
  ASSUME NEW r \in Counters, NEW d \in 0 .. Capacity - 1, NEW e \in 0 .. Capacity - 1,
         Mask(Plus(r, d)) = Mask(Plus(r, e))
  PROVE  d = e
<1>1. /\ Mask(Plus(r, d)) = IF Mask(r) + d < Capacity THEN Mask(r) + d ELSE Mask(r) + d - Capacity
      /\ Mask(Plus(r, e)) = IF Mask(r) + e < Capacity THEN Mask(r) + e ELSE Mask(r) + e - Capacity
      /\ Mask(r) \in 0 .. Capacity - 1
  <2>1. /\ d \in 0 .. Capacity /\ d < Capacity /\ e \in 0 .. Capacity /\ e < Capacity
    BY CapacityAssumption
  <2>2. Mask(Plus(r, d)) = IF Mask(r) + d < Capacity THEN Mask(r) + d ELSE Mask(r) + d - Capacity
    BY <2>1, PlusMask, Zenon
  <2>3. Mask(Plus(r, e)) = IF Mask(r) + e < Capacity THEN Mask(r) + e ELSE Mask(r) + e - Capacity
    BY <2>1, PlusMask, Zenon
  <2>4. Mask(r) \in 0 .. Capacity - 1
    BY <2>1, PlusMask DEF Slots
  <2> QED
    BY <2>2, <2>3, <2>4
<1>2. \A m \in 0 .. Capacity - 1 :
        (IF m + d < Capacity THEN m + d ELSE m + d - Capacity)
          = (IF m + e < Capacity THEN m + e ELSE m + e - Capacity) => d = e
  BY CapacityAssumption
<1> QED
  BY <1>1, <1>2, Zenon

\* A function over 1..n is a sequence of length n.
LEMMA WindowIsSeq ==
  ASSUME NEW b, NEW r \in Counters, NEW n \in 0 .. Capacity,
         \A d \in 0 .. n - 1 : b[Mask(Plus(r, d))] \in Items
  PROVE  /\ Window(b, r, n) \in Seq(Items)
         /\ Len(Window(b, r, n)) = n
         /\ \A i \in 1 .. n : Window(b, r, n)[i] = b[Mask(Plus(r, i - 1))]
<1>1. n \in Nat
  BY CapacityAssumption
<1> DEFINE f == [i \in 1 .. n |-> b[Mask(Plus(r, i - 1))]]
<1>0. f = Window(b, r, n)
  BY DEF Window
<1>2. f \in [1 .. n -> Items]
  <2> SUFFICES ASSUME NEW i \in 1 .. n
               PROVE  b[Mask(Plus(r, i - 1))] \in Items
    BY Zenon
  <2>1. i - 1 \in 0 .. n - 1
    BY <1>1
  <2> QED
    BY <2>1
<1>2a. \A i \in 1 .. n : f[i] = b[Mask(Plus(r, i - 1))]
  BY Zenon
<1> HIDE DEF f
<1>3. f \in Seq(Items)
  BY <1>1, <1>2, SeqDef
<1>4. Len(f) \in Nat /\ DOMAIN f = 1 .. Len(f)
  BY <1>3
<1>5. DOMAIN f = 1 .. n
  BY <1>2
<1>6. Len(f) = n
  <2>1. 1 .. Len(f) = 1 .. n
    BY <1>4, <1>5
  <2>2. ASSUME NEW x \in Nat, NEW y \in Nat, 1 .. x = 1 .. y
        PROVE  x = y
    <3>1. ASSUME x < y PROVE FALSE
      BY <2>2, <3>1
    <3>2. ASSUME y < x PROVE FALSE
      BY <2>2, <3>2
    <3> QED
      BY <3>1, <3>2
  <2> QED
    BY <2>1, <2>2, <1>1, <1>4, Zenon
<1> QED
  BY <1>0, <1>2a, <1>3, <1>6, Zenon

-----------------------------------------------------------------------------
(* The inductive invariant.                                                *)

IInv ==
  /\ TypeOK
  /\ Size \in 0 .. Capacity
  /\ writerPc # "idle" => Size < Capacity
  /\ readerPc # "idle" => Size > 0
  /\ writerPc = "advance" => buffer[Mask(writeCounter)] = item
  /\ readerPc = "advance" => val = buffer[Mask(readCounter)]
  /\ \A d \in 0 .. Size - 1 : buffer[Mask(Plus(readCounter, d))] \in Items

\* The initial state satisfies the invariant.
LEMMA InitInv == Init => IInv
<1> SUFFICES ASSUME Init PROVE IInv
  OBVIOUS
<1>1. 0 \in Counters /\ Size = 0
  BY ModulusFact DEF Init, Counters, Size, Distance
<1>2. TypeOK
  BY <1>1 DEF Init, TypeOK
<1> QED
  BY <1>1, <1>2, CapacityAssumption DEF Init, IInv

\* The steps that leave the counters alone leave Size alone.
LEMMA QuietSteps ==
  ASSUME IInv, PushFull \/ (\E v \in Items : PushTest(v)) \/ PopEmpty \/ PopTest
               \/ UNCHANGED vars
  PROVE  IInv' /\ UNCHANGED <<buffer, writeCounter, readCounter>>
<1>1. UNCHANGED <<buffer, writeCounter, readCounter>>
  BY DEF PushFull, PushTest, PopEmpty, PopTest, vars, writerVars, readerVars
<1>2. Size' = Size
  BY <1>1 DEF Size
<1>3. /\ writeCounter \in Counters /\ readCounter \in Counters
      /\ Size \in 0 .. Capacity
  BY DEF IInv, TypeOK
<1>4. ~ IsFull => Size < Capacity
  BY <1>3, CapacityAssumption DEF IsFull
<1>5. ~ IsEmpty => Size > 0
  BY <1>3, DistanceStep, CapacityAssumption DEF IsEmpty, Size
<1>6. TypeOK'
  BY <1>1 DEF IInv, TypeOK, PushFull, PushTest, PopEmpty, PopTest, vars, writerVars, readerVars
<1>7. /\ writerPc' # "idle" => Size' < Capacity
      /\ writerPc' = "advance" => buffer'[Mask(writeCounter')] = item'
  BY <1>1, <1>2, <1>4 DEF IInv, PushFull, PushTest, PopEmpty, PopTest, vars, writerVars, readerVars
<1>8. /\ readerPc' # "idle" => Size' > 0
      /\ readerPc' = "advance" => val' = buffer'[Mask(readCounter')]
  BY <1>1, <1>2, <1>5 DEF IInv, PushFull, PushTest, PopEmpty, PopTest, vars, writerVars, readerVars
<1>9. \A d \in 0 .. Size' - 1 : buffer'[Mask(Plus(readCounter', d))] \in Items
  BY <1>1, <1>2 DEF IInv
<1> QED
  BY <1>1, <1>2, <1>3, <1>6, <1>7, <1>8, <1>9 DEF IInv

\* push() stores its item in a slot the reader does not own.
LEMMA PushWriteInv ==
  ASSUME IInv, PushWrite
  PROVE  /\ IInv'
         /\ \A d \in 0 .. Size - 1 : Mask(Plus(readCounter, d)) # Mask(writeCounter)
<1>1. /\ writeCounter \in Counters /\ readCounter \in Counters
      /\ Size \in 0 .. Capacity /\ Size < Capacity
      /\ buffer \in [Slots -> Items \union {Nothing}] /\ item \in Items
  BY DEF IInv, TypeOK, PushWrite
<1>2. Plus(readCounter, Size) = writeCounter
  BY <1>1, DistanceStep DEF Size
<1>3. \A d \in 0 .. Size - 1 : Mask(Plus(readCounter, d)) # Mask(writeCounter)
  <2> TAKE d \in 0 .. Size - 1
  <2>1. /\ d \in 0 .. Capacity - 1 /\ Size \in 0 .. Capacity - 1 /\ d # Size
    BY <1>1, CapacityAssumption
  <2> QED
    BY <2>1, <1>1, <1>2, DifferentSlots
<1>4. Mask(writeCounter) \in Slots
  BY <1>1, PlusMask, CapacityAssumption
<1>5. \A d \in 0 .. Size - 1 : Mask(Plus(readCounter, d)) \in Slots
  <2> TAKE d \in 0 .. Size - 1
  <2>1. d \in 0 .. Capacity
    BY <1>1, CapacityAssumption
  <2>2. Plus(readCounter, d) \in Counters
    BY <2>1, <1>1, PlusMask
  <2> QED
    BY <2>2, PlusMask, CapacityAssumption
<1>6. /\ Size' = Size /\ readCounter' = readCounter /\ writeCounter' = writeCounter
      /\ readerPc' = readerPc /\ val' = val /\ item' = item /\ writerPc' = "advance"
      /\ popped' = popped /\ pushed' = pushed
      /\ buffer' = [buffer EXCEPT ![Mask(writeCounter)] = item]
  BY DEF PushWrite, Size, readerVars
<1>7. TypeOK'
  BY <1>1, <1>4, <1>6 DEF IInv, TypeOK
<1>8. buffer'[Mask(writeCounter)] = item
  BY <1>1, <1>4, <1>6
<1>9. \A d \in 0 .. Size - 1 :
        buffer'[Mask(Plus(readCounter, d))] = buffer[Mask(Plus(readCounter, d))]
  BY <1>1, <1>3, <1>5, <1>6
<1>10. readerPc = "advance" => val = buffer'[Mask(readCounter)]
  <2> SUFFICES ASSUME readerPc = "advance" PROVE val = buffer'[Mask(readCounter)]
    OBVIOUS
  <2>1. 0 \in 0 .. Size - 1 /\ val = buffer[Mask(readCounter)]
    BY <1>1 DEF IInv
  <2>2. Plus(readCounter, 0) = readCounter
    BY <1>1, ModulusFact DEF Plus, Counters
  <2> QED
    BY <2>1, <2>2, <1>9
<1> QED
  BY <1>1, <1>3, <1>6, <1>7, <1>8, <1>9, <1>10 DEF IInv

\* push() publishes the item it stored.
LEMMA PushAdvanceInv ==
  ASSUME IInv, PushAdvance
  PROVE  IInv' /\ Size' = Size + 1
<1>1. /\ writeCounter \in Counters /\ readCounter \in Counters
      /\ Size \in 0 .. Capacity /\ Size < Capacity
      /\ buffer[Mask(writeCounter)] = item /\ item \in Items
  BY DEF IInv, TypeOK, PushAdvance
<1>2. /\ writeCounter' = Plus(writeCounter, 1) /\ writerPc' = "idle" /\ pushed' = "ok"
      /\ buffer' = buffer /\ item' = item /\ readCounter' = readCounter
      /\ readerPc' = readerPc /\ val' = val /\ popped' = popped
  BY DEF PushAdvance, readerVars
<1>3. /\ Size' = Size + 1 /\ writeCounter' \in Counters
      /\ Plus(readCounter, Size) = writeCounter
  BY <1>1, <1>2, DistanceStep DEF Size
<1>4. TypeOK'
  BY <1>2, <1>3 DEF IInv, TypeOK
<1>5. \A d \in 0 .. Size' - 1 : buffer'[Mask(Plus(readCounter', d))] \in Items
  <2> TAKE d \in 0 .. Size' - 1
  <2>1. d \in 0 .. Size - 1 \/ d = Size
    BY <1>1, <1>3
  <2>2. CASE d \in 0 .. Size - 1
    BY <2>2, <1>2 DEF IInv
  <2>3. CASE d = Size
    BY <2>3, <1>1, <1>2, <1>3
  <2> QED
    BY <2>1, <2>2, <2>3
<1>6. readerPc' # "idle" => Size' > 0
  BY <1>1, <1>3
<1> QED
  BY <1>1, <1>2, <1>3, <1>4, <1>5, <1>6, CapacityAssumption DEF IInv

\* pop() copies the oldest item.
LEMMA PopReadInv ==
  ASSUME IInv, PopRead
  PROVE  IInv' /\ UNCHANGED <<buffer, writeCounter, readCounter>>
<1>1. /\ readCounter \in Counters /\ Size \in 0 .. Capacity /\ Size > 0
  BY DEF IInv, TypeOK, PopRead
<1>2. /\ val' = buffer[Mask(readCounter)] /\ readerPc' = "advance"
      /\ UNCHANGED <<buffer, writeCounter, readCounter, writerPc, item, pushed, popped>>
  BY DEF PopRead, writerVars
<1>3. Size' = Size
  BY <1>2 DEF Size
<1>4. Plus(readCounter, 0) = readCounter
  BY <1>1, ModulusFact DEF Plus, Counters
<1>5. buffer[Mask(readCounter)] \in Items
  BY <1>1, <1>4 DEF IInv
<1>6. TypeOK'
  BY <1>2, <1>5 DEF IInv, TypeOK
<1> QED
  BY <1>1, <1>2, <1>3, <1>6 DEF IInv

\* pop() gives the slot back.
LEMMA PopAdvanceInv ==
  ASSUME IInv, PopAdvance
  PROVE  /\ IInv' /\ Size' = Size - 1
         /\ \A d \in 0 .. Size - 1 : Plus(readCounter', d) = Plus(readCounter, d + 1)
<1>1. /\ writeCounter \in Counters /\ readCounter \in Counters
      /\ Size \in 0 .. Capacity /\ Size > 0
  BY DEF IInv, TypeOK, PopAdvance
<1>2. /\ readCounter' = Plus(readCounter, 1) /\ readerPc' = "idle" /\ popped' = val
      /\ UNCHANGED <<buffer, writeCounter, writerPc, item, pushed, val>>
  BY DEF PopAdvance, writerVars
<1>3. /\ Size' = Size - 1 /\ readCounter' \in Counters
      /\ \A d \in 0 .. Capacity : Plus(readCounter', d) = Plus(readCounter, d + 1)
  BY <1>1, <1>2, DistanceStep DEF Size
<1>4. TypeOK'
  BY <1>2, <1>3 DEF IInv, TypeOK, PopAdvance
<1>5. \A d \in 0 .. Size - 1 : Plus(readCounter', d) = Plus(readCounter, d + 1)
  BY <1>1, <1>3, CapacityAssumption
<1>6. \A d \in 0 .. Size' - 1 : buffer'[Mask(Plus(readCounter', d))] \in Items
  <2> TAKE d \in 0 .. Size' - 1
  <2>1. d \in 0 .. Size - 1 /\ d + 1 \in 0 .. Size - 1
    BY <1>1, <1>3
  <2> QED
    BY <2>1, <1>2, <1>5 DEF IInv
<1>7. writerPc' # "idle" => Size' < Capacity
  BY <1>1, <1>3, CapacityAssumption
<1> QED
  BY <1>1, <1>2, <1>3, <1>4, <1>5, <1>6, <1>7, CapacityAssumption DEF IInv

\* Every step keeps the invariant.
LEMMA StepInv == IInv /\ [Next]_vars => IInv'
<1> SUFFICES ASSUME IInv, [Next]_vars PROVE IInv'
  OBVIOUS
<1> QED
  BY QuietSteps, PushWriteInv, PushAdvanceInv, PopReadInv, PopAdvanceInv
     DEF Next, WriterNext, ReaderNext

\* The invariant always holds.
LEMMA Invariance == Spec => []IInv
<1> QED
  BY InitInv, StepInv, PTL DEF Spec

\* The types are right for every capacity and counter range: in particular a pop
\* that found the queue non-empty copies an item, never an empty slot.
THEOREM TypeCorrect == Spec => []TypeOK
<1>1. IInv => TypeOK
  BY DEF IInv
<1> QED
  BY <1>1, Invariance, PTL

\* No slot is ever written and read at once, for every capacity and counter range.
THEOREM RaceFree == Spec => []NoSlotRace
<1>1. IInv => NoSlotRace
  <2> SUFFICES ASSUME IInv, writerPc = "write", readerPc = "read",
                      Mask(writeCounter) = Mask(readCounter)
               PROVE  FALSE
    BY DEF NoSlotRace
  <2>1. /\ writeCounter \in Counters /\ readCounter \in Counters
        /\ Size \in 0 .. Capacity /\ Size < Capacity /\ Size > 0
    BY DEF IInv, TypeOK
  <2>2. Plus(readCounter, Size) = writeCounter
    BY <2>1, DistanceStep DEF Size
  <2>3. Plus(readCounter, 0) = readCounter
    BY <2>1, ModulusFact DEF Plus, Counters
  <2>4. Size \in 0 .. Capacity - 1 /\ 0 \in 0 .. Capacity - 1
    BY <2>1, CapacityAssumption
  <2>5. 0 = Size
    BY <2>1, <2>2, <2>3, <2>4, DifferentSlots
  <2> QED
    BY <2>1, <2>5
<1> QED
  BY <1>1, Invariance, PTL

-----------------------------------------------------------------------------
(* Refinement: push() takes effect when it advances writeCounter, pop()    *)
(* when it advances readCounter, a refusal when the counters are compared. *)

\* Contents as a sequence.
LEMMA ContentsFacts ==
  ASSUME IInv
  PROVE  /\ Contents \in Seq(Items) /\ Len(Contents) = Size
         /\ \A i \in 1 .. Size : Contents[i] = buffer[Mask(Plus(readCounter, i - 1))]
<1>1. readCounter \in Counters /\ Size \in 0 .. Capacity
  BY DEF IInv, TypeOK
<1>2. \A d \in 0 .. Size - 1 : buffer[Mask(Plus(readCounter, d))] \in Items
  BY DEF IInv
<1> QED
  BY <1>1, <1>2, WindowIsSeq DEF Contents

\* The facts about the contents hold after the step too.
LEMMA ContentsFactsAfter ==
  ASSUME IInv'
  PROVE  /\ Contents' \in Seq(Items) /\ Len(Contents') = Size'
         /\ \A i \in 1 .. Size' : Contents'[i] = buffer'[Mask(Plus(readCounter', i - 1))]
<1>1. readCounter' \in Counters /\ Size' \in 0 .. Capacity
  BY DEF IInv, TypeOK
<1>2. \A d \in 0 .. Size' - 1 : buffer'[Mask(Plus(readCounter', d))] \in Items
  BY DEF IInv
<1> QED
  BY <1>1, <1>2, WindowIsSeq DEF Contents

\* Storing the item does not change what the queue holds.
LEMMA PushWriteStutters ==
  ASSUME IInv, PushWrite
  PROVE  UNCHANGED Contents
<1>1. /\ Size' = Size /\ readCounter' = readCounter /\ Size \in 0 .. Capacity
      /\ readCounter \in Counters
      /\ buffer' = [buffer EXCEPT ![Mask(writeCounter)] = item]
      /\ buffer \in [Slots -> Items \union {Nothing}]
  BY DEF PushWrite, Size, IInv, TypeOK, readerVars
<1>2. \A i \in 1 .. Size : buffer'[Mask(Plus(readCounter, i - 1))]
                            = buffer[Mask(Plus(readCounter, i - 1))]
  <2> TAKE i \in 1 .. Size
  <2>1. i - 1 \in 0 .. Size - 1 /\ i - 1 \in 0 .. Capacity
    BY <1>1, CapacityAssumption
  <2>2. Mask(Plus(readCounter, i - 1)) # Mask(writeCounter)
    BY <2>1, PushWriteInv
  <2>3. Mask(Plus(readCounter, i - 1)) \in Slots
    <3>1. Plus(readCounter, i - 1) \in Counters
      BY <1>1, <2>1, PlusMask
    <3> QED
      BY <3>1, PlusMask, CapacityAssumption
  <2> QED
    BY <1>1, <2>2, <2>3
<1> QED
  BY <1>1, <1>2, Zenon DEF Contents, Window

\* The advance of the write counter puts an item.
LEMMA PushAdvancePuts ==
  ASSUME IInv, PushAdvance
  PROVE  Abstract!Put(item)
<1>1. /\ Size' = Size + 1 /\ readCounter' = readCounter /\ buffer' = buffer
      /\ Size \in Nat /\ Size < Capacity /\ item \in Items
      /\ buffer[Mask(writeCounter)] = item /\ Plus(readCounter, Size) = writeCounter
      /\ pushed' = "ok" /\ popped' = popped
  BY PushAdvanceInv, DistanceStep, CapacityAssumption
     DEF PushAdvance, IInv, TypeOK, readerVars, Size
<1>2. /\ Contents \in Seq(Items) /\ Len(Contents) = Size
      /\ \A i \in 1 .. Size : Contents[i] = buffer[Mask(Plus(readCounter, i - 1))]
  BY ContentsFacts
<1>3. /\ Contents' \in Seq(Items) /\ Len(Contents') = Size + 1
      /\ \A i \in 1 .. Size + 1 : Contents'[i] = buffer[Mask(Plus(readCounter, i - 1))]
  BY <1>1, PushAdvanceInv, ContentsFactsAfter, Zenon
<1>4. /\ Append(Contents, item) \in Seq(Items) /\ Len(Append(Contents, item)) = Size + 1
      /\ \A i \in 1 .. Size : Append(Contents, item)[i] = Contents[i]
      /\ Append(Contents, item)[Size + 1] = item
  BY <1>1, <1>2, AppendProperties
<1>5. ASSUME NEW i \in 1 .. Size + 1
      PROVE  Contents'[i] = Append(Contents, item)[i]
  <2>1. CASE i \in 1 .. Size
    BY <2>1, <1>2, <1>3, <1>4
  <2>2. CASE i = Size + 1
    <3>1. i - 1 = Size
      BY <1>1, <2>2
    <3>2. Contents'[i] = item
      BY <1>1, <1>3, <3>1, Zenon
    <3>3. Append(Contents, item)[i] = item
      BY <1>4, <2>2, Zenon
    <3> QED
      BY <3>2, <3>3
  <2>3. i \in 1 .. Size \/ i = Size + 1
    BY <1>1
  <2> QED
    BY <2>1, <2>2, <2>3, Zenon
<1>6. Contents' = Append(Contents, item)
  BY <1>3, <1>4, <1>5, SeqEqual
<1> QED
  BY <1>1, <1>2, <1>6 DEF Abstract!Put

\* The advance of the read counter takes one.
LEMMA PopAdvanceTakes ==
  ASSUME IInv, PopAdvance
  PROVE  Abstract!Take
<1>1. /\ Size' = Size - 1 /\ buffer' = buffer /\ Size \in Nat /\ Size > 0
      /\ val = buffer[Mask(readCounter)] /\ popped' = val /\ pushed' = pushed
      /\ readCounter \in Counters
      /\ \A d \in 0 .. Size - 1 : Plus(readCounter', d) = Plus(readCounter, d + 1)
  BY PopAdvanceInv, CapacityAssumption DEF PopAdvance, IInv, TypeOK, writerVars
<1>2. /\ Contents \in Seq(Items) /\ Len(Contents) = Size
      /\ \A i \in 1 .. Size : Contents[i] = buffer[Mask(Plus(readCounter, i - 1))]
  BY ContentsFacts
<1>3. Plus(readCounter, 0) = readCounter
  BY <1>1, ModulusFact DEF Plus, Counters
<1>4. /\ Contents # <<>> /\ Head(Contents) = Contents[1]
      /\ Tail(Contents) \in Seq(Items) /\ Len(Tail(Contents)) = Size - 1
      /\ \A i \in 1 .. Size - 1 : Tail(Contents)[i] = Contents[i + 1]
  <2>1. Contents # <<>> /\ Head(Contents) = Contents[1]
    BY <1>1, <1>2
  <2> QED
    BY <2>1, <1>1, <1>2, HeadTailProperties
<1>5. Head(Contents) = val
  BY <1>1, <1>2, <1>3, <1>4
<1>6. /\ Contents' \in Seq(Items) /\ Len(Contents') = Size - 1
      /\ \A i \in 1 .. Size - 1 : Contents'[i] = buffer[Mask(Plus(readCounter', i - 1))]
  BY <1>1, PopAdvanceInv, ContentsFactsAfter, Zenon
<1>7. ASSUME NEW i \in 1 .. Size - 1
      PROVE  Contents'[i] = Tail(Contents)[i]
  <2>1. /\ i - 1 \in 0 .. Size - 1 /\ i + 1 \in 1 .. Size
        /\ (i - 1) + 1 = i /\ (i + 1) - 1 = i
    BY <1>1
  <2>2. Plus(readCounter', i - 1) = Plus(readCounter, i)
    BY <1>1, <2>1
  <2>3. Contents[i + 1] = buffer[Mask(Plus(readCounter, i))]
    BY <1>2, <2>1
  <2> QED
    BY <2>2, <2>3, <1>4, <1>6
<1>8. Contents' = Tail(Contents)
  BY <1>4, <1>6, <1>7, SeqEqual
<1> QED
  BY <1>1, <1>4, <1>5, <1>8 DEF Abstract!Take

\* Every other step is a refusal, an empty answer or a stutter.
LEMMA QuietStepsMap ==
  ASSUME IInv, PushFull \/ (\E v \in Items : PushTest(v)) \/ PopEmpty \/ PopTest
               \/ UNCHANGED vars \/ PopRead
  PROVE  Abstract!Refuse \/ Abstract!FindEmpty \/ UNCHANGED Abstract!fifoVars
<1>1. UNCHANGED <<buffer, writeCounter, readCounter>>
  BY DEF PushFull, PushTest, PopEmpty, PopTest, PopRead, vars, writerVars, readerVars
<1>2. UNCHANGED Contents
  BY <1>1 DEF Contents, Size
<1>3. Contents \in Seq(Items) /\ Len(Contents) = Size
  BY ContentsFacts
<1>4. CASE PushFull
  BY <1>2, <1>3, <1>4 DEF PushFull, IsFull, Abstract!Refuse, readerVars
<1>5. CASE PopEmpty
  <2>1. Size = 0
    <3>1. /\ readCounter = writeCounter
          /\ readCounter \in Counters /\ writeCounter \in Counters
      BY <1>5 DEF PopEmpty, IsEmpty, IInv, TypeOK
    <3> QED
      BY <3>1, DistanceStep DEF Size
  <2>2. Contents = <<>>
    BY <1>3, <2>1
  <2> QED
    BY <1>2, <1>5, <2>2 DEF PopEmpty, Abstract!FindEmpty, writerVars
<1>6. CASE (\E v \in Items : PushTest(v)) \/ PopTest \/ PopRead \/ UNCHANGED vars
  BY <1>2, <1>6 DEF PushTest, PopTest, PopRead, vars, writerVars, readerVars, Abstract!fifoVars
<1> QED
  BY <1>4, <1>5, <1>6

\* LockFreeQueue with any capacity, any counter range and any items is a bounded FIFO:
\* what push() accepted comes out of pop() once, in order, and the answers "full"
\* and "empty" are true when they are given.
THEOREM Refines == Spec => IsFifo
<1>1. Init => Abstract!FifoInit
  <2> SUFFICES ASSUME Init PROVE Abstract!FifoInit
    OBVIOUS
  <2>1. Size = 0
    BY DEF Init, Size, Distance
  <2>2. IInv
    BY InitInv
  <2>3. Contents = <<>>
    BY <2>1, <2>2, ContentsFacts
  <2> QED
    BY <2>3 DEF Init, Abstract!FifoInit
<1>2. IInv /\ [Next]_vars => [Abstract!FifoNext]_Abstract!fifoVars
  <2> SUFFICES ASSUME IInv, [Next]_vars PROVE [Abstract!FifoNext]_Abstract!fifoVars
    OBVIOUS
  <2>1. CASE PushWrite
    BY <2>1, PushWriteStutters DEF PushWrite, readerVars, Abstract!fifoVars
  <2>2. CASE PushAdvance
    BY <2>2, PushAdvancePuts DEF Abstract!FifoNext, IInv, TypeOK, PushAdvance
  <2>3. CASE PopAdvance
    BY <2>3, PopAdvanceTakes DEF Abstract!FifoNext
  <2>4. CASE PushFull \/ (\E v \in Items : PushTest(v)) \/ PopEmpty \/ PopTest
             \/ UNCHANGED vars \/ PopRead
    BY <2>4, QuietStepsMap DEF Abstract!FifoNext
  <2> QED
    BY <2>1, <2>2, <2>3, <2>4 DEF Next, WriterNext, ReaderNext
<1> QED
  BY <1>1, <1>2, Invariance, PTL DEF Spec, IsFifo, Abstract!Fifo
=============================================================================
