--------------------------- MODULE RecorderProofs ---------------------------
(***************************************************************************)
(* The pool protocol of Recorder for every pool, queue capacity and number *)
(* of blocks.  The argument: block b is copied into buffer (b - 1) % Pool, *)
(* a buffer's content only gets newer, and two different blocks that share *)
(* a buffer are at least Pool blocks apart (SameBuffer).                   *)
(***************************************************************************)
EXTENDS RecordingPath, SequenceTheorems, TLAPS

-----------------------------------------------------------------------------
(* Quotients and remainders.                                               *)

\* Quotient and remainder.
LEMMA Division ==
  ASSUME NEW C \in Nat \ {0}, NEW m \in Int
  PROVE  m = C * (m \div C) + (m % C) /\ m % C \in 0 .. C - 1 /\ m \div C \in Int
BY SMT

\* A product is zero or at least as far from it as its first factor.
LEMMA ProductSign ==
  ASSUME NEW C \in Nat \ {0}, NEW x \in Int
  PROVE  /\ x >= 0 => C * x >= 0
         /\ x > 0 => C * x >= C
         /\ x < 0 => C * x <= -C
BY SMT

\* Quotient and remainder are unique.
LEMMA Unique ==
  ASSUME NEW C \in Nat \ {0}, NEW q \in Int, NEW r \in 0 .. C - 1
  PROVE  (C * q + r) \div C = q /\ (C * q + r) % C = r
<1> DEFINE d == (C * q + r) \div C
           s == (C * q + r) % C
<1>1. C * q + r = C * d + s /\ s \in 0 .. C - 1 /\ d \in Int
  <2>1. C * q + r \in Int
    BY SMT
  <2> QED  BY <2>1, Division
<1> HIDE DEF d, s
<1>2. C * (q - d) = C * q - C * d /\ q - d \in Int /\ C * q \in Int /\ C * d \in Int
  BY <1>1, SMT
<1>3. q - d = 0
  BY <1>1, <1>2, ProductSign, SMT
<1> QED  BY <1>1, <1>2, <1>3, SMT DEF d, s

\* Moving by q periods adds q to the quotient and leaves the remainder.
LEMMA Shift ==
  ASSUME NEW C \in Nat \ {0}, NEW q \in Int, NEW i \in Int
  PROVE  (C * q + i) \div C = q + (i \div C) /\ (C * q + i) % C = i % C
<1> DEFINE d == i \div C
           r == i % C
<1>1. i = C * d + r /\ r \in 0 .. C - 1 /\ d \in Int
  BY Division
<1> HIDE DEF d, r
<1>2. C * q + i = C * (q + d) + r /\ q + d \in Int
  BY <1>1, SMT
<1>3. (C * (q + d) + r) \div C = q + d /\ (C * (q + d) + r) % C = r
  BY <1>1, <1>2, Unique
<1> QED  BY <1>2, <1>3 DEF d, r

\* Two numbers with one remainder differ by at least the divisor.
LEMMA SameRemainder ==
  ASSUME NEW C \in Nat \ {0}, NEW x \in Int, NEW y \in Int, x > y, x % C = y % C
  PROVE  x >= y + C
<1> DEFINE u == x \div C
           v == y \div C
<1>1. x = C * u + (x % C) /\ y = C * v + (y % C) /\ x % C \in Int /\ u \in Int /\ v \in Int
  BY Division
<1> HIDE DEF u, v
<1>2. C * (u - v) = C * u - C * v /\ u - v \in Int /\ C * u \in Int /\ C * v \in Int
  BY <1>1, SMT
<1>3. C * (u - v) = x - y /\ (u - v > 0 \/ u - v = 0 \/ u - v < 0)
  BY <1>1, <1>2
<1> QED  BY <1>2, <1>3, ProductSign

\* Counting up by one wraps like the number itself.
LEMMA NextRemainder ==
  ASSUME NEW C \in Nat \ {0}, NEW x \in Int
  PROVE  ((x % C) + 1) % C = (x + 1) % C
<1> DEFINE u == x \div C
           s == x % C
<1>1. x = C * u + s /\ s \in 0 .. C - 1 /\ u \in Int
  BY Division
<1> HIDE DEF u, s
<1>2. x + 1 = C * u + (s + 1) /\ s + 1 \in Int
  BY <1>1, SMT
<1> QED  BY <1>1, <1>2, Shift DEF s

-----------------------------------------------------------------------------
(* The pool.                                                               *)

\* The buffer a block goes to.
BufferOf(b) == (b - 1) % Pool

\* Two blocks that share a buffer are a pool apart.
LEMMA SameBuffer ==
  ASSUME NEW x \in Nat, NEW y \in Nat, x > y, BufferOf(x) = BufferOf(y)
  PROVE  x >= y + Pool
<1>1. x - 1 \in Int /\ y - 1 \in Int /\ x - 1 > y - 1
  OBVIOUS
<1>2. (x - 1) % Pool = (y - 1) % Pool
  BY DEF BufferOf
<1>3. x - 1 >= y - 1 + Pool
  BY <1>1, <1>2, SameRemainder, PoolAssumption, Zenon
<1> QED
  BY <1>3, PoolAssumption

\* The buffer after the one of block b is that of block b + 1.
LEMMA NextBuffer ==
  ASSUME NEW b \in Nat
  PROVE  (BufferOf(b) + 1) % Pool = BufferOf(b + 1)
<1>1. b - 1 \in Int
  OBVIOUS
<1>2. (((b - 1) % Pool) + 1) % Pool = ((b - 1) + 1) % Pool
  BY <1>1, NextRemainder, PoolAssumption, Zenon
<1>3. (b - 1) + 1 = (b + 1) - 1
  OBVIOUS
<1> QED
  BY <1>2, <1>3, Zenon DEF BufferOf

-----------------------------------------------------------------------------
(* The elements of a queue.                                                *)

\* Appending adds the one element.
LEMMA ToSetAppend ==
  ASSUME NEW S, NEW s \in Seq(S), NEW e \in S
  PROVE  ToSet(Append(s, e)) \subseteq ToSet(s) \union {e}
<1>1. /\ Len(Append(s, e)) = Len(s) + 1 /\ Len(s) \in Nat
      /\ \A i \in 1 .. Len(s) : Append(s, e)[i] = s[i]
      /\ Append(s, e)[Len(s) + 1] = e
      /\ DOMAIN Append(s, e) = 1 .. Len(s) + 1 /\ DOMAIN s = 1 .. Len(s)
  BY AppendProperties, LenProperties
<1>2. ASSUME NEW i \in 1 .. Len(s) + 1
      PROVE  Append(s, e)[i] \in ToSet(s) \union {e}
  <2>1. i \in 1 .. Len(s) \/ i = Len(s) + 1
    BY <1>1
  <2>2. CASE i \in 1 .. Len(s)
    BY <1>1, <2>2, Zenon DEF ToSet
  <2>3. CASE i = Len(s) + 1
    BY <1>1, <2>3, Zenon
  <2> QED
    BY <2>1, <2>2, <2>3
<1> QED
  BY <1>1, <1>2, Zenon DEF ToSet

\* The tail has no others, and the head was one of them.
LEMMA ToSetTail ==
  ASSUME NEW S, NEW s \in Seq(S), s # <<>>
  PROVE  ToSet(Tail(s)) \subseteq ToSet(s) /\ Head(s) \in ToSet(s)
<1>1. /\ Tail(s) \in Seq(S) /\ Len(Tail(s)) = Len(s) - 1
      /\ \A i \in 1 .. Len(Tail(s)) : Tail(s)[i] = s[i + 1]
      /\ Len(s) \in Nat \ {0} /\ DOMAIN s = 1 .. Len(s)
      /\ DOMAIN Tail(s) = 1 .. Len(Tail(s))
  BY HeadTailProperties, LenProperties, EmptySeq
<1>2. \A i \in 1 .. Len(Tail(s)) : i + 1 \in DOMAIN s
  BY <1>1
<1>3. Head(s) = s[1] /\ 1 \in DOMAIN s
  BY <1>1
<1> QED
  BY <1>1, <1>2, <1>3, Zenon DEF ToSet

\* The elements are of the sequence's type.
LEMMA ToSetInItems ==
  ASSUME NEW S, NEW s \in Seq(S)
  PROVE  ToSet(s) \subseteq S
<1>1. DOMAIN s = 1 .. Len(s) /\ \A i \in 1 .. Len(s) : s[i] \in S
  BY LenProperties, ElementOfSeq
<1> QED
  BY <1>1, Zenon DEF ToSet

-----------------------------------------------------------------------------
(* The inductive invariant.                                                *)

Busy == audioPc # "idle"

PoolInv ==
  /\ counter = BufferOf(IF Busy THEN made ELSE made + 1)
  /\ Busy => made >= 1
  /\ \A s \in 0 .. Pool - 1 : pool[s] <= made /\ (pool[s] # 0 => BufferOf(pool[s]) = s)
  /\ audioPc = "push" => pool[counter] = made

UseInv ==
  \A e \in InUse :
    /\ e.slot = BufferOf(e.block) /\ e.block <= made /\ pool[e.slot] >= e.block
    /\ Busy => e.block < made

IInv == TypeOK /\ PoolInv /\ UseInv

\* Buffers in use are items.
LEMMA UseTypes == TypeOK => InUse \subseteq Items
<1> SUFFICES ASSUME TypeOK PROVE InUse \subseteq Items
  OBVIOUS
<1>1. ToSet(fifo) \subseteq Items
  BY ToSetInItems DEF TypeOK
<1>2. Held \subseteq Items
  BY DEF TypeOK
<1> QED
  BY <1>1, <1>2 DEF InUse

\* The initial state satisfies the invariant.
LEMMA InitInv == Init => IInv
<1> SUFFICES ASSUME Init PROVE IInv
  OBVIOUS
<1>1. ToSet(<<>>) = {}
  BY DEF ToSet
<1>2. InUse = {} /\ Held = {}
  BY <1>1 DEF Init, FifoInit, InUse, Held
<1>3. TypeOK
  BY <1>2, PoolAssumption, BlocksAssumption, CapacityAssumption DEF Init, FifoInit, TypeOK
<1>4. 0 % Pool = 0
  <2>1. 0 = Pool * 0 + 0 /\ 0 \in 0 .. Pool - 1
    BY PoolAssumption, SMT
  <2> QED
    BY <2>1, Unique, PoolAssumption
<1>5. PoolInv
  BY <1>4 DEF Init, PoolInv, Busy, BufferOf
<1> QED
  BY <1>2, <1>3, <1>5 DEF IInv, UseInv

\* What the file-writer thread does: a buffer leaves the queue for main(), then main().
LEMMA WriterStep ==
  ASSUME IInv, WriterNext
  PROVE  TypeOK' /\ InUse' \subseteq InUse /\ UNCHANGED audioVars
<1> USE DEF IInv
<1>1. CASE WriterPop
  <2>1. /\ writerPc = "poll" /\ writerPc' = "gate" /\ fifo # <<>>
        /\ popped' = Head(fifo) /\ fifo' = Tail(fifo)
        /\ UNCHANGED <<pushed, audioVars, loaded, last, uiVars>>
    BY <1>1 DEF WriterPop, Take
  <2>2. fifo \in Seq(Items)
    BY DEF TypeOK
  <2>3. /\ ToSet(Tail(fifo)) \subseteq ToSet(fifo) /\ Head(fifo) \in ToSet(fifo)
        /\ ToSet(fifo) \subseteq Items
    BY <2>1, <2>2, ToSetTail, ToSetInItems
  <2>4. Tail(fifo) \in Seq(Items) /\ Len(Tail(fifo)) = Len(fifo) - 1 /\ Len(fifo) \in Nat
    BY <2>1, <2>2, HeadTailProperties
  <2>5. Held' = {Head(fifo)}
    BY <2>1 DEF Held
  <2>6. TypeOK'
    BY <2>1, <2>3, <2>4, <2>5, CapacityAssumption DEF TypeOK, audioVars, uiVars
  <2> QED
    BY <2>1, <2>3, <2>5, <2>6 DEF InUse
<1>2. CASE WriterWake \/ WriterGate \/ WriterLoad \/ WriterWrite
  <2>1. UNCHANGED <<fifo, pushed, popped, audioVars, uiVars>>
    BY <1>2 DEF WriterWake, WriterGate, WriterLoad, WriterWrite, fifoVars
  <2>2. Held' \subseteq Held
    BY <1>2, <2>1 DEF WriterWake, WriterGate, WriterLoad, WriterWrite, Held
  <2>3. /\ writerPc' \in {"poll", "sleep", "gate", "load", "write"}
        /\ loaded' \in {"none", "current", "stale"}
    BY <1>2 DEF WriterWake, WriterGate, WriterLoad, WriterWrite, TypeOK
  <2>4. last' \in 0 .. MaxBlocks
    <3>1. CASE WriterWrite
      <4>1. popped \in Items
        BY <3>1 DEF WriterWrite, TypeOK, Held
      <4>2. popped.slot \in 0 .. Pool - 1
        BY <4>1, ItemsAssumption
      <4>3. last' = pool[popped.slot] \/ last' = last
        BY <3>1 DEF WriterWrite
      <4> QED
        BY <4>2, <4>3 DEF TypeOK
    <3> QED
      BY <1>2, <3>1 DEF WriterWake, WriterGate, WriterLoad, TypeOK
  <2>5. TypeOK'
    BY <2>1, <2>2, <2>3, <2>4 DEF TypeOK, audioVars, uiVars
  <2> QED
    BY <2>1, <2>2, <2>5 DEF InUse
<1>3. CASE WriterSleep
  <2>1. /\ fifo' = fifo /\ pushed' = pushed /\ popped' = Nothing /\ writerPc' = "sleep"
        /\ UNCHANGED <<audioVars, loaded, last, uiVars>>
    BY <1>3 DEF WriterSleep, FindEmpty
  <2>2. Held' = {}
    BY <2>1 DEF Held
  <2> QED
    BY <2>1, <2>2 DEF TypeOK, InUse, audioVars, uiVars
<1> QED
  BY <1>1, <1>2, <1>3 DEF WriterNext

\* The UI thread touches neither the queue nor the pool.
LEMMA UiStep ==
  ASSUME IInv, UiNext \/ UNCHANGED vars
  PROVE  TypeOK' /\ InUse' \subseteq InUse /\ UNCHANGED audioVars
<1>1. UNCHANGED <<fifoVars, audioVars, writerPc>>
  BY DEF UiNext, OpenFails, OpenEncoder, OpenDone, CloseGate, CloseFree, CloseNull,
         vars, writerVars
<1>2. UNCHANGED <<fifo, popped, writerPc>>
  BY <1>1 DEF fifoVars
<1>3. Held' = Held /\ InUse' = InUse
  BY <1>2 DEF Held, InUse
<1>4. /\ loaded' \in {"none", "current", "stale"} /\ last' \in 0 .. MaxBlocks
      /\ recording' \in {"on", "off"} /\ encoder' \in {"none", "live", "freed"}
      /\ uiPc' \in {"idle", "opening", "flush", "null"}
  BY BlocksAssumption
     DEF IInv, TypeOK, UiNext, OpenFails, OpenEncoder, OpenDone, CloseGate, CloseFree,
         CloseNull, vars, writerVars, uiVars
<1>5. TypeOK'
  BY <1>1, <1>3, <1>4 DEF IInv, TypeOK, fifoVars, audioVars
<1> QED
  BY <1>1, <1>3, <1>5

\* Whoever only takes buffers out of use keeps the invariant.
LEMMA OthersKeepInv ==
  ASSUME IInv, TypeOK', InUse' \subseteq InUse, UNCHANGED audioVars
  PROVE  IInv'
<1>1. UNCHANGED <<made, counter, pool, audioPc>>
  BY DEF audioVars
<1>2. PoolInv'
  BY <1>1 DEF IInv, PoolInv, Busy
<1>3. UseInv'
  BY <1>1 DEF IInv, UseInv, Busy
<1> QED
  BY <1>2, <1>3 DEF IInv

\* A block is begun: buffers in use are older than it.
LEMMA CopyBeginInv ==
  ASSUME IInv, CopyBegin
  PROVE  IInv'
<1>1. /\ audioPc = "idle" /\ audioPc' = "copy" /\ made < MaxBlocks /\ made' = made + 1
      /\ made \in Nat /\ MaxBlocks \in Nat
      /\ UNCHANGED <<fifo, pushed, popped, counter, pool, lapped, writerPc, loaded, last, uiVars>>
  BY BlocksAssumption DEF CopyBegin, fifoVars, writerVars, IInv, TypeOK
<1>2. InUse' = InUse /\ Held' = Held
  BY <1>1 DEF InUse, Held
<1>3. TypeOK'
  BY <1>1, <1>2 DEF IInv, TypeOK, uiVars
<1>4. PoolInv'
  BY <1>1, PoolAssumption DEF IInv, PoolInv, Busy, TypeOK
<1>5. UseInv'
  <2> SUFFICES ASSUME NEW e \in InUse
               PROVE  /\ e.slot = BufferOf(e.block) /\ e.block <= made' /\ pool[e.slot] >= e.block
                      /\ e.block < made'
    BY <1>1, <1>2 DEF UseInv
  <2>1. e.block \in Nat
    BY UseTypes, ItemsAssumption, BlocksAssumption DEF IInv
  <2> QED
    BY <1>1, <2>1 DEF IInv, UseInv
<1> QED
  BY <1>3, <1>4, <1>5 DEF IInv

\* The copy makes one buffer newer.
LEMMA CopyEndInv ==
  ASSUME IInv, CopyEnd
  PROVE  IInv'
<1>1. /\ audioPc = "copy" /\ audioPc' = "push"
      /\ pool' = [pool EXCEPT ![counter] = made] /\ lapped' \in {"no", "yes"}
      /\ UNCHANGED <<fifo, pushed, popped, made, counter, writerPc, loaded, last, uiVars>>
  BY DEF CopyEnd, fifoVars, writerVars, IInv, TypeOK
<1>2. InUse' = InUse /\ Held' = Held
  BY <1>1 DEF InUse, Held
<1>3. /\ made \in 0 .. MaxBlocks /\ made \in Nat /\ counter \in 0 .. Pool - 1
      /\ pool \in [0 .. Pool - 1 -> 0 .. MaxBlocks]
      /\ counter = BufferOf(made) /\ made >= 1
  BY <1>1, BlocksAssumption DEF IInv, TypeOK, PoolInv, Busy
<1>4. TypeOK'
  BY <1>1, <1>2, <1>3 DEF IInv, TypeOK, uiVars
<1>5. \A s \in 0 .. Pool - 1 : pool'[s] = IF s = counter THEN made ELSE pool[s]
  BY <1>1, <1>3
<1>6. PoolInv'
  <2>1. \A s \in 0 .. Pool - 1 : pool'[s] <= made /\ (pool'[s] # 0 => BufferOf(pool'[s]) = s)
    BY <1>3, <1>5 DEF IInv, PoolInv
  <2> QED
    BY <1>1, <1>3, <1>5, <2>1 DEF PoolInv, Busy
<1>7. UseInv'
  <2> SUFFICES ASSUME NEW e \in InUse
               PROVE  /\ e.slot = BufferOf(e.block) /\ e.block <= made /\ pool'[e.slot] >= e.block
                      /\ e.block < made
    BY <1>1, <1>2 DEF UseInv
  <2>1. e.slot \in 0 .. Pool - 1 /\ e.block \in Nat
    BY UseTypes, ItemsAssumption, BlocksAssumption DEF IInv
  <2>2. /\ e.slot = BufferOf(e.block) /\ e.block <= made /\ pool[e.slot] >= e.block
        /\ e.block < made
    BY <1>1 DEF IInv, UseInv, Busy
  <2> QED
    BY <1>3, <1>5, <2>1, <2>2
<1> QED
  BY <1>4, <1>6, <1>7 DEF IInv

\* The buffer that is queued holds the block it is queued with.
LEMMA PushBufferInv ==
  ASSUME IInv, PushBuffer
  PROVE  IInv'
<1> DEFINE e0 == [slot |-> counter, block |-> made]
<1>1. /\ audioPc = "push" /\ audioPc' = "idle" /\ counter' = NextCounter
      /\ popped' = popped
      /\ UNCHANGED <<made, pool, lapped, writerPc, loaded, last, uiVars>>
  BY DEF PushBuffer, Put, Refuse, writerVars
<1>2. /\ made \in 1 .. MaxBlocks /\ made \in Nat /\ counter \in 0 .. Pool - 1
      /\ counter = BufferOf(made) /\ pool[counter] = made
  BY <1>1, BlocksAssumption DEF IInv, TypeOK, PoolInv, Busy
<1>3. e0 \in Items
  BY <1>2, ItemsAssumption
<1>4. fifo \in Seq(Items) /\ Len(fifo) <= Capacity
  BY DEF IInv, TypeOK
<1>5. /\ fifo' \in Seq(Items) /\ Len(fifo') <= Capacity /\ pushed' \in {"ok", "full"}
      /\ ToSet(fifo') \subseteq ToSet(fifo) \union {e0}
  <2>1. CASE Put(e0)
    <3>1. /\ fifo' = Append(fifo, e0) /\ Len(fifo) < Capacity /\ pushed' = "ok"
          /\ Len(fifo) \in Nat
      BY <2>1, <1>4 DEF Put
    <3>2. /\ Append(fifo, e0) \in Seq(Items) /\ Len(Append(fifo, e0)) = Len(fifo) + 1
          /\ ToSet(Append(fifo, e0)) \subseteq ToSet(fifo) \union {e0}
      BY <1>3, <1>4, AppendProperties, ToSetAppend, Zenon
    <3> QED
      BY <3>1, <3>2, CapacityAssumption
  <2>2. CASE Refuse
    BY <2>2, <1>4 DEF Refuse
  <2> QED
    BY <2>1, <2>2 DEF PushBuffer
<1>6. Held' = Held /\ InUse' \subseteq InUse \union {e0}
  BY <1>1, <1>5 DEF Held, InUse
<1>7. counter' = BufferOf(made + 1) /\ counter' \in 0 .. Pool - 1
  <2>1. counter' = BufferOf(made + 1)
    BY <1>1, <1>2, NextBuffer, Zenon DEF NextCounter
  <2> QED
    BY <2>1, <1>2, Division, PoolAssumption DEF BufferOf
<1>8. TypeOK'
  BY <1>1, <1>5, <1>6, <1>7 DEF IInv, TypeOK, uiVars
<1>9. PoolInv'
  BY <1>1, <1>7 DEF IInv, PoolInv, Busy
<1>10. UseInv'
  <2> SUFFICES ASSUME NEW e \in InUse'
               PROVE  e.slot = BufferOf(e.block) /\ e.block <= made /\ pool[e.slot] >= e.block
    BY <1>1 DEF UseInv, Busy
  <2>1. CASE e \in InUse
    BY <2>1 DEF IInv, UseInv
  <2>2. CASE e = e0
    BY <2>2, <1>2
  <2> QED
    BY <1>6, <2>1, <2>2
<1> QED
  BY <1>8, <1>9, <1>10 DEF IInv

\* Every step keeps the invariant.
LEMMA StepInv == IInv /\ [Next]_vars => IInv'
<1> SUFFICES ASSUME IInv, [Next]_vars PROVE IInv'
  OBVIOUS
<1>1. CASE WriterNext
  BY <1>1, WriterStep, OthersKeepInv
<1>2. CASE UiNext \/ UNCHANGED vars
  BY <1>2, UiStep, OthersKeepInv
<1> QED
  BY <1>1, <1>2, CopyBeginInv, CopyEndInv, PushBufferInv DEF Next, AudioNext

\* The invariant always holds.
LEMMA Invariance == Spec => []IInv
<1> QED
  BY InitInv, StepInv, PTL DEF Spec

\* The types are right for every pool and capacity; encode() always has a buffer.
THEOREM TypeCorrect == Spec => []TypeOK
<1>1. IInv => TypeOK
  BY DEF IInv
<1> QED
  BY <1>1, Invariance, PTL

\* For every pool and queue: process() touches a buffer that is queued or being
\* encoded only when the file-writer thread is a whole pool of blocks behind.
THEOREM IntactSafe == Spec => []IntactUntilLapped
<1>1. IInv => IntactUntilLapped
  <2> SUFFICES ASSUME IInv, NEW e \in InUse,
                      (audioPc = "copy" /\ counter = e.slot) \/ pool[e.slot] # e.block
               PROVE  made >= e.block + Pool
    BY DEF IntactUntilLapped
  <2>1. /\ e.slot \in 0 .. Pool - 1 /\ e.block \in Nat /\ made \in Nat /\ e.block # 0
        /\ pool[e.slot] \in Nat
    BY UseTypes, ItemsAssumption, BlocksAssumption DEF IInv, TypeOK
  <2>2. /\ e.slot = BufferOf(e.block) /\ e.block <= made /\ pool[e.slot] >= e.block
        /\ (Busy => e.block < made)
    BY DEF IInv, UseInv
  <2>3. CASE audioPc = "copy" /\ counter = e.slot
    <3>1. made > e.block /\ BufferOf(made) = BufferOf(e.block)
      BY <2>1, <2>2, <2>3 DEF IInv, PoolInv, Busy
    <3> QED
      BY <3>1, <2>1, SameBuffer, Zenon
  <2>4. CASE pool[e.slot] # e.block
    <3>1. /\ pool[e.slot] > e.block /\ pool[e.slot] <= made
          /\ BufferOf(pool[e.slot]) = BufferOf(e.block)
      BY <2>1, <2>2, <2>4 DEF IInv, PoolInv
    <3>2. pool[e.slot] >= e.block + Pool
      BY <3>1, <2>1, SameBuffer, Zenon
    <3> QED
      BY <3>1, <3>2, <2>1, PoolAssumption
  <2> QED
    BY <2>3, <2>4
<1> QED
  BY <1>1, Invariance, PTL

-----------------------------------------------------------------------------
(* Freshness and order.  The last Pool blocks are in their buffers; the    *)
(* queue holds its blocks in order, those being encoded before those       *)
(* queued; and until a buffer is lapped, each holds its own block.         *)

\* The last block that is wholly in its buffer.
Copied == IF audioPc = "copy" THEN made - 1 ELSE made

RecentInv == \A s \in 0 .. Pool - 1 : pool[s] # 0 => pool[s] + Pool > Copied

Sorted(s) == \A i, j \in 1 .. Len(s) : i < j => s[i].block < s[j].block

OrderInv == Sorted(fifo) /\ \A h \in Held : \A e \in ToSet(fifo) : h.block < e.block

LastInv ==
  lapped = "no" =>
    /\ last <= made /\ (Busy => last < made)
    /\ \A e \in InUse : last < e.block /\ pool[e.slot] = e.block

SafeInv == IInv /\ RecentInv /\ OrderInv /\ LastInv

\* The block of an item is a positive number, its slot a buffer.
LEMMA ItemTypes ==
  ASSUME NEW e \in Items
  PROVE  e.slot \in 0 .. Pool - 1 /\ e.block \in Nat /\ e.block >= 1
  BY ItemsAssumption, BlocksAssumption

\* Two blocks just a pool apart share a buffer.
LEMMA PoolApart ==
  ASSUME NEW x \in Nat, NEW y \in Nat, x + Pool = y
  PROVE  BufferOf(x) = BufferOf(y)
<1>1. x - 1 \in Int /\ y - 1 = Pool * 1 + (x - 1)
  BY PoolAssumption
<1>2. ASSUME NEW i \in Int, NEW q \in Int
      PROVE  (Pool * q + i) % Pool = i % Pool
  BY <1>2, Shift, PoolAssumption, Zenon
<1>3. (Pool * 1 + (x - 1)) % Pool = (x - 1) % Pool
  <2>1. 1 \in Int
    OBVIOUS
  <2> QED
    BY <1>1, <1>2, <2>1, Zenon
<1> QED
  BY <1>1, <1>3, Zenon DEF BufferOf

\* Taking the first of a sorted queue leaves a sorted queue of greater blocks.
LEMMA TakeSorted ==
  ASSUME NEW s \in Seq(Items), s # <<>>, Sorted(s)
  PROVE  Sorted(Tail(s)) /\ \A e \in ToSet(Tail(s)) : Head(s).block < e.block
<1>1. /\ Tail(s) \in Seq(Items) /\ Len(Tail(s)) = Len(s) - 1
      /\ \A i \in 1 .. Len(Tail(s)) : Tail(s)[i] = s[i + 1]
      /\ Len(s) \in Nat \ {0} /\ Head(s) = s[1]
      /\ DOMAIN Tail(s) = 1 .. Len(Tail(s))
  BY HeadTailProperties, LenProperties, EmptySeq
<1>2. Sorted(Tail(s))
  <2> SUFFICES ASSUME NEW i \in 1 .. Len(Tail(s)), NEW j \in 1 .. Len(Tail(s)), i < j
               PROVE  Tail(s)[i].block < Tail(s)[j].block
    BY DEF Sorted
  <2>1. i + 1 \in 1 .. Len(s) /\ j + 1 \in 1 .. Len(s) /\ i + 1 < j + 1
    BY <1>1
  <2>2. s[i + 1].block < s[j + 1].block
    BY <2>1 DEF Sorted
  <2> QED
    BY <1>1, <2>2
<1>3. ASSUME NEW i \in 1 .. Len(Tail(s))
      PROVE  Head(s).block < Tail(s)[i].block
  <2>1. 1 \in 1 .. Len(s) /\ i + 1 \in 1 .. Len(s) /\ 1 < i + 1
    BY <1>1
  <2>2. s[1].block < s[i + 1].block
    BY <2>1 DEF Sorted
  <2> QED
    BY <1>1, <2>2
<1> QED
  BY <1>1, <1>2, <1>3, Zenon DEF ToSet

\* A greater block at the end keeps a queue sorted.
LEMMA PutSorted ==
  ASSUME NEW s \in Seq(Items), NEW v \in Items, Sorted(s), \A e \in ToSet(s) : e.block < v.block
  PROVE  Sorted(Append(s, v))
<1>1. /\ Len(Append(s, v)) = Len(s) + 1 /\ Len(s) \in Nat
      /\ \A i \in 1 .. Len(s) : Append(s, v)[i] = s[i]
      /\ Append(s, v)[Len(s) + 1] = v
      /\ DOMAIN s = 1 .. Len(s)
  BY AppendProperties, LenProperties
<1> SUFFICES ASSUME NEW i \in 1 .. Len(s) + 1, NEW j \in 1 .. Len(s) + 1, i < j
             PROVE  Append(s, v)[i].block < Append(s, v)[j].block
  BY <1>1, Zenon DEF Sorted
<1>2. i \in 1 .. Len(s) /\ (j \in 1 .. Len(s) \/ j = Len(s) + 1)
  BY <1>1
<1>3. s[i] \in ToSet(s)
  BY <1>1, <1>2, Zenon DEF ToSet
<1>4. CASE j \in 1 .. Len(s)
  BY <1>1, <1>2, <1>4, Zenon DEF Sorted
<1>5. CASE j = Len(s) + 1
  BY <1>1, <1>2, <1>3, <1>5, Zenon
<1> QED
  BY <1>2, <1>4, <1>5

\* A new path has no blocks.
LEMMA InitSafe == Init => SafeInv
<1> SUFFICES ASSUME Init PROVE SafeInv
  OBVIOUS
<1>1. ToSet(<<>>) = {} /\ Len(<<>>) = 0
  BY DEF ToSet
<1>2. InUse = {} /\ Held = {}
  BY <1>1 DEF Init, FifoInit, InUse, Held
<1>3. RecentInv
  BY DEF Init, RecentInv
<1>4. OrderInv
  BY <1>1, <1>2 DEF Init, FifoInit, OrderInv, Sorted
<1>5. LastInv
  BY <1>2 DEF Init, LastInv, Busy
<1> QED
  BY <1>3, <1>4, <1>5, InitInv DEF SafeInv

\* The other two threads leave the pool alone.
LEMMA OthersRecent == RecentInv /\ UNCHANGED audioVars => RecentInv'
  BY DEF RecentInv, Copied, audioVars

\* The audio thread leaves the writer's last block alone and takes nothing from it.
LEMMA CopyBeginSafe ==
  ASSUME SafeInv, CopyBegin
  PROVE  RecentInv' /\ OrderInv' /\ LastInv'
<1>1. /\ audioPc = "idle" /\ audioPc' = "copy" /\ made' = made + 1 /\ made \in Nat
      /\ UNCHANGED <<fifo, popped, pool, lapped, writerPc, last>>
  BY BlocksAssumption DEF CopyBegin, fifoVars, writerVars, SafeInv, IInv, TypeOK
<1>2. InUse' = InUse /\ Held' = Held
  BY <1>1 DEF InUse, Held
<1>3. RecentInv'
  BY <1>1 DEF SafeInv, RecentInv, Copied
<1>4. OrderInv'
  BY <1>1, <1>2 DEF SafeInv, OrderInv, Sorted
<1>5. last \in Nat
  BY BlocksAssumption DEF SafeInv, IInv, TypeOK
<1>6. LastInv'
  BY <1>1, <1>2, <1>5 DEF SafeInv, LastInv, Busy
<1> QED
  BY <1>3, <1>4, <1>6

\* The block a pool before is the one that is overwritten.
LEMMA CopyEndSafe ==
  ASSUME SafeInv, CopyEnd
  PROVE  RecentInv' /\ OrderInv' /\ LastInv'
<1>1. /\ audioPc = "copy" /\ audioPc' = "push"
      /\ pool' = [pool EXCEPT ![counter] = made]
      /\ lapped' = IF \E e \in InUse : e.slot = counter THEN "yes" ELSE lapped
      /\ UNCHANGED <<fifo, popped, made, writerPc, last>>
  BY DEF CopyEnd, fifoVars, writerVars
<1>2. InUse' = InUse /\ Held' = Held
  BY <1>1 DEF InUse, Held
<1>3. /\ made \in Nat /\ counter \in 0 .. Pool - 1 /\ counter = BufferOf(made)
      /\ pool \in [0 .. Pool - 1 -> 0 .. MaxBlocks]
  BY <1>1, BlocksAssumption DEF SafeInv, IInv, TypeOK, PoolInv, Busy
<1>4. \A s \in 0 .. Pool - 1 : pool'[s] = IF s = counter THEN made ELSE pool[s]
  BY <1>1, <1>3
<1>5. RecentInv'
  <2> SUFFICES ASSUME NEW s \in 0 .. Pool - 1, pool'[s] # 0
               PROVE  pool'[s] + Pool > made
    BY <1>1 DEF RecentInv, Copied
  <2>1. CASE s = counter
    BY <2>1, <1>3, <1>4, PoolAssumption
  <2>2. CASE s # counter
    <3>1. /\ pool'[s] = pool[s] /\ pool[s] \in Nat /\ pool[s] + Pool > made - 1
          /\ BufferOf(pool[s]) = s
      BY <1>1, <1>3, <1>4, <2>2, BlocksAssumption DEF SafeInv, RecentInv, Copied, IInv, PoolInv
    <3>2. pool[s] + Pool # made
      BY <3>1, <1>3, <2>2, PoolApart
    <3> QED
      BY <3>1, <3>2, <1>3, PoolAssumption
  <2> QED
    BY <2>1, <2>2
<1>6. OrderInv'
  BY <1>1, <1>2 DEF SafeInv, OrderInv, Sorted
<1>7. LastInv'
  <2> SUFFICES ASSUME lapped' = "no"
               PROVE  /\ last <= made /\ last < made
                      /\ \A e \in InUse : last < e.block /\ pool'[e.slot] = e.block
    BY <1>1, <1>2 DEF LastInv, Busy
  <2>1. lapped = "no" /\ \A e \in InUse : e.slot # counter
    BY <1>1
  <2>2. \A e \in InUse : e.slot \in 0 .. Pool - 1
    BY UseTypes, ItemTypes DEF SafeInv, IInv
  <2> QED
    BY <1>1, <1>4, <2>1, <2>2, Zenon DEF SafeInv, LastInv, Busy
<1> QED
  BY <1>5, <1>6, <1>7

\* A queued block is newer than all that are in use.
LEMMA PushBufferSafe ==
  ASSUME SafeInv, PushBuffer
  PROVE  RecentInv' /\ OrderInv' /\ LastInv'
<1> DEFINE e0 == [slot |-> counter, block |-> made]
<1>1. /\ audioPc = "push" /\ audioPc' = "idle" /\ popped' = popped
      /\ UNCHANGED <<made, pool, lapped, writerPc, last>>
  BY DEF PushBuffer, Put, Refuse, writerVars
<1>2. /\ made \in 1 .. MaxBlocks /\ counter \in 0 .. Pool - 1 /\ pool[counter] = made
      /\ fifo \in Seq(Items)
  BY <1>1, BlocksAssumption DEF SafeInv, IInv, TypeOK, PoolInv, Busy
<1>3. e0 \in Items
  BY <1>2, ItemsAssumption
<1>4. Held' = Held
  BY <1>1 DEF Held
<1>5. \A e \in InUse : e.block < made
  BY <1>1 DEF SafeInv, IInv, UseInv, Busy
<1>6. \A e \in ToSet(fifo) : e.block < e0.block
  BY <1>5 DEF InUse
<1>7. (fifo' = Append(fifo, e0) \/ fifo' = fifo)
  BY DEF PushBuffer, Put, Refuse
<1>8. ToSet(fifo') \subseteq ToSet(fifo) \union {e0} /\ Sorted(fifo')
  <2>1. Sorted(fifo)
    BY DEF SafeInv, OrderInv
  <2>2. ASSUME NEW v \in Items, \A e \in ToSet(fifo) : e.block < v.block
        PROVE  ToSet(Append(fifo, v)) \subseteq ToSet(fifo) \union {v} /\ Sorted(Append(fifo, v))
    BY <1>2, <2>1, <2>2, ToSetAppend, PutSorted, Zenon
  <2>3. ToSet(Append(fifo, e0)) \subseteq ToSet(fifo) \union {e0} /\ Sorted(Append(fifo, e0))
    BY <1>3, <1>6, <2>2
  <2> QED
    BY <1>7, <2>1, <2>3, Zenon
<1>9. RecentInv'
  BY <1>1 DEF SafeInv, RecentInv, Copied
<1>10. OrderInv'
  <2>1. \A h \in Held : h.block < made
    BY <1>5 DEF InUse
  <2>2. \A h \in Held : \A e \in ToSet(fifo') : h.block < e.block
    BY <1>8, <2>1 DEF SafeInv, OrderInv
  <2> QED
    BY <1>4, <1>8, <2>2 DEF OrderInv
<1>11. LastInv'
  <2>1. InUse' \subseteq InUse \union {e0}
    BY <1>4, <1>8 DEF InUse
  <2> SUFFICES ASSUME lapped = "no"
               PROVE  /\ last <= made
                      /\ \A e \in InUse' : last < e.block /\ pool[e.slot] = e.block
    BY <1>1 DEF LastInv, Busy
  <2>2. /\ last <= made /\ last < made
        /\ \A e \in InUse : last < e.block /\ pool[e.slot] = e.block
    BY <1>1 DEF SafeInv, LastInv, Busy
  <2>3. last < e0.block /\ pool[e0.slot] = e0.block
    BY <1>2, <2>2
  <2> QED
    BY <2>1, <2>2, <2>3
<1> QED
  BY <1>9, <1>10, <1>11

\* Buffers leave the queue in its order; what was encoded is before all that follow.
LEMMA WriterSafe ==
  ASSUME SafeInv, WriterNext
  PROVE  OrderInv' /\ LastInv'
<1> USE DEF SafeInv
<1>1. InUse' \subseteq InUse /\ UNCHANGED <<made, pool, audioPc, lapped>>
  BY WriterStep DEF audioVars
<1>2. CASE WriterPop
  <2>1. /\ writerPc = "poll" /\ writerPc' = "gate" /\ fifo # <<>> /\ last' = last
        /\ popped' = Head(fifo) /\ fifo' = Tail(fifo)
    BY <1>2 DEF WriterPop, Take
  <2>2. Sorted(fifo') /\ \A e \in ToSet(fifo') : Head(fifo).block < e.block
    BY <2>1, TakeSorted DEF IInv, TypeOK, OrderInv
  <2>3. Held' = {Head(fifo)}
    BY <2>1 DEF Held
  <2>4. OrderInv'
    BY <2>2, <2>3 DEF OrderInv
  <2>5. LastInv'
    BY <1>1, <2>1 DEF LastInv, Busy
  <2> QED
    BY <2>4, <2>5
<1>3. CASE WriterSleep \/ WriterWake \/ WriterGate \/ WriterLoad
  <2>1. fifo' = fifo /\ last' = last
    BY <1>3 DEF WriterSleep, FindEmpty, WriterWake, WriterGate, WriterLoad, fifoVars
  <2>2. Held' \subseteq Held
    BY <1>3 DEF WriterSleep, WriterWake, WriterGate, WriterLoad, Held, fifoVars
  <2>3. OrderInv'
    BY <2>1, <2>2 DEF OrderInv, Sorted
  <2>4. LastInv'
    BY <1>1, <2>1 DEF LastInv, Busy
  <2> QED
    BY <2>3, <2>4
<1>4. CASE WriterWrite
  <2>1. /\ writerPc = "write" /\ writerPc' = "poll" /\ fifo' = fifo /\ popped' = popped
        /\ last' = IF loaded = "current" THEN pool[popped.slot] ELSE last
    BY <1>4 DEF WriterWrite, fifoVars
  <2>2. Held = {popped} /\ Held' = {} /\ InUse' = ToSet(fifo) /\ popped \in InUse
    BY <2>1 DEF Held, InUse
  <2>3. OrderInv'
    BY <2>1, <2>2 DEF OrderInv, Sorted
  <2>4. LastInv'
    <3> SUFFICES ASSUME lapped = "no"
                 PROVE  /\ last' <= made /\ (Busy => last' < made)
                        /\ \A e \in ToSet(fifo) : last' < e.block /\ pool[e.slot] = e.block
      BY <1>1, <2>2 DEF LastInv, Busy
    <3>1. \A e \in ToSet(fifo) : last < e.block /\ pool[e.slot] = e.block
      BY DEF LastInv, InUse
    <3>2. /\ pool[popped.slot] = popped.block /\ popped.block <= made
          /\ (Busy => popped.block < made)
      BY <2>2 DEF LastInv, IInv, UseInv
    <3>3. \A e \in ToSet(fifo) : popped.block < e.block
      BY <2>2 DEF OrderInv
    <3>4. last <= made /\ (Busy => last < made)
      BY DEF LastInv
    <3> QED
      BY <2>1, <3>1, <3>2, <3>3, <3>4
  <2> QED
    BY <2>3, <2>4
<1> QED
  BY <1>2, <1>3, <1>4 DEF WriterNext

\* A new recording starts before all blocks.
LEMMA UiSafe ==
  ASSUME SafeInv, UiNext \/ UNCHANGED vars
  PROVE  OrderInv' /\ LastInv'
<1>1. UNCHANGED <<fifo, popped, made, pool, audioPc, lapped, writerPc>>
  BY DEF UiNext, OpenFails, OpenEncoder, OpenDone, CloseGate, CloseFree, CloseNull,
         vars, writerVars, fifoVars, audioVars
<1>2. Held' = Held /\ InUse' = InUse
  BY <1>1 DEF Held, InUse
<1>3. last' = last \/ last' = 0
  BY DEF UiNext, OpenFails, OpenEncoder, OpenDone, CloseGate, CloseFree, CloseNull,
         vars, writerVars
<1>4. OrderInv'
  BY <1>1, <1>2 DEF SafeInv, OrderInv, Sorted
<1>5. \A e \in InUse : 0 < e.block
  BY UseTypes, ItemTypes DEF SafeInv, IInv
<1>6. made \in Nat /\ (Busy => made >= 1)
  BY BlocksAssumption DEF SafeInv, IInv, TypeOK, PoolInv
<1>7. LastInv'
  BY <1>1, <1>2, <1>3, <1>5, <1>6 DEF SafeInv, LastInv, Busy
<1> QED
  BY <1>4, <1>7

\* Every step keeps the invariant.
LEMMA StepSafe == SafeInv /\ [Next]_vars => SafeInv'
<1> SUFFICES ASSUME SafeInv, [Next]_vars PROVE SafeInv'
  OBVIOUS
<1>1. IInv'
  BY StepInv DEF SafeInv
<1>2. CASE WriterNext
  BY <1>1, <1>2, WriterStep, WriterSafe, OthersRecent DEF SafeInv
<1>3. CASE UiNext \/ UNCHANGED vars
  BY <1>1, <1>3, UiStep, UiSafe, OthersRecent DEF SafeInv
<1> QED
  BY <1>1, <1>2, <1>3, CopyBeginSafe, CopyEndSafe, PushBufferSafe DEF Next, AudioNext, SafeInv

\* The invariant always holds.
LEMMA SafeInvariance == Spec => []SafeInv
<1> QED
  BY InitSafe, StepSafe, PTL DEF Spec

\* For every pool and queue: encode() is given a block of the last Pool ones, however
\* long the file-writer thread was held up.
THEOREM FreshSafe == Spec => []NeverStale
<1>1. SafeInv => NeverStale
  <2> SUFFICES ASSUME SafeInv, writerPc = "write"
               PROVE  pool[popped.slot] + Pool >= made
    BY DEF NeverStale
  <2>1. popped \in InUse /\ popped \in Items
    BY UseTypes DEF SafeInv, IInv, InUse, Held
  <2>2. popped.slot \in 0 .. Pool - 1 /\ popped.block \in Nat /\ popped.block >= 1
    BY <2>1, ItemTypes
  <2>3. pool[popped.slot] >= popped.block /\ pool[popped.slot] \in Nat /\ made \in Nat
    BY <2>1, <2>2, BlocksAssumption DEF SafeInv, IInv, UseInv, TypeOK
  <2>4. pool[popped.slot] + Pool > Copied
    BY <2>2, <2>3 DEF SafeInv, RecentInv
  <2> QED
    BY <2>3, <2>4, PoolAssumption DEF Copied
<1> QED
  BY <1>1, SafeInvariance, PTL

\* For every pool and queue: the blocks of one recording are encoded in their order and
\* none twice as long as no buffer has been lapped.
THEOREM OrderSafe == Spec => InOrder
<1>1. SafeInv /\ [Next]_vars =>
        [WriterWrite /\ loaded = "current" /\ lapped = "no" => last' > last]_vars
  <2> SUFFICES ASSUME SafeInv, WriterWrite, loaded = "current", lapped = "no"
               PROVE  last' > last
    OBVIOUS
  <2>1. popped \in InUse /\ last' = pool[popped.slot]
    BY DEF WriterWrite, InUse, Held
  <2>2. last < popped.block /\ pool[popped.slot] = popped.block
    BY <2>1 DEF SafeInv, LastInv
  <2> QED
    BY <2>1, <2>2
<1> QED
  BY <1>1, SafeInvariance, PTL DEF Spec, InOrder

-----------------------------------------------------------------------------
(* The path over the queue itself.                                         *)

\* Every step over the queue is a step of Recorder or none.
THEOREM PathIsRecorder == PathSpec => Spec
<1>1. PathInit => Init
  BY DEF PathInit
<1>2. [PathNext]_pathVars => [Next]_vars
  <2> SUFFICES ASSUME [PathNext]_pathVars PROVE [Next]_vars
    OBVIOUS
  <2>1. CASE PathAudio
    <3>1. CASE Q!PushTest([slot |-> counter, block |-> made]) \/ Q!PushWrite
      BY <2>1, <3>1 DEF PathAudio, Q!PushTest, Q!PushWrite, Q!readerVars, vars, fifoVars,
                        audioVars, AudioNext, Next, PushBuffer, CopyBegin, CopyEnd
    <3>2. CASE CopyBegin \/ CopyEnd \/ PushBuffer
      BY <3>2 DEF Next, AudioNext
    <3> QED
      BY <2>1, <3>1, <3>2 DEF PathAudio
  <2>2. CASE PathWriter
    <3>1. CASE UNCHANGED <<fifo, audioVars, writerVars, uiVars>> /\ (Q!PopTest \/ Q!PopRead)
      BY <3>1 DEF Q!PopTest, Q!PopRead, Q!writerVars, vars, fifoVars
    <3>2. CASE WriterNext
      BY <3>2 DEF Next
    <3> QED
      BY <2>2, <3>1, <3>2 DEF PathWriter, WriterNext
  <2>3. CASE PathUi
    BY <2>3 DEF PathUi, Next
  <2>4. CASE UNCHANGED pathVars
    BY <2>4 DEF pathVars
  <2> QED
    BY <2>1, <2>2, <2>3, <2>4 DEF PathNext
<1> QED
  BY <1>1, <1>2, PTL DEF PathSpec, Spec

\* Every step of the path is a step of the queue or leaves it alone, so that the
\* theorems about the queue hold of the one the two threads share.
THEOREM PathDrivesQueue == PathSpec => Q!Spec
<1>1. PathInit => Q!Init
  BY DEF PathInit
<1>2. IInv /\ [PathNext]_pathVars => [Q!Next]_(Q!vars)
  <2> SUFFICES ASSUME IInv, [PathNext]_pathVars PROVE [Q!Next]_(Q!vars)
    OBVIOUS
  <2>1. CASE UNCHANGED queueVars /\ UNCHANGED <<pushed, popped>>
    BY <2>1 DEF queueVars, Q!vars, Q!writerVars, Q!readerVars
  <2>2. CASE audioPc = "push" /\ Q!PushTest([slot |-> counter, block |-> made])
    <3>1. [slot |-> counter, block |-> made] \in Items
      BY <2>2, ItemsAssumption, BlocksAssumption DEF IInv, TypeOK, PoolInv, Busy
    <3> QED
      BY <2>2, <3>1 DEF Q!Next, Q!WriterNext
  <2>3. CASE Q!PushWrite \/ Q!PushAdvance \/ Q!PushFull
    BY <2>3 DEF Q!Next, Q!WriterNext
  <2>4. CASE Q!PopTest \/ Q!PopRead \/ Q!PopAdvance \/ Q!PopEmpty
    BY <2>4 DEF Q!Next, Q!ReaderNext
  <2> QED
    BY <2>1, <2>2, <2>3, <2>4
       DEF PathNext, PathAudio, PathWriter, PathUi, pathVars, vars, fifoVars, UiNext,
           OpenFails, OpenEncoder, OpenDone, CloseGate, CloseFree, CloseNull, CopyBegin,
           CopyEnd, WriterWake, WriterGate, WriterLoad, WriterWrite
<1> QED
  BY <1>1, <1>2, PathIsRecorder, Invariance, PTL DEF PathSpec, Q!Spec

-----------------------------------------------------------------------------
(* What is proved of the queue, for the queue of the path.                 *)

QP == INSTANCE LockFreeQueueProofs WITH writerPc <- pushPc, readerPc <- popPc

\* The queue of RecordingPath is the one LockFreeQueueProofs is about.
LEMMA SameQueue == Q!Spec => QP!Spec
<1>1. Q!Init => QP!Init
  BY DEF Q!Init, QP!Init, Q!Slots, QP!Slots
<1>2. Q!vars = QP!vars
  BY DEF Q!vars, QP!vars, Q!writerVars, QP!writerVars, Q!readerVars, QP!readerVars
<1>3. Q!WriterNext => QP!WriterNext
  BY DEF Q!WriterNext, QP!WriterNext, Q!PushFull, QP!PushFull, Q!PushTest, QP!PushTest,
         Q!PushWrite, QP!PushWrite, Q!PushAdvance, QP!PushAdvance, Q!IsFull, QP!IsFull,
         Q!Size, QP!Size, Q!Distance, QP!Distance, Q!Modulus, QP!Modulus, Q!Plus,
         QP!Plus, Q!Mask, QP!Mask, Q!readerVars, QP!readerVars
<1>4. Q!ReaderNext => QP!ReaderNext
  BY DEF Q!ReaderNext, QP!ReaderNext, Q!PopEmpty, QP!PopEmpty, Q!PopTest, QP!PopTest,
         Q!PopRead, QP!PopRead, Q!PopAdvance, QP!PopAdvance, Q!IsEmpty, QP!IsEmpty,
         Q!Modulus, QP!Modulus, Q!Plus, QP!Plus, Q!Mask, QP!Mask, Q!writerVars,
         QP!writerVars
<1>5. [Q!Next]_(Q!vars) => [QP!Next]_(QP!vars)
  BY <1>2, <1>3, <1>4 DEF Q!Next, QP!Next, Q!vars, QP!vars, Q!writerVars, QP!writerVars,
                          Q!readerVars, QP!readerVars
<1> QED
  BY <1>1, <1>5, PTL DEF Q!Spec, QP!Spec

\* The audio thread and the file-writer thread never meet in a slot of their queue.
THEOREM PathRaceFree == PathSpec => []NoSlotRace
<1>1. QP!Spec => []QP!NoSlotRace
  BY QP!RaceFree, NothingAssumption, LapsAssumption, CapacityAssumption, PTL
<1>2. QP!NoSlotRace <=> NoSlotRace
  BY DEF NoSlotRace, Q!NoSlotRace, QP!NoSlotRace, Q!Mask, QP!Mask
<1> QED
  BY <1>1, <1>2, SameQueue, PathDrivesQueue, PTL

\* What process() pushes and main() pops goes through a bounded FIFO.
THEOREM PathIsFifo == PathSpec => IsFifo
<1>1. QP!Spec => QP!IsFifo
  BY QP!Refines, NothingAssumption, LapsAssumption, CapacityAssumption, PTL
<1>2. QP!Contents = Q!Contents /\ QP!Contents' = Q!Contents'
  BY DEF QP!Contents, Q!Contents, QP!Window, Q!Window, QP!Size, Q!Size, QP!Distance,
         Q!Distance, QP!Modulus, Q!Modulus, QP!Plus, Q!Plus, QP!Mask, Q!Mask
<1>3. QP!Abstract!FifoInit => Q!Abstract!FifoInit
  BY <1>2 DEF QP!Abstract!FifoInit, Q!Abstract!FifoInit
<1>4. [QP!Abstract!FifoNext]_(QP!Abstract!fifoVars)
        => [Q!Abstract!FifoNext]_(Q!Abstract!fifoVars)
  BY <1>2 DEF QP!Abstract!FifoNext, Q!Abstract!FifoNext, QP!Abstract!fifoVars,
              Q!Abstract!fifoVars, QP!Abstract!Put, Q!Abstract!Put, QP!Abstract!Refuse,
              Q!Abstract!Refuse, QP!Abstract!Take, Q!Abstract!Take, QP!Abstract!FindEmpty,
              Q!Abstract!FindEmpty
<1>5. QP!IsFifo => IsFifo
  BY <1>3, <1>4, PTL DEF QP!IsFifo, IsFifo, Q!IsFifo, QP!Abstract!Fifo, Q!Abstract!Fifo
<1> QED
  BY <1>1, <1>5, SameQueue, PathDrivesQueue, PTL
=============================================================================
