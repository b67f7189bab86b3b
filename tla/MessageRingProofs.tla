-------------------------- MODULE MessageRingProofs --------------------------
(***************************************************************************)
(* The bytes of lv2_ringbuffer_t under the worker protocol: no byte is     *)
(* written and read at one time, and every message that is delivered is    *)
(* one that was sent.  The invariant describes the published bytes by how  *)
(* each determines its neighbours (Coherent) and where its message ends    *)
(* (EndsBy), since what the ring holds may begin and end inside a message. *)
(***************************************************************************)
EXTENDS MessageRing, SequenceTheorems, TLAPS

-----------------------------------------------------------------------------
(* Quotients and remainders.                                               *)

\* Quotient and remainder.
LEMMA Division ==
  ASSUME NEW C \in Nat \ {0}, NEW m \in Int
  PROVE  m = C * (m \div C) + (m % C) /\ m % C \in 0 .. C - 1 /\ m \div C \in Int
BY SMT

\* A product is zero or at least as far from it as its first factor.
LEMMA ProductSign ==
  ASSUME NEW C \in Nat \ {0}, NEW x \in Int
  PROVE  /\ x >= 0 => C * x >= 0
         /\ x > 0 => C * x >= C
         /\ x < 0 => C * x <= -C
BY SMT

\* Quotient and remainder are unique.
LEMMA Unique ==
  ASSUME NEW C \in Nat \ {0}, NEW q \in Int, NEW r \in 0 .. C - 1
  PROVE  (C * q + r) \div C = q /\ (C * q + r) % C = r
<1> DEFINE d == (C * q + r) \div C
           s == (C * q + r) % C
<1>1. C * q + r = C * d + s /\ s \in 0 .. C - 1 /\ d \in Int
  <2>1. C * q + r \in Int
    BY SMT
  <2> QED  BY <2>1, Division
<1> HIDE DEF d, s
<1>2. C * (q - d) = C * q - C * d /\ q - d \in Int /\ C * q \in Int /\ C * d \in Int
  BY <1>1, SMT
<1>3. q - d = 0
  BY <1>1, <1>2, ProductSign, SMT
<1> QED  BY <1>1, <1>2, <1>3, SMT DEF d, s

\* Moving by q periods adds q to the quotient and leaves the remainder.
LEMMA Shift ==
  ASSUME NEW C \in Nat \ {0}, NEW q \in Int, NEW i \in Int
  PROVE  (C * q + i) \div C = q + (i \div C) /\ (C * q + i) % C = i % C
<1> DEFINE d == i \div C
           r == i % C
<1>1. i = C * d + r /\ r \in 0 .. C - 1 /\ d \in Int
  BY Division
<1> HIDE DEF d, r
<1>2. C * q + i = C * (q + d) + r /\ q + d \in Int
  BY <1>1, SMT
<1>3. (C * (q + d) + r) \div C = q + d /\ (C * (q + d) + r) % C = r
  BY <1>1, <1>2, Unique
<1> QED  BY <1>2, <1>3 DEF d, r

\* Two numbers with one remainder differ by at least the divisor.
LEMMA SameRemainder ==
  ASSUME NEW C \in Nat \ {0}, NEW x \in Int, NEW y \in Int, x > y, x % C = y % C
  PROVE  x >= y + C
<1> DEFINE u == x \div C
           v == y \div C
<1>1. x = C * u + (x % C) /\ y = C * v + (y % C) /\ x % C \in Int /\ u \in Int /\ v \in Int
  BY Division
<1> HIDE DEF u, v
<1>2. C * (u - v) = C * u - C * v /\ u - v \in Int /\ C * u \in Int /\ C * v \in Int
  BY <1>1, SMT
<1>3. C * (u - v) = x - y /\ (u - v > 0 \/ u - v = 0 \/ u - v < 0)
  BY <1>1, <1>2
<1> QED  BY <1>2, <1>3, ProductSign

-----------------------------------------------------------------------------
(* The pointers.                                                           *)

\* The slot i bytes after x, where x may have wrapped.
At(x, i) == (x + i) % Size

\* The modulus leaves room for a full ring.
LEMMA ModulusFacts ==
  Modulus \in Nat \ {0} /\ Size < Modulus /\ (\A q \in Int : Modulus * q = Size * (Laps * q))
<1>1. Laps * Size >= 2 * Size
  BY SizeAssumption, LapsAssumption, SMT
<1>2. \A q \in Int : (Laps * Size) * q = Size * (Laps * q)
  BY SizeAssumption, LapsAssumption, SMT
<1> QED  BY <1>1, <1>2, SizeAssumption, LapsAssumption, SMT DEF Modulus

\* Wrapping first changes neither the pointer nor the slot that is reached later.
LEMMA Wrapped ==
  ASSUME NEW x \in Int, NEW i \in Int
  PROVE  /\ ((x % Modulus) + i) % Modulus = (x + i) % Modulus
         /\ At(x % Modulus, i) = At(x, i)
         /\ x % Modulus \in Pointers
<1> DEFINE q == x \div Modulus
           r == x % Modulus
<1>1. x = Modulus * q + r /\ r \in 0 .. Modulus - 1 /\ q \in Int
  BY ModulusFacts, Division
<1> HIDE DEF q, r
<1>2. Modulus * q = Size * (Laps * q) /\ Laps * q \in Int /\ r + i \in Int
  BY <1>1, ModulusFacts, LapsAssumption
<1>3. x + i = Modulus * q + (r + i) /\ x + i = Size * (Laps * q) + (r + i)
  BY <1>1, <1>2, ModulusFacts, SizeAssumption
<1>4. (Modulus * q + (r + i)) % Modulus = (r + i) % Modulus
  BY <1>1, <1>2, ModulusFacts, Shift, Zenon
<1>5. (Size * (Laps * q) + (r + i)) % Size = (r + i) % Size
  BY <1>2, SizeAssumption, Shift, Zenon
<1> QED  BY <1>1, <1>3, <1>4, <1>5, Zenon DEF q, r, At, Pointers

\* A number in range is its own remainder.
LEMMA InRange ==
  ASSUME NEW C \in Nat \ {0}, NEW r \in 0 .. C - 1
  PROVE  r % C = r
<1>1. C * 0 + r = r
  BY SMT
<1> QED  BY <1>1, Unique

\* Slots closer than the size of the ring differ.
LEMMA Apart ==
  ASSUME NEW x \in Int, NEW i \in Int, NEW j \in Int, i - j < Size, j - i < Size,
         At(x, i) = At(x, j)
  PROVE  i = j
<1>0. x + i \in Int /\ x + j \in Int
  OBVIOUS
<1>1. x + i > x + j => x + i >= x + j + Size
  BY <1>0, SameRemainder, SizeAssumption, Zenon DEF At
<1>2. x + j > x + i => x + j >= x + i + Size
  BY <1>0, SameRemainder, SizeAssumption, Zenon DEF At
<1> QED  BY <1>1, <1>2, SizeAssumption

\* What the two pointers tell: the space between them, and the slots on from them.
LEMMA PointerFacts ==
  ASSUME write_ptr \in Pointers, read_ptr \in Pointers
  PROVE  /\ read_space \in Nat
         /\ \A i \in Int : /\ Mask(Plus(read_ptr, i)) = At(read_ptr, i)
                           /\ Mask(Plus(write_ptr, i)) = At(read_ptr, read_space + i)
                           /\ At(read_ptr, i) \in 0 .. Size - 1
         /\ \A n \in Nat : /\ Plus(write_ptr, n) \in Pointers
                           /\ Plus(read_ptr, n) \in Pointers
                           /\ read_space + n <= Size =>
                                (Plus(write_ptr, n) - read_ptr) % Modulus = read_space + n
                           /\ n <= read_space =>
                                (write_ptr - Plus(read_ptr, n)) % Modulus = read_space - n
                           /\ \A i \in Int : At(Plus(read_ptr, n), i) = At(read_ptr, n + i)
<1> DEFINE d == write_ptr - read_ptr
<1>1. write_ptr \in Int /\ read_ptr \in Int /\ d \in Int /\ read_ptr + d = write_ptr
  BY ModulusFacts DEF Pointers
<1>2. read_space \in Nat /\ read_space < Modulus
  <2>1. d % Modulus \in 0 .. Modulus - 1
    BY <1>1, Division, ModulusFacts, Zenon
  <2> QED  BY <2>1, ModulusFacts DEF read_space
<1>3. ASSUME NEW i \in Int
      PROVE  /\ Mask(Plus(read_ptr, i)) = At(read_ptr, i)
             /\ Mask(Plus(write_ptr, i)) = At(read_ptr, read_space + i)
             /\ At(read_ptr, i) \in 0 .. Size - 1
  <2>1. ASSUME NEW p \in Int
        PROVE  Mask(Plus(p, i)) = At(p, i)
    <3>1. p + i \in Int /\ 0 \in Int /\ (p + i) + 0 = p + i
      BY ModulusFacts
    <3>2. At((p + i) % Modulus, 0) = At(p + i, 0) /\ (p + i) % Modulus \in Pointers
      BY <3>1, Wrapped, Zenon
    <3>3. ((p + i) % Modulus) + 0 = (p + i) % Modulus
      BY <3>2, ModulusFacts DEF Pointers
    <3> QED  BY <3>1, <3>2, <3>3, Zenon DEF Mask, Plus, At
  <2>2. At(read_ptr, read_space + i) = At(write_ptr, i)
    <3>1. At(d % Modulus, read_ptr + i) = At(d, read_ptr + i)
      <4>1. read_ptr + i \in Int
        BY <1>1
      <4> QED  BY <1>1, <4>1, Wrapped, Zenon
    <3>2. read_space + (read_ptr + i) = read_ptr + (read_space + i)
            /\ d + (read_ptr + i) = write_ptr + i
      BY <1>1, <1>2
    <3> QED  BY <3>1, <3>2 DEF At, read_space
  <2>3. (read_ptr + i) % Size \in 0 .. Size - 1
    <3>1. read_ptr + i \in Int
      BY <1>1
    <3> QED  BY <3>1, Division, SizeAssumption, Zenon
  <2> QED  BY <1>1, <2>1, <2>2, <2>3 DEF At
<1>4. ASSUME NEW n \in Nat
      PROVE  /\ Plus(write_ptr, n) \in Pointers
             /\ Plus(read_ptr, n) \in Pointers
             /\ read_space + n <= Size =>
                  (Plus(write_ptr, n) - read_ptr) % Modulus = read_space + n
             /\ n <= read_space =>
                  (write_ptr - Plus(read_ptr, n)) % Modulus = read_space - n
             /\ \A i \in Int : At(Plus(read_ptr, n), i) = At(read_ptr, n + i)
  <2>1. write_ptr + n \in Int /\ read_ptr + n \in Int /\ -read_ptr \in Int
    BY <1>1
  <2>2. Plus(write_ptr, n) \in Pointers /\ Plus(read_ptr, n) \in Pointers
    BY <2>1, Wrapped, Zenon DEF Plus
  <2>3. read_space + n <= Size => (Plus(write_ptr, n) - read_ptr) % Modulus = read_space + n
    <3>1. (((write_ptr + n) % Modulus) + (-read_ptr)) % Modulus
            = ((write_ptr + n) + (-read_ptr)) % Modulus
      BY <2>1, Wrapped, Zenon
    <3>2. ((d % Modulus) + n) % Modulus = (d + n) % Modulus
      BY <1>1, Wrapped
    <3>3. read_space + n <= Size => (read_space + n) % Modulus = read_space + n
      <4>1. read_space + n <= Size => read_space + n \in 0 .. Modulus - 1
        BY <1>2, ModulusFacts, SizeAssumption
      <4> QED  BY <4>1, ModulusFacts, InRange, Zenon
    <3>4. (write_ptr + n) + (-read_ptr) = d + n
      BY <1>1
    <3>5. ((write_ptr + n) % Modulus) + (-read_ptr) = ((write_ptr + n) % Modulus) - read_ptr
      BY <1>1, <2>1, ModulusFacts
    <3> QED  BY <3>1, <3>2, <3>3, <3>4, <3>5, Zenon DEF Plus, read_space
  <2>4. n <= read_space => (write_ptr - Plus(read_ptr, n)) % Modulus = read_space - n
    <3> DEFINE p == (read_ptr + n) % Modulus
               q == (read_ptr + n) \div Modulus
    <3>0. read_ptr + n = Modulus * q + p /\ p \in 0 .. Modulus - 1 /\ q \in Int
      BY <2>1, Division, ModulusFacts, Zenon
    <3> HIDE DEF p, q
    <3>1. read_ptr + n = Modulus * q + p /\ p \in Int /\ q \in Int /\ Modulus * q \in Int
      BY <3>0, ModulusFacts
    <3>2. write_ptr - p = Modulus * q + (d + (-n)) /\ d + (-n) \in Int /\ -n \in Int
      BY <1>1, <3>1
    <3>3. (Modulus * q + (d + (-n))) % Modulus = (d + (-n)) % Modulus
      BY <3>1, <3>2, ModulusFacts, Shift, Zenon
    <3>4. ((d % Modulus) + (-n)) % Modulus = (d + (-n)) % Modulus
      BY <1>1, <3>2, Wrapped, Zenon
    <3>5. n <= read_space => (read_space + (-n)) % Modulus = read_space - n
      <4>1. n <= read_space => read_space - n \in 0 .. Modulus - 1
              /\ read_space + (-n) = read_space - n
        BY <1>2, ModulusFacts
      <4> QED  BY <4>1, ModulusFacts, InRange, Zenon
    <3> QED  BY <3>2, <3>3, <3>4, <3>5, Zenon DEF read_space, Plus, p
  <2>5. \A i \in Int : At(Plus(read_ptr, n), i) = At(read_ptr, n + i)
    <3>1. \A i \in Int : (read_ptr + n) + i = read_ptr + (n + i)
      BY <1>1
    <3>2. \A i \in Int : At((read_ptr + n) % Modulus, i) = At(read_ptr + n, i)
      BY <2>1, Wrapped, Zenon
    <3> QED  BY <3>1, <3>2 DEF At, Plus
  <2> QED  BY <2>2, <2>3, <2>4, <2>5
<1> QED  BY <1>2, <1>3, <1>4

-----------------------------------------------------------------------------
(* The stream.                                                             *)

\* Byte k of a message is a pair.
IsByte(b) == b = <<b[1], b[2]>> /\ b[1] \in Messages /\ b[2] \in 1 .. Bytes(b[1])

\* Each of the first n bytes of c determines the others of its message among them.
Coherent(c, n) ==
  \A i \in 0 .. n - 1 :
    /\ IsByte(c[i])
    /\ \A j \in 0 .. n - 1 :
         c[i][2] + j - i \in 1 .. Bytes(c[i][1]) => c[j] = <<c[i][1], c[i][2] + j - i>>

\* Their messages end before n, but for m, which ends before e.
EndsBy(c, n, m, e) ==
  \A i \in 0 .. n - 1 :
    LET last == i + Bytes(c[i][1]) - c[i][2]
    IN  last < n \/ (c[i][1] = m /\ last = e - 1)

\* A message has a positive number of bytes.
LEMMA BytesNat ==
  ASSUME NEW m \in Messages
  PROVE  m.size \in Nat /\ Bytes(m) = Header + m.size /\ Bytes(m) \in Nat \ {0}
           /\ Header \in Nat \ {0}
BY MessagesAssumption, HeaderAssumption DEF Bytes

\* A coherent stream stays one when len bytes of m, of which h are its last, are added.
LEMMA Appended ==
  ASSUME NEW c, NEW d, NEW n \in Nat, NEW m \in Messages, NEW h \in Nat, NEW len \in Nat, NEW e,
         h + len <= Bytes(m), Coherent(c, n),
         e \in {n, n + Bytes(m) - h}, EndsBy(c, n, m, e),
         \A i \in 0 .. n - 1 : d[i] = c[i],
         \A i \in n .. n + len - 1 : d[i] = <<m, h + 1 + i - n>>,
         \A i \in 0 .. n - 1 : i >= n - h => c[i] = <<m, h + 1 + i - n>>
  PROVE  Coherent(d, n + len) /\ EndsBy(d, n + len, m, n + Bytes(m) - h)
<1>1. ASSUME NEW i \in 0 .. n + len - 1
      PROVE  /\ IsByte(d[i])
             /\ i < n => d[i] = c[i]
             /\ i >= n - h => d[i] = <<m, h + 1 + i - n>>
             /\ LET last == i + Bytes(d[i][1]) - d[i][2]
                IN  last < n \/ (d[i] = <<m, h + 1 + i - n>> /\ last = n + Bytes(m) - h - 1)
  <2>1. CASE i < n
    <3>1. i \in 0 .. n - 1 /\ d[i] = c[i] /\ IsByte(c[i])
      BY <2>1 DEF Coherent
    <3>2. c[i][1] \in Messages /\ c[i][2] \in Int /\ Bytes(c[i][1]) \in Nat /\ Bytes(m) \in Nat
      BY <3>1, BytesNat DEF IsByte
    <3>3. LET last == i + Bytes(c[i][1]) - c[i][2]
          IN  last < n \/ (c[i][1] = m /\ last = e - 1)
      BY <3>1 DEF EndsBy
    <3> QED  BY <3>1, <3>2, <3>3 DEF IsByte
  <2>2. CASE i >= n
    BY <2>2, BytesNat DEF IsByte
  <2> QED  BY <2>1, <2>2
<1>2. ASSUME NEW i \in 0 .. n + len - 1, NEW j \in 0 .. n + len - 1,
             d[i][2] + j - i \in 1 .. Bytes(d[i][1])
      PROVE  d[j] = <<d[i][1], d[i][2] + j - i>>
  <2>1. d[i][2] \in Int /\ Bytes(d[i][1]) \in Int /\ Bytes(m) \in Int
    BY <1>1, BytesNat DEF IsByte
  <2>2. CASE i < n /\ j < n
    BY <1>1, <1>2, <2>2 DEF Coherent
  <2>3. CASE d[i] = <<m, h + 1 + i - n>>
    <3>1. j >= n - h
      BY <1>2, <2>1, <2>3
    <3> QED  BY <1>1, <2>3, <3>1
  <2>4. CASE j >= n /\ i + Bytes(d[i][1]) - d[i][2] < n
    BY <1>2, <2>1, <2>4
  <2> QED  BY <1>1, <2>2, <2>3, <2>4
<1>3. Coherent(d, n + len)
  BY <1>1, <1>2 DEF Coherent
<1>4. ASSUME NEW i \in 0 .. (n + len) - 1
      PROVE  LET last == i + Bytes(d[i][1]) - d[i][2]
             IN  last < n + len \/ (d[i][1] = m /\ last = (n + Bytes(m) - h) - 1)
  <2>1. d[i][2] \in Int /\ Bytes(d[i][1]) \in Int /\ Bytes(m) \in Int
    BY <1>1, BytesNat DEF IsByte
  <2>2. i \in 0 .. n + len - 1
    OBVIOUS
  <2> QED  BY <1>1, <2>1, <2>2
<1>5. EndsBy(d, n + len, m, n + Bytes(m) - h)
  BY <1>4, Zenon DEF EndsBy
<1> QED  BY <1>3, <1>5

\* A coherent stream stays one when its first k bytes are taken.
LEMMA Taken ==
  ASSUME NEW c, NEW d, NEW n \in Nat, NEW k \in Nat, k <= n, NEW m, NEW e \in Int,
         Coherent(c, n), EndsBy(c, n, m, e),
         \A i \in 0 .. n - k - 1 : d[i] = c[k + i]
  PROVE  Coherent(d, n - k) /\ EndsBy(d, n - k, m, e - k)
<1>1. ASSUME NEW i \in 0 .. n - k - 1
      PROVE  /\ k + i \in 0 .. n - 1 /\ d[i] = c[k + i] /\ IsByte(c[k + i])
             /\ LET last == k + i + Bytes(c[k + i][1]) - c[k + i][2]
                IN  last < n \/ (c[k + i][1] = m /\ last = e - 1)
  BY DEF Coherent, EndsBy
<1>2. ASSUME NEW i \in 0 .. n - k - 1, NEW j \in 0 .. n - k - 1,
             d[i][2] + j - i \in 1 .. Bytes(d[i][1])
      PROVE  d[j] = <<d[i][1], d[i][2] + j - i>>
  <2>1. d[i][2] \in Int /\ d[i][2] + (k + j) - (k + i) = d[i][2] + j - i
    BY <1>1 DEF IsByte
  <2> QED  BY <1>1, <1>2, <2>1 DEF Coherent
<1>3. Coherent(d, n - k)
  BY <1>1, <1>2, Zenon DEF Coherent
<1>4. ASSUME NEW i \in 0 .. n - k - 1
      PROVE  LET last == i + Bytes(d[i][1]) - d[i][2]
             IN  last < n - k \/ (d[i][1] = m /\ last = (e - k) - 1)
  <2>1. d[i][2] \in Int /\ Bytes(d[i][1]) \in Int
    BY <1>1, BytesNat DEF IsByte
  <2> QED  BY <1>1, <2>1
<1>5. EndsBy(d, n - k, m, e - k)
  BY <1>4, Zenon DEF EndsBy
<1> QED  BY <1>3, <1>5

\* After the last byte of a message the first of another follows.
LEMMA NextBegins ==
  ASSUME NEW c, NEW n \in Nat, NEW k \in 1 .. n - 1, NEW m \in Messages,
         Coherent(c, n), c[k - 1] = <<m, Bytes(m)>>
  PROVE  c[k][2] = 1
<1>1. IsByte(c[k]) /\ k - 1 \in 0 .. n - 1 /\ k \in 0 .. n - 1
  BY DEF Coherent
<1>2. c[k][2] \in 1 .. Bytes(c[k][1]) /\ Bytes(c[k][1]) \in Nat /\ Bytes(m) \in Nat
  BY <1>1, BytesNat DEF IsByte
<1>3. CASE c[k][2] > 1
  <2>1. c[k][2] + (k - 1) - k = c[k][2] - 1 /\ c[k][2] - 1 \in 1 .. Bytes(c[k][1])
    BY <1>2, <1>3
  <2>2. c[k - 1] = <<c[k][1], c[k][2] - 1>>
    BY <1>1, <2>1 DEF Coherent
  <2>3. c[k][1] = m /\ c[k][2] - 1 = Bytes(m)
    BY <2>2
  <2> QED  BY <1>2, <2>3
<1> QED  BY <1>2, <1>3

-----------------------------------------------------------------------------
(* The messages that end in the stream.                                    *)

\* ends are the places among the first n bytes of c where a message ends, and w the
\* messages that end there.
Marks(c, n, w, ends) ==
  /\ ends \in [1 .. Len(w) -> 0 .. n - 1]
  /\ \A j, l \in 1 .. Len(w) : j < l => ends[j] < ends[l]
  /\ \A j \in 1 .. Len(w) : c[ends[j]] = <<w[j], Bytes(w[j])>>
  /\ \A i \in 0 .. n - 1 : c[i][2] = Bytes(c[i][1]) => \E j \in 1 .. Len(w) : ends[j] = i

\* A part of a message at the end of the stream marks nothing, its last byte marks it.
LEMMA MarksAppended ==
  ASSUME NEW c, NEW d, NEW n \in Nat, NEW m \in Messages, NEW h \in Nat, NEW len \in Nat,
         NEW w \in Seq(Messages), NEW ends, Marks(c, n, w, ends), h + len <= Bytes(m), len > 0,
         \A i \in 0 .. n - 1 : d[i] = c[i],
         \A i \in n .. n + len - 1 : d[i] = <<m, h + 1 + i - n>>
  PROVE  /\ h + len < Bytes(m) => Marks(d, n + len, w, ends)
         /\ h + len = Bytes(m) => \E e : Marks(d, n + len, Append(w, m), e)
<1>1. Bytes(m) \in Nat /\ Len(w) \in Nat
  BY BytesNat
<1>2. \A i \in 0 .. (n + len) - 1 : i \in 0 .. n - 1 \/ i \in n .. n + len - 1
  OBVIOUS
<1>3. \A j \in 1 .. Len(w) : ends[j] \in 0 .. n - 1 /\ d[ends[j]] = <<w[j], Bytes(w[j])>>
  BY DEF Marks
<1>4. \A i \in 0 .. n - 1 : d[i][2] = Bytes(d[i][1]) => \E j \in 1 .. Len(w) : ends[j] = i
  BY DEF Marks
<1>5. \A i \in n .. n + len - 1 : d[i][2] = Bytes(d[i][1]) <=> h + 1 + i - n = Bytes(m)
  OBVIOUS
<1>6. ASSUME h + len < Bytes(m)
      PROVE  Marks(d, n + len, w, ends)
  <2>1. ends \in [1 .. Len(w) -> 0 .. (n + len) - 1]
    BY DEF Marks
  <2>2. ASSUME NEW i \in 0 .. (n + len) - 1, d[i][2] = Bytes(d[i][1])
        PROVE  \E j \in 1 .. Len(w) : ends[j] = i
    <3>1. i \notin n .. n + len - 1
      BY <1>1, <1>5, <1>6, <2>2
    <3> QED  BY <1>2, <1>4, <2>2, <3>1
  <2> QED  BY <1>3, <2>1, <2>2 DEF Marks
<1>7. ASSUME h + len = Bytes(m)
      PROVE  \E e : Marks(d, n + len, Append(w, m), e)
  <2> DEFINE v == Append(w, m)
             e == [j \in 1 .. Len(v) |-> IF j = Len(v) THEN (n + len) - 1 ELSE ends[j]]
  <2>1. /\ Len(v) = Len(w) + 1 /\ v[Len(v)] = m
        /\ \A j \in 1 .. Len(v) : j # Len(v) => j \in 1 .. Len(w) /\ v[j] = w[j]
    BY <1>1
  <2> HIDE DEF v
  <2>2. e \in [1 .. Len(v) -> 0 .. (n + len) - 1]
    BY <1>1, <1>3, <2>1
  <2>3. \A j, l \in 1 .. Len(v) : j < l => e[j] < e[l]
    <3>1. \A j, l \in 1 .. Len(w) : j < l => ends[j] < ends[l]
      BY DEF Marks
    <3> QED  BY <1>1, <1>3, <2>1, <3>1
  <2>4. d[(n + len) - 1] = <<m, Bytes(m)>>
    BY <1>1, <1>7
  <2>5. \A j \in 1 .. Len(v) : d[e[j]] = <<v[j], Bytes(v[j])>>
    BY <1>1, <1>3, <2>1, <2>4
  <2>6. ASSUME NEW i \in 0 .. (n + len) - 1, d[i][2] = Bytes(d[i][1])
        PROVE  \E j \in 1 .. Len(v) : e[j] = i
    <3>1. CASE i \in 0 .. n - 1
      <4>1. PICK j \in 1 .. Len(w) : ends[j] = i
        BY <1>4, <2>6, <3>1
      <4>2. j \in 1 .. Len(v) /\ j # Len(v)
        BY <1>1, <2>1
      <4> QED  BY <4>1, <4>2
    <3>2. CASE i \in n .. n + len - 1
      <4>1. i = (n + len) - 1
        BY <1>1, <1>5, <1>7, <2>6, <3>2
      <4> QED  BY <1>1, <2>1, <4>1
    <3> QED  BY <1>2, <3>1, <3>2
  <2> HIDE DEF e
  <2>7. Marks(d, n + len, v, e)
    BY <2>2, <2>3, <2>5, <2>6 DEF Marks
  <2> QED  BY <2>7 DEF v
<1> QED  BY <1>6, <1>7

\* What is behind the first element of a sequence.
LEMMA Later ==
  ASSUME NEW S, NEW w \in Seq(S), Len(w) >= 1
  PROVE  /\ SubSeq(w, 2, Len(w)) = Tail(w) /\ Tail(w) \in Seq(S)
         /\ Len(SubSeq(w, 2, Len(w))) = Len(w) - 1
         /\ \A l \in 1 .. Len(w) - 1 : SubSeq(w, 2, Len(w))[l] = w[l + 1]
<1>1. w # <<>>
  OBVIOUS
<1>2. /\ Tail(w) \in Seq(S) /\ Len(Tail(w)) = Len(w) - 1
      /\ \A l \in 1 .. Len(Tail(w)) : Tail(w)[l] = w[l + 1]
  BY <1>1, HeadTailProperties
<1>3. Tail(w) = SubSeq(w, 2, Len(w))
  BY <1>1, TailIsSubSeq
<1> QED  BY <1>2, <1>3, Zenon

\* A message that is taken is the first one that is marked; a part of it leaves the marks.
LEMMA MarksTaken ==
  ASSUME NEW c, NEW d, NEW n \in Nat, NEW m \in Messages, NEW k \in 1 .. n,
         NEW w \in Seq(Messages), NEW ends, Marks(c, n, w, ends),
         \A i \in 0 .. k - 2 : c[i][2] # Bytes(c[i][1]),
         \A i \in 0 .. n - k - 1 : d[i] = c[k + i]
  PROVE  /\ c[k - 1][2] # Bytes(c[k - 1][1]) => \E e : Marks(d, n - k, w, e)
         /\ c[k - 1] = <<m, Bytes(m)>> =>
              /\ w # <<>> /\ Head(w) = m
              /\ \E e : Marks(d, n - k, SubSeq(w, 2, Len(w)), e)
<1>1. Len(w) \in Nat
        /\ \A j \in 1 .. Len(w) : ends[j] \in 0 .. n - 1 /\ c[ends[j]] = <<w[j], Bytes(w[j])>>
  BY DEF Marks
<1>2. \A j, l \in 1 .. Len(w) : j < l => ends[j] < ends[l]
  BY DEF Marks
<1>3. \A i \in 0 .. n - 1 : c[i][2] = Bytes(c[i][1]) => \E j \in 1 .. Len(w) : ends[j] = i
  BY DEF Marks
<1>4. \A j \in 1 .. Len(w) : ends[j] >= k - 1
  <2>1. ASSUME NEW j \in 1 .. Len(w), ends[j] \in 0 .. k - 2
        PROVE  FALSE
    <3>1. c[ends[j]] = <<w[j], Bytes(w[j])>> /\ c[ends[j]][2] # Bytes(c[ends[j]][1])
      BY <1>1, <2>1
    <3> QED  BY <3>1
  <2> QED  BY <1>1, <2>1
<1>5. \A i \in 0 .. (n - k) - 1 : k + i \in 0 .. n - 1 /\ d[i] = c[k + i]
  OBVIOUS
<1>6. ASSUME c[k - 1][2] # Bytes(c[k - 1][1])
      PROVE  \E e : Marks(d, n - k, w, e)
  <2> DEFINE e == [j \in 1 .. Len(w) |-> ends[j] - k]
  <2>1. \A j \in 1 .. Len(w) : ends[j] >= k
    <3>1. ASSUME NEW j \in 1 .. Len(w), ends[j] = k - 1
          PROVE  FALSE
      <4>1. c[k - 1] = <<w[j], Bytes(w[j])>>
        BY <1>1, <3>1
      <4> QED  BY <1>6, <4>1
    <3> QED  BY <1>1, <1>4, <3>1
  <2>2. \A j \in 1 .. Len(w) : e[j] \in 0 .. (n - k) - 1 /\ k + e[j] = ends[j]
    BY <1>1, <2>1
  <2>3. e \in [1 .. Len(w) -> 0 .. (n - k) - 1]
    BY <2>2
  <2>4. \A j, l \in 1 .. Len(w) : j < l => e[j] < e[l]
    BY <1>1, <1>2
  <2>5. \A j \in 1 .. Len(w) : d[e[j]] = <<w[j], Bytes(w[j])>>
    BY <1>1, <1>5, <2>2
  <2>6. ASSUME NEW i \in 0 .. (n - k) - 1, d[i][2] = Bytes(d[i][1])
        PROVE  \E j \in 1 .. Len(w) : e[j] = i
    <3>1. PICK j \in 1 .. Len(w) : ends[j] = k + i
      BY <1>3, <1>5, <2>6
    <3> QED  BY <3>1
  <2> HIDE DEF e
  <2>7. Marks(d, n - k, w, e)
    BY <2>3, <2>4, <2>5, <2>6 DEF Marks
  <2> QED  BY <2>7
<1>7. ASSUME c[k - 1] = <<m, Bytes(m)>>
      PROVE  /\ w # <<>> /\ Head(w) = m
             /\ \E e : Marks(d, n - k, SubSeq(w, 2, Len(w)), e)
  <2> DEFINE v == SubSeq(w, 2, Len(w))
             e == [j \in 1 .. Len(v) |-> ends[j + 1] - k]
  <2>1. k - 1 \in 0 .. n - 1 /\ c[k - 1][2] = Bytes(c[k - 1][1])
    BY <1>7
  <2>2. PICK j \in 1 .. Len(w) : ends[j] = k - 1
    BY <1>3, <2>1
  <2>3. 1 \in 1 .. Len(w) /\ ends[1] = k - 1
    BY <1>1, <1>2, <1>4, <2>2
  <2>4. w # <<>> /\ Head(w) = m
    <3>1. w[1] = m
      BY <1>1, <1>7, <2>3
    <3> QED  BY <2>3, <3>1
  <2>5. Len(v) = Len(w) - 1 /\ \A l \in 1 .. Len(v) : v[l] = w[l + 1] /\ l + 1 \in 1 .. Len(w)
    BY <1>1, <2>3, Later
  <2> HIDE DEF v
  <2>6. \A l \in 1 .. Len(v) : e[l] \in 0 .. (n - k) - 1 /\ k + e[l] = ends[l + 1]
          /\ l + 1 \in 1 .. Len(w)
    <3>1. \A l \in 1 .. Len(v) : ends[l + 1] > ends[1]
      BY <1>1, <1>2, <2>3, <2>5
    <3> QED  BY <1>1, <2>3, <2>5, <3>1
  <2>7. e \in [1 .. Len(v) -> 0 .. (n - k) - 1]
    BY <2>6
  <2>8. \A i, l \in 1 .. Len(v) : i < l => e[i] < e[l]
    BY <1>1, <1>2, <2>5
  <2>9. ASSUME NEW l \in 1 .. Len(v)
        PROVE  d[e[l]] = <<v[l], Bytes(v[l])>>
    <3>1. d[e[l]] = c[ends[l + 1]]
      BY <1>5, <2>6
    <3> QED  BY <1>1, <2>5, <3>1
  <2>10. ASSUME NEW i \in 0 .. (n - k) - 1, d[i][2] = Bytes(d[i][1])
         PROVE  \E l \in 1 .. Len(v) : e[l] = i
    <3>1. PICK l \in 1 .. Len(w) : ends[l] = k + i
      BY <1>3, <1>5, <2>10
    <3>2. l # 1 /\ l - 1 \in 1 .. Len(v) /\ (l - 1) + 1 = l
      BY <1>1, <2>3, <2>5, <3>1
    <3>3. e[l - 1] = ends[(l - 1) + 1] - k
      BY <3>2
    <3> QED  BY <3>1, <3>2, <3>3
  <2> HIDE DEF e
  <2>11. Marks(d, n - k, v, e)
    BY <2>7, <2>8, <2>9, <2>10 DEF Marks
  <2> QED  BY <2>4, <2>11 DEF v
<1> QED  BY <1>6, <1>7

-----------------------------------------------------------------------------
(* The invariant.                                                          *)

Sending   == {"header", "headerCopied"}
Finishing == {"body", "bodyCopied"}

\* The published bytes, oldest first, and the slots on from the oldest.
Ahead(i) == At(read_ptr, i)
Content  == [i \in 0 .. read_space - 1 |-> buf[Ahead(i)]]

\* Where the last published message ends, once its header is published.
Promised == IF writerPc \in Finishing THEN read_space + out.size ELSE read_space

TypeOK ==
  /\ buf = [s \in 0 .. Size - 1 |-> buf[s]]
  /\ write_ptr \in Pointers /\ read_ptr \in Pointers /\ sent \in Nat
  /\ writerPc \in {"idle"} \union Sending \union Finishing
  /\ writerPc # "idle" => out \in Messages
  /\ answer \in {"ok", "full"}
  /\ readerPc \in {"idle", "peek", "look", "header", "body", "bodyCopied"}
  /\ readerPc \notin {"idle", "peek"} => in \in Messages
  /\ delivered \in Messages \union {Nothing}

\* The space that was tested is still there.
SpaceInv ==
  /\ read_space <= Size
  /\ writerPc \in Sending => read_space + Bytes(out) <= Size
  /\ writerPc \in Finishing => read_space + out.size <= Size

\* What write() has copied and not yet published.
CopiedInv ==
  /\ writerPc = "headerCopied" =>
       sent = Header /\ \A k \in 1 .. Header : buf[Ahead(read_space + (k - 1))] = <<out, k>>
  /\ writerPc = "bodyCopied" =>
       sent = out.size
         /\ \A k \in 1 .. out.size : buf[Ahead(read_space + (k - 1))] = <<out, Header + k>>

\* The published bytes are whole messages but for the two at the ends.
StreamInv == Coherent(Content, read_space) /\ EndsBy(Content, read_space, out, Promised)

\* The receiver leaves a header whose body is missing alone.
TailInv ==
  writerPc \in Finishing =>
    /\ out.size > 0 /\ read_space >= Header
    /\ \A j \in 0 .. read_space - 1 :
         j >= read_space - Header => Content[j] = <<out, Header + 1 + j - read_space>>

\* The receiver is at the byte it takes itself to be at.
ReaderInv ==
  /\ readerPc = "idle" /\ read_space > 0 => Content[0][2] = 1
  /\ readerPc = "peek" => read_space >= Header /\ Content[0][2] = 1
  /\ readerPc \in {"look", "header"} => read_space >= Header /\ Content[0] = <<in, 1>>
  /\ readerPc = "header" => read_space >= Bytes(in)
  /\ readerPc \in {"body", "bodyCopied"} =>
       read_space >= in.size /\ in.size > 0 /\ Content[0] = <<in, Header + 1>>
  /\ readerPc = "bodyCopied" => got = BodyOf(in)

\* The waiting messages are those whose last byte is in the stream.
ChannelInv == waiting \in Seq(Messages) /\ \E ends : Marks(Content, read_space, waiting, ends)

IInv == TypeOK /\ SpaceInv /\ CopiedInv /\ StreamInv /\ TailInv /\ ReaderInv /\ ChannelInv

\* The sizes of what is written.
LEMMA Sizes ==
  ASSUME NEW m \in Messages
  PROVE  /\ Len(HeaderOf(m)) = Header /\ \A k \in 1 .. Header : HeaderOf(m)[k] = <<m, k>>
         /\ Len(BodyOf(m)) = m.size /\ \A k \in 1 .. m.size : BodyOf(m)[k] = <<m, Header + k>>
BY BytesNat DEF HeaderOf, BodyOf

\* Spaces and slots are numbers.
LEMMA RangeFacts ==
  ASSUME TypeOK
  PROVE  read_space \in Nat /\ read_ptr \in Int /\ \A i \in Int : Ahead(i) \in 0 .. Size - 1
<1>1. read_space \in Nat /\ \A i \in Int : Ahead(i) \in 0 .. Size - 1
  BY PointerFacts, Zenon DEF TypeOK, Ahead
<1>2. read_ptr \in 0 .. Modulus - 1 /\ Modulus \in Nat
  BY ModulusFacts, Zenon DEF TypeOK, Pointers
<1> QED  BY <1>1, <1>2

\* Copying into the free space leaves the published bytes alone.
LEMMA Copied ==
  ASSUME TypeOK, NEW bytes, NEW n \in Nat, Len(bytes) = n, read_space + n <= Size,
         Copy(bytes), UNCHANGED <<write_ptr, read_ptr>>
  PROVE  /\ sent' = n /\ read_space' = read_space /\ Content' = Content
         /\ buf' = [s \in 0 .. Size - 1 |-> buf'[s]]
         /\ \A i \in Int : Ahead(i)' = Ahead(i)
         /\ \A k \in 1 .. n : buf'[Ahead(read_space + (k - 1))] = bytes[k]
<1>0. read_space \in Nat /\ read_ptr \in Int /\ \A i \in Int : Ahead(i) \in 0 .. Size - 1
  BY RangeFacts, Zenon
<1>1. read_space' = read_space /\ \A i \in Int : Ahead(i)' = Ahead(i)
  BY DEF read_space, Ahead, At
<1>2. Fitting(bytes) = n
  BY <1>0, SizeAssumption DEF Fitting, write_space
<1>3. ASSUME NEW k \in 1 .. n
      PROVE  /\ Mask(Plus(write_ptr, k - 1)) = Ahead(read_space + (k - 1))
             /\ read_space + (k - 1) \in 0 .. Size - 1
  <2>1. k - 1 \in Int /\ read_space + (k - 1) \in 0 .. Size - 1
    BY <1>0, SizeAssumption
  <2> QED  BY <2>1, PointerFacts, Zenon DEF TypeOK, Ahead
<1>4. sent' = n /\ buf' = [s \in 0 .. Size - 1 |->
               IF \E k \in 1 .. n : s = Mask(Plus(write_ptr, k - 1))
               THEN bytes[CHOOSE k \in 1 .. n : s = Mask(Plus(write_ptr, k - 1))]
               ELSE buf[s]]
  <2>1. DOMAIN buf = 0 .. Size - 1
    BY DEF TypeOK
  <2> QED  BY <1>2, <2>1, Zenon DEF Copy
<1>5. \A i, j \in 0 .. Size - 1 : Ahead(i) = Ahead(j) => i = j
  <2>1. \A i, j \in 0 .. Size - 1 : i \in Int /\ j \in Int /\ i - j < Size /\ j - i < Size
    BY SizeAssumption
  <2> QED  BY <1>0, <2>1, Apart, Zenon DEF Ahead
<1>7. ASSUME NEW k \in 1 .. n
      PROVE  buf'[Ahead(read_space + (k - 1))] = bytes[k]
  <2> DEFINE s == Ahead(read_space + (k - 1))
  <2>1. ASSUME NEW l \in 1 .. n
        PROVE  s = Mask(Plus(write_ptr, l - 1)) <=> l = k
    <3>1. s = Mask(Plus(write_ptr, l - 1)) => read_space + (k - 1) = read_space + (l - 1)
      BY <1>3, <1>5, Zenon
    <3>2. read_space + (k - 1) = read_space + (l - 1) => l = k
      BY <1>0
    <3>3. s = Mask(Plus(write_ptr, k - 1))
      BY <1>3, Zenon
    <3> QED  BY <3>1, <3>2, <3>3, Zenon
  <2>2. (CHOOSE l \in 1 .. n : s = Mask(Plus(write_ptr, l - 1))) = k
    BY <2>1
  <2>3. s \in 0 .. Size - 1 /\ \E l \in 1 .. n : s = Mask(Plus(write_ptr, l - 1))
    <3>1. read_space + (k - 1) \in Int
      BY <1>0
    <3> QED  BY <1>0, <2>1, <3>1
  <2> HIDE DEF s
  <2>4. buf'[s] = bytes[k]
    BY <1>4, <2>2, <2>3
  <2> QED  BY <2>4 DEF s
<1>8. ASSUME NEW i \in 0 .. read_space - 1
      PROVE  buf'[Ahead(i)] = buf[Ahead(i)]
  <2>1. i \in 0 .. Size - 1 /\ Ahead(i) \in 0 .. Size - 1
    BY <1>0, SizeAssumption
  <2>2. ~ \E k \in 1 .. n : Ahead(i) = Mask(Plus(write_ptr, k - 1))
    <3>1. \A k \in 1 .. n : read_space + (k - 1) # i
      BY <1>0
    <3> QED  BY <1>3, <1>5, <2>1, <3>1, Zenon
  <2> QED  BY <1>4, <2>1, <2>2
<1>9. Content' = Content
  BY <1>1, <1>8 DEF Content
<1>10. buf' = [s \in 0 .. Size - 1 |-> buf'[s]]
  BY <1>4
<1> QED  BY <1>1, <1>4, <1>7, <1>9, <1>10

\* Publishing appends what was copied to the stream.
LEMMA Published ==
  ASSUME TypeOK, read_space + sent <= Size,
         write_ptr' = Plus(write_ptr, sent), UNCHANGED <<buf, read_ptr>>
  PROVE  /\ write_ptr' \in Pointers /\ read_space' = read_space + sent
         /\ \A i \in 0 .. read_space - 1 : Content'[i] = Content[i]
         /\ \A i \in read_space .. read_space + sent - 1 : Content'[i] = buf[Ahead(i)]
<1>1. write_ptr' \in Pointers /\ read_space' = read_space + sent /\ read_space \in Nat
        /\ sent \in Nat
  BY PointerFacts DEF TypeOK, read_space
<1>2. \A i \in Int : Ahead(i)' = Ahead(i)
  BY DEF Ahead, At
<1>3. Content' = [i \in 0 .. read_space + sent - 1 |-> buf[Ahead(i)]]
  BY <1>1, <1>2 DEF Content
<1> QED  BY <1>1, <1>3 DEF Content

\* Reading n bytes takes them from the front of the stream.
LEMMA Consumed ==
  ASSUME TypeOK, NEW n \in Nat, n <= read_space,
         read_ptr' = Plus(read_ptr, n), UNCHANGED <<buf, write_ptr>>
  PROVE  /\ read_ptr' \in Pointers /\ read_space' = read_space - n
         /\ \A i \in 0 .. read_space - n - 1 : Content'[i] = Content[n + i]
         /\ \A i \in Int : Ahead(i)' = Ahead(n + i)
<1>1. read_ptr' \in Pointers /\ read_space' = read_space - n /\ read_space \in Nat
  BY PointerFacts DEF TypeOK, read_space
<1>2. \A i \in Int : Ahead(i)' = Ahead(n + i)
  BY PointerFacts DEF TypeOK, Ahead, At
<1>3. Content' = [i \in 0 .. read_space - n - 1 |-> buf[Ahead(n + i)]]
  BY <1>1, <1>2 DEF Content
<1> QED  BY <1>1, <1>2, <1>3 DEF Content

\* A step that leaves the ring alone leaves the stream alone.
LEMMA Untouched ==
  ASSUME UNCHANGED <<buf, write_ptr, read_ptr>>
  PROVE  read_space' = read_space /\ Content' = Content /\ \A i \in Int : Ahead(i)' = Ahead(i)
<1>1. read_space' = read_space /\ \A i \in Int : Ahead(i)' = Ahead(i)
  BY DEF read_space, Ahead, At
<1> QED  BY <1>1 DEF Content

\* The free slots and the published ones are different slots.
LEMMA RegionsApart ==
  ASSUME TypeOK, NEW n \in Nat, NEW l \in Nat, l <= read_space, read_space + n <= Size
  PROVE  Region(write_ptr, n) \intersect Region(read_ptr, l) = {}
<1>1. read_space \in Nat /\ read_ptr \in Int
  BY RangeFacts
<1>2. ASSUME NEW k \in 1 .. n, NEW j \in 1 .. l
      PROVE  Mask(Plus(write_ptr, k - 1)) # Mask(Plus(read_ptr, j - 1))
  <2>1. /\ k - 1 \in Int /\ j - 1 \in Int /\ read_space + (k - 1) \in Int
        /\ read_space + (k - 1) # j - 1
        /\ (read_space + (k - 1)) - (j - 1) < Size /\ (j - 1) - (read_space + (k - 1)) < Size
    BY <1>1, SizeAssumption
  <2>2. /\ Mask(Plus(write_ptr, k - 1)) = At(read_ptr, read_space + (k - 1))
        /\ Mask(Plus(read_ptr, j - 1)) = At(read_ptr, j - 1)
    BY <2>1, PointerFacts, Zenon DEF TypeOK
  <2> QED  BY <1>1, <2>1, <2>2, Apart, Zenon
<1> QED  BY <1>2 DEF Region

\* The property.
LEMMA InvNoByteRace ==
  ASSUME IInv
  PROVE  NoByteRace
<1>1. TypeOK /\ read_space \in Nat
  BY RangeFacts DEF IInv
<1>2. out \in Messages => /\ out.size \in Nat /\ Header \in Nat /\ Bytes(out) = Header + out.size
                          /\ Len(HeaderOf(out)) = Header /\ Len(BodyOf(out)) = out.size
  BY BytesNat, Sizes
<1>3. /\ writerPc = "header" => out \in Messages /\ read_space + Bytes(out) <= Size
      /\ writerPc = "body"   => out \in Messages /\ read_space + out.size <= Size
  BY DEF IInv, TypeOK, SpaceInv, Sending, Finishing
<1>4. /\ writerPc = "header" => Fitting(HeaderOf(out)) = Header /\ read_space + Header <= Size
      /\ writerPc = "body"   => Fitting(BodyOf(out)) = out.size
  BY <1>1, <1>2, <1>3, SizeAssumption DEF Fitting, write_space
<1>5. \E n \in Nat : Written \subseteq Region(write_ptr, n) /\ read_space + n <= Size
  <2>1. Written \subseteq Region(write_ptr, 0) \/ writerPc \in {"header", "body"}
    BY DEF Written
  <2>2. 0 \in Nat /\ read_space + 0 <= Size
    BY <1>1 DEF IInv, SpaceInv
  <2>3. writerPc = "header" => Written = Region(write_ptr, Header)
    BY <1>4 DEF Written
  <2>4. writerPc = "body" => Written = Region(write_ptr, out.size)
    BY <1>4 DEF Written
  <2> QED  BY <1>2, <1>3, <1>4, <2>1, <2>2, <2>3, <2>4
<1>6. \E l \in Nat : BeingRead \subseteq Region(read_ptr, l) /\ l <= read_space
  <2>1. /\ readerPc \in {"peek", "header"} => Header <= read_space /\ Header \in Nat
        /\ readerPc = "body" => in.size <= read_space /\ in.size \in Nat
    BY HeaderAssumption, MessagesAssumption DEF IInv, TypeOK, ReaderInv
  <2>2. BeingRead \subseteq Region(read_ptr, 0) \/ readerPc \in {"peek", "header", "body"}
    BY DEF BeingRead
  <2> QED  BY <1>1, <2>1, <2>2 DEF BeingRead
<1> QED  BY <1>1, <1>5, <1>6, RegionsApart DEF NoByteRace

-----------------------------------------------------------------------------
(* The steps of the sender.                                                *)

\* Nothing is in the ring at first.
LEMMA EmptyAtFirst == Init => read_space = 0
<1>1. 0 \in 0 .. Modulus - 1 /\ 0 - 0 = 0
  BY ModulusFacts
<1> QED  BY <1>1, ModulusFacts, InRange, Zenon DEF Init, read_space

\* The invariant holds at first.
LEMMA InitInv == Init => IInv
<1> SUFFICES ASSUME Init PROVE IInv
  OBVIOUS
<1>1. read_space = 0
  BY EmptyAtFirst
<1>2. TypeOK
  BY ModulusFacts DEF Init, TypeOK, Pointers
<1>3. SpaceInv /\ CopiedInv /\ TailInv /\ ReaderInv
  BY <1>1, SizeAssumption DEF Init, SpaceInv, CopiedInv, TailInv, ReaderInv, Sending, Finishing
<1>4. StreamInv
  BY <1>1 DEF StreamInv, Coherent, EndsBy
<1>5. ChannelInv
  <2>1. Marks(Content, read_space, waiting, <<>>) /\ waiting \in Seq(Messages)
    BY <1>1 DEF Init, Marks
  <2> QED  BY <2>1 DEF ChannelInv
<1> QED  BY <1>2, <1>3, <1>4, <1>5 DEF IInv

\* Nothing is promised before the header is published.
LEMMA TestsKeepInv ==
  ASSUME IInv, NEW m \in Messages, NoSpace(m) \/ SendTest(m)
  PROVE  IInv'
<1> USE DEF IInv
<1>1. UNCHANGED <<buf, waiting, write_ptr, read_ptr, sent, readerPc, in, got, delivered>>
  BY DEF NoSpace, SendTest, readerVars
<1>2. read_space' = read_space /\ Content' = Content
  BY <1>1, Untouched
<1>3. read_space \in Nat /\ ChannelInv'
  BY <1>1, <1>2, RangeFacts DEF ChannelInv
<1>4. CASE NoSpace(m)
  <2>1. writerPc = "idle" /\ writerPc' = "idle" /\ out' = out /\ answer' = "full"
    BY <1>4 DEF NoSpace
  <2>2. TypeOK' /\ SpaceInv' /\ CopiedInv' /\ TailInv'
    BY <1>1, <1>2, <2>1 DEF TypeOK, SpaceInv, CopiedInv, TailInv, Sending, Finishing
  <2>3. StreamInv'
    BY <1>2, <2>1 DEF StreamInv, Promised, Finishing
  <2>4. ReaderInv'
    BY <1>1, <1>2 DEF ReaderInv
  <2> QED  BY <1>3, <2>2, <2>3, <2>4
<1>5. CASE SendTest(m)
  <2>1. /\ writerPc = "idle" /\ writerPc' = "header" /\ out' = m /\ answer' = answer
        /\ write_space >= Bytes(m)
    BY <1>5 DEF SendTest
  <2>2. TypeOK' /\ SpaceInv' /\ CopiedInv' /\ TailInv'
    BY <1>1, <1>2, <1>3, <2>1, BytesNat, SizeAssumption
       DEF TypeOK, SpaceInv, CopiedInv, TailInv, Sending, Finishing, write_space
  <2>3. EndsBy(Content, read_space, m, read_space)
    <3>1. EndsBy(Content, read_space, out, read_space) /\ Coherent(Content, read_space)
      BY <2>1 DEF StreamInv, Promised, Finishing
    <3>2. \A i \in 0 .. read_space - 1 : Content[i][2] \in Int /\ Bytes(Content[i][1]) \in Int
      BY <3>1, BytesNat DEF Coherent, IsByte
    <3> QED  BY <1>3, <3>1, <3>2 DEF EndsBy
  <2>4. StreamInv'
    BY <1>2, <2>1, <2>3 DEF StreamInv, Promised, Finishing
  <2>5. ReaderInv'
    BY <1>1, <1>2 DEF ReaderInv
  <2> QED  BY <1>3, <2>2, <2>4, <2>5
<1> QED  BY <1>4, <1>5

\* Copying touches no published byte.
LEMMA CopiesKeepInv ==
  ASSUME IInv, CopyHeader \/ CopyBody
  PROVE  IInv' /\ read_space' = read_space
<1> USE DEF IInv
<1>1. UNCHANGED <<waiting, write_ptr, read_ptr, out, answer, readerPc, in, got, delivered>>
  BY DEF CopyHeader, CopyBody, readerVars
<1>2. out \in Messages /\ out.size \in Nat /\ Header \in Nat \ {0} /\ Bytes(out) = Header + out.size
  <2>1. out \in Messages
    BY DEF CopyHeader, CopyBody, TypeOK, Sending, Finishing
  <2> QED  BY <2>1, BytesNat
<1>3. read_space \in Nat
  BY RangeFacts
<1>4. CASE CopyHeader
  <2>1. writerPc = "header" /\ writerPc' = "headerCopied" /\ Copy(HeaderOf(out))
    BY <1>4 DEF CopyHeader
  <2>2. Len(HeaderOf(out)) = Header /\ read_space + Header <= Size /\ Header \in Nat
    BY <1>2, <1>3, <2>1, Sizes, SizeAssumption DEF SpaceInv, Sending
  <2>3. /\ sent' = Header /\ read_space' = read_space /\ Content' = Content
        /\ buf' = [s \in 0 .. Size - 1 |-> buf'[s]]
        /\ \A i \in Int : Ahead(i)' = Ahead(i)
        /\ \A k \in 1 .. Header : buf'[Ahead(read_space + (k - 1))] = HeaderOf(out)[k]
    BY <1>1, <2>1, <2>2, Copied
  <2>4. TypeOK' /\ SpaceInv' /\ TailInv'
    BY <1>1, <1>2, <2>1, <2>3 DEF TypeOK, SpaceInv, TailInv, Sending, Finishing
  <2>5. CopiedInv'
    BY <1>1, <1>2, <1>3, <2>1, <2>3, Sizes DEF CopiedInv
  <2>6. StreamInv'
    BY <1>1, <2>1, <2>3 DEF StreamInv, Promised, Finishing
  <2>7. ReaderInv' /\ ChannelInv'
    BY <1>1, <2>3 DEF ReaderInv, ChannelInv
  <2> QED  BY <2>3, <2>4, <2>5, <2>6, <2>7
<1>5. CASE CopyBody
  <2>1. writerPc = "body" /\ writerPc' = "bodyCopied" /\ Copy(BodyOf(out))
    BY <1>5 DEF CopyBody
  <2>2. Len(BodyOf(out)) = out.size /\ read_space + out.size <= Size
    BY <1>2, <2>1, Sizes DEF SpaceInv, Finishing
  <2>3. /\ sent' = out.size /\ read_space' = read_space /\ Content' = Content
        /\ buf' = [s \in 0 .. Size - 1 |-> buf'[s]]
        /\ \A i \in Int : Ahead(i)' = Ahead(i)
        /\ \A k \in 1 .. out.size : buf'[Ahead(read_space + (k - 1))] = BodyOf(out)[k]
    BY <1>1, <1>2, <2>1, <2>2, Copied
  <2>4. TypeOK' /\ SpaceInv' /\ TailInv'
    BY <1>1, <1>2, <2>1, <2>3 DEF TypeOK, SpaceInv, TailInv, Sending, Finishing
  <2>5. CopiedInv'
    <3>1. \A k \in 1 .. out.size : buf'[Ahead(read_space + (k - 1))] = <<out, Header + k>>
      BY <1>2, <2>3, Sizes
    <3>2. \A k \in 1 .. out.size : Ahead(read_space + (k - 1))' = Ahead(read_space + (k - 1))
      BY <1>2, <1>3, <2>3
    <3> QED  BY <1>1, <2>1, <2>3, <3>1, <3>2 DEF CopiedInv
  <2>6. StreamInv'
    BY <1>1, <2>1, <2>3 DEF StreamInv, Promised, Finishing
  <2>7. ReaderInv' /\ ChannelInv'
    BY <1>1, <2>3 DEF ReaderInv, ChannelInv
  <2> QED  BY <2>3, <2>4, <2>5, <2>6, <2>7
<1> QED  BY <1>4, <1>5

\* The receiver is where it was when the stream grows behind it.
LEMMA GrowthKeepsReader ==
  ASSUME ReaderInv, read_space \in Nat, read_space' \in Nat, read_space <= read_space',
         read_space > 0 => Content'[0] = Content[0],
         read_space = 0 /\ read_space' > 0 => Content'[0][2] = 1,
         readerPc \notin {"idle", "peek"} => in \in Messages,
         UNCHANGED <<readerPc, in, got>>
  PROVE  ReaderInv'
BY BytesNat, HeaderAssumption DEF ReaderInv

\* The header is published: its message is promised.
LEMMA PublishHeaderKeepsInv ==
  ASSUME IInv, PublishHeader
  PROVE  IInv' /\ read_space' = read_space + Header
<1> USE DEF IInv
<1>1. /\ writerPc = "headerCopied" /\ write_ptr' = Plus(write_ptr, sent)
      /\ UNCHANGED <<buf, read_ptr, out, sent, readerPc, in, got, delivered>>
      /\ out.size = 0 => writerPc' = "idle" /\ answer' = "ok" /\ waiting' = Append(waiting, out)
      /\ out.size # 0 => writerPc' = "body" /\ answer' = answer /\ waiting' = waiting
  BY DEF PublishHeader, readerVars
<1>2. /\ out \in Messages /\ out.size \in Nat /\ Header \in Nat \ {0}
        /\ Bytes(out) = Header + out.size
      /\ Bytes(out) \in Nat
  <2>1. out \in Messages
    BY <1>1 DEF TypeOK
  <2> QED  BY <2>1, BytesNat
<1>3. /\ read_space \in Nat /\ sent = Header /\ read_space + Bytes(out) <= Size
      /\ \A k \in 1 .. Header : buf[Ahead(read_space + (k - 1))] = <<out, k>>
  BY <1>1, RangeFacts DEF CopiedInv, SpaceInv, Sending
<1>4. /\ write_ptr' \in Pointers /\ read_space' = read_space + Header
      /\ \A i \in 0 .. read_space - 1 : Content'[i] = Content[i]
      /\ \A i \in read_space .. read_space + Header - 1 : Content'[i] = buf[Ahead(i)]
  BY <1>1, <1>2, <1>3, SizeAssumption, Published
<1>5. \A i \in read_space .. read_space + Header - 1 : Content'[i] = <<out, 0 + 1 + i - read_space>>
  <2>1. \A i \in read_space .. read_space + Header - 1 :
          /\ i - read_space + 1 \in 1 .. Header /\ 0 + 1 + i - read_space = i - read_space + 1
          /\ read_space + ((i - read_space + 1) - 1) = i
    BY <1>2, <1>3
  <2> QED  BY <1>3, <1>4, <2>1
<1>6. Coherent(Content', read_space + Header)
        /\ EndsBy(Content', read_space + Header, out, read_space + Bytes(out) - 0)
  <2>1. Coherent(Content, read_space) /\ EndsBy(Content, read_space, out, read_space)
    BY <1>1 DEF StreamInv, Promised, Finishing
  <2>2. \A i \in 0 .. read_space - 1 :
          i >= read_space - 0 => Content[i] = <<out, 0 + 1 + i - read_space>>
    BY <1>3
  <2>3. 0 + Header <= Bytes(out) /\ 0 \in Nat
          /\ read_space \in {read_space, read_space + Bytes(out) - 0}
    BY <1>2
  <2> QED  BY <1>2, <1>3, <1>4, <1>5, <2>1, <2>2, <2>3, Appended, Zenon
<1>7. TypeOK' /\ SpaceInv' /\ CopiedInv'
  BY <1>1, <1>2, <1>3, <1>4, SizeAssumption DEF TypeOK, SpaceInv, CopiedInv, Sending, Finishing
<1>8. TailInv'
  <2>1. \A j \in 0 .. read_space' - 1 :
          j >= read_space' - Header => Content'[j] = <<out, Header + 1 + j - read_space'>>
    <3>1. \A j \in 0 .. read_space' - 1 : j >= read_space' - Header =>
            /\ j \in read_space .. read_space + Header - 1
            /\ 0 + 1 + j - read_space = Header + 1 + j - read_space'
      BY <1>2, <1>3, <1>4
    <3> QED  BY <1>5, <3>1
  <2>2. /\ writerPc' \in Finishing => out.size > 0
        /\ read_space' >= Header /\ out' = out
    BY <1>1, <1>2, <1>3, <1>4 DEF Finishing
  <2> QED  BY <2>1, <2>2 DEF TailInv
<1>9. StreamInv'
  <2>1. read_space + Bytes(out) - 0 = Promised'
    BY <1>1, <1>2, <1>3, <1>4 DEF Promised, Finishing
  <2> QED  BY <1>1, <1>4, <1>6, <2>1 DEF StreamInv
<1>10. ReaderInv'
  <2>1. read_space = 0 => Content'[0][2] = 1
    BY <1>2, <1>5
  <2>2. read_space > 0 => Content'[0] = Content[0]
    BY <1>3, <1>4
  <2> QED  BY <1>1, <1>2, <1>3, <1>4, <2>1, <2>2, GrowthKeepsReader DEF TypeOK
<1>11. ChannelInv'
  <2>1. waiting \in Seq(Messages)
    BY DEF ChannelInv
  <2>2. PICK ends : Marks(Content, read_space, waiting, ends)
    BY DEF ChannelInv
  <2>3. /\ 0 + Header < Bytes(out) => Marks(Content', read_space + Header, waiting, ends)
        /\ 0 + Header = Bytes(out) =>
             \E e : Marks(Content', read_space + Header, Append(waiting, out), e)
    <3>1. /\ 0 + Header <= Bytes(out) /\ 0 \in Nat /\ Header \in Nat /\ Header > 0
          /\ out \in Messages /\ read_space \in Nat
      BY <1>2, <1>3
    <3>2. \A i \in 0 .. read_space - 1 : Content'[i] = Content[i]
      BY <1>4
    <3> QED  BY <1>5, <2>1, <2>2, <3>1, <3>2, MarksAppended, Zenon
  <2>4. CASE out.size = 0
    <3>1. 0 + Header = Bytes(out) /\ waiting' = Append(waiting, out) /\ waiting' \in Seq(Messages)
      BY <1>1, <1>2, <2>1, <2>4
    <3> QED  BY <1>4, <2>3, <3>1 DEF ChannelInv
  <2>5. CASE out.size # 0
    <3>1. 0 + Header < Bytes(out) /\ waiting' = waiting
      BY <1>1, <1>2, <2>5
    <3> QED  BY <1>4, <2>1, <2>3, <3>1 DEF ChannelInv
  <2> QED  BY <2>4, <2>5
<1> QED  BY <1>4, <1>7, <1>8, <1>9, <1>10, <1>11

\* The body is published: it completes the message at the end of the stream.
LEMMA PublishBodyKeepsInv ==
  ASSUME IInv, PublishBody
  PROVE  IInv' /\ read_space' = read_space + out.size
<1> USE DEF IInv
<1>1. /\ writerPc = "bodyCopied" /\ write_ptr' = Plus(write_ptr, sent)
      /\ UNCHANGED <<buf, read_ptr, out, sent, readerPc, in, got, delivered>>
      /\ writerPc' = "idle" /\ answer' = "ok" /\ waiting' = Append(waiting, out)
  BY DEF PublishBody, readerVars
<1>2. /\ out \in Messages /\ out.size \in Nat /\ Header \in Nat \ {0}
        /\ Bytes(out) = Header + out.size
      /\ Bytes(out) \in Nat
  <2>1. out \in Messages
    BY <1>1 DEF TypeOK
  <2> QED  BY <2>1, BytesNat
<1>3. /\ read_space \in Nat /\ sent = out.size /\ read_space + out.size <= Size
      /\ read_space >= Header
      /\ \A k \in 1 .. out.size : buf[Ahead(read_space + (k - 1))] = <<out, Header + k>>
  BY <1>1, RangeFacts DEF CopiedInv, SpaceInv, TailInv, Finishing
<1>4. /\ write_ptr' \in Pointers /\ read_space' = read_space + out.size
      /\ \A i \in 0 .. read_space - 1 : Content'[i] = Content[i]
      /\ \A i \in read_space .. read_space + out.size - 1 : Content'[i] = buf[Ahead(i)]
  BY <1>1, <1>3, Published
<1>5. \A i \in read_space .. read_space + out.size - 1 :
        Content'[i] = <<out, Header + 1 + i - read_space>>
  <2>1. \A i \in read_space .. read_space + out.size - 1 :
          /\ i - read_space + 1 \in 1 .. out.size
          /\ Header + 1 + i - read_space = Header + (i - read_space + 1)
          /\ read_space + ((i - read_space + 1) - 1) = i
    BY <1>2, <1>3
  <2> QED  BY <1>3, <1>4, <2>1
<1>6. /\ Coherent(Content', read_space + out.size)
      /\ EndsBy(Content', read_space + out.size, out, read_space + Bytes(out) - Header)
  <2>1. /\ Coherent(Content, read_space)
        /\ EndsBy(Content, read_space, out, read_space + out.size)
    BY <1>1 DEF StreamInv, Promised, Finishing
  <2>2. \A i \in 0 .. read_space - 1 :
          i >= read_space - Header => Content[i] = <<out, Header + 1 + i - read_space>>
    BY <1>1 DEF TailInv, Finishing
  <2>3. /\ Header + out.size <= Bytes(out) /\ Header \in Nat
        /\ read_space + out.size \in {read_space, read_space + Bytes(out) - Header}
    BY <1>2, <1>3
  <2> QED  BY <1>2, <1>3, <1>4, <1>5, <2>1, <2>2, <2>3, Appended, Zenon
<1>7. TypeOK' /\ SpaceInv' /\ CopiedInv' /\ TailInv'
  BY <1>1, <1>2, <1>3, <1>4 DEF TypeOK, SpaceInv, CopiedInv, TailInv, Sending, Finishing
<1>8. StreamInv'
  <2>1. read_space + Bytes(out) - Header = Promised'
    BY <1>1, <1>2, <1>3, <1>4 DEF Promised, Finishing
  <2> QED  BY <1>1, <1>4, <1>6, <2>1 DEF StreamInv
<1>9. ReaderInv'
  <2>1. read_space > 0 /\ Content'[0] = Content[0]
    BY <1>2, <1>3, <1>4
  <2> QED  BY <1>1, <1>2, <1>3, <1>4, <2>1, GrowthKeepsReader DEF TypeOK
<1>10. ChannelInv'
  <2>1. waiting \in Seq(Messages) /\ out.size > 0
    BY <1>1 DEF ChannelInv, TailInv, Finishing
  <2>2. PICK ends : Marks(Content, read_space, waiting, ends)
    BY DEF ChannelInv
  <2>3. \E e : Marks(Content', read_space + out.size, Append(waiting, out), e)
    <3>1. /\ Header + out.size <= Bytes(out) /\ Header + out.size = Bytes(out) /\ Header \in Nat
          /\ out \in Messages /\ out.size \in Nat /\ read_space \in Nat
      BY <1>2, <1>3
    <3>2. \A i \in 0 .. read_space - 1 : Content'[i] = Content[i]
      BY <1>4
    <3> QED  BY <1>5, <2>1, <2>2, <3>1, <3>2, MarksAppended, Zenon
  <2> QED  BY <1>1, <1>2, <1>4, <2>1, <2>3 DEF ChannelInv
<1> QED  BY <1>4, <1>7, <1>8, <1>9, <1>10

-----------------------------------------------------------------------------
(* The steps of the receiver.                                              *)

\* The last byte of a message is followed by a whole header before the end, if that
\* header waits for its body.
LEMMA EndBeforeTail ==
  ASSUME IInv, NEW m \in Messages, NEW k \in 1 .. read_space, Content[k - 1] = <<m, Bytes(m)>>,
         writerPc \in Finishing
  PROVE  k + Header <= read_space
<1>1. read_space \in Nat /\ out \in Messages /\ Header \in Nat
  BY RangeFacts, HeaderAssumption DEF IInv, TypeOK, Finishing
<1>2. out.size \in Nat /\ out.size > 0 /\ Bytes(out) = Header + out.size
  BY <1>1, BytesNat DEF IInv, TailInv
<1>3. CASE k - 1 >= read_space - Header
  <2>1. Content[k - 1] = <<out, Header + 1 + (k - 1) - read_space>>
    BY <1>1, <1>3 DEF IInv, TailInv
  <2>2. m = out /\ Bytes(m) = Header + 1 + (k - 1) - read_space
    BY <2>1
  <2> QED  BY <1>1, <1>2, <2>2
<1> QED  BY <1>1, <1>3

\* Reading whole headers and bodies leaves the sender's part alone.
LEMMA ReadsKeepSender ==
  ASSUME IInv, NEW n \in Nat, n <= read_space, writerPc \in Finishing => n + Header <= read_space,
         read_ptr' = Plus(read_ptr, n), UNCHANGED <<buf, writerVars>>
  PROVE  SpaceInv' /\ CopiedInv' /\ StreamInv' /\ TailInv'
<1> USE DEF IInv
<1>1. UNCHANGED <<buf, write_ptr, writerPc, out, sent, answer>>
  BY DEF writerVars
<1>2. /\ read_space' = read_space - n /\ read_space \in Nat
      /\ \A i \in 0 .. read_space - n - 1 : Content'[i] = Content[n + i]
      /\ \A i \in Int : Ahead(i)' = Ahead(n + i)
  BY <1>1, Consumed, RangeFacts
<1>3. writerPc # "idle" => out \in Messages /\ out.size \in Nat /\ Bytes(out) \in Nat
        /\ Header \in Nat
  BY BytesNat DEF TypeOK
<1>4. SpaceInv'
  BY <1>1, <1>2, <1>3, SizeAssumption DEF SpaceInv, Sending, Finishing
<1>5. CopiedInv'
  <2>1. ASSUME NEW k \in Nat
        PROVE  Ahead(read_space + (k - 1))' = Ahead(read_space + (k - 1))
    <3>1. read_space' + (k - 1) \in Int /\ n + (read_space' + (k - 1)) = read_space + (k - 1)
      BY <1>2
    <3>2. \A i \in Int : At(read_ptr', i) = At(read_ptr, n + i)
      BY <1>2 DEF Ahead
    <3> QED  BY <3>1, <3>2, Zenon DEF Ahead
  <2>2. Header \in Nat /\ (writerPc # "idle" => out.size \in Nat)
    BY <1>3, HeaderAssumption
  <2>3. /\ \A k \in 1 .. Header : Ahead(read_space + (k - 1))' = Ahead(read_space + (k - 1))
        /\ writerPc # "idle" =>
             \A k \in 1 .. out.size : Ahead(read_space + (k - 1))' = Ahead(read_space + (k - 1))
    BY <2>1, <2>2
  <2> QED  BY <1>1, <2>3 DEF CopiedInv
<1>6. StreamInv'
  <2>1. Promised \in Int /\ Promised' = Promised - n
    BY <1>1, <1>2, <1>3 DEF Promised, Finishing
  <2>2. Coherent(Content', read_space - n) /\ EndsBy(Content', read_space - n, out, Promised - n)
    BY <1>2, <2>1, Taken, Zenon DEF StreamInv
  <2> QED  BY <1>1, <1>2, <2>1, <2>2 DEF StreamInv
<1>7. TailInv'
  <2>1. ASSUME writerPc \in Finishing, NEW j \in 0 .. read_space' - 1, j >= read_space' - Header
        PROVE  Content'[j] = <<out, Header + 1 + j - read_space'>>
    <3>1. /\ n + j \in 0 .. read_space - 1 /\ n + j >= read_space - Header
          /\ Header + 1 + (n + j) - read_space = Header + 1 + j - read_space'
      BY <1>2, <2>1, HeaderAssumption
    <3>2. Content[n + j] = <<out, Header + 1 + (n + j) - read_space>>
      BY <2>1, <3>1 DEF TailInv
    <3> QED  BY <1>2, <3>1, <3>2
  <2> QED  BY <1>1, <1>2, <2>1, HeaderAssumption DEF TailInv
<1> QED  BY <1>4, <1>5, <1>6, <1>7

\* Looking at the ring takes nothing from it.
LEMMA LooksKeepInv ==
  ASSUME IInv, LookHeader \/ PeekSize \/ LookBody \/ CopyIn
  PROVE  IInv'
<1> USE DEF IInv
<1>1. UNCHANGED <<buf, waiting, write_ptr, read_ptr, writerPc, out, sent, answer, delivered>>
  BY DEF LookHeader, PeekSize, LookBody, CopyIn, writerVars
<1>2. read_space' = read_space /\ Content' = Content /\ \A i \in Int : Ahead(i)' = Ahead(i)
  BY <1>1, Untouched, Zenon
<1>3. /\ read_space \in Nat /\ Header \in Nat \ {0}
      /\ \A i \in Int : Mask(Plus(read_ptr, i)) = Ahead(i)
  BY RangeFacts, PointerFacts, HeaderAssumption, Zenon DEF TypeOK, Ahead
<1>4. SpaceInv' /\ StreamInv' /\ TailInv' /\ ChannelInv'
  BY <1>1, <1>2 DEF SpaceInv, StreamInv, TailInv, ChannelInv, Promised
<1>5. CopiedInv'
  <2>1. writerPc # "idle" => out.size \in Nat
    BY BytesNat DEF TypeOK
  <2>2. /\ \A k \in 1 .. Header : Ahead(read_space + (k - 1))' = Ahead(read_space + (k - 1))
        /\ writerPc # "idle" =>
             \A k \in 1 .. out.size : Ahead(read_space + (k - 1))' = Ahead(read_space + (k - 1))
    BY <1>2, <1>3, <2>1
  <2> QED  BY <1>1, <2>2 DEF CopiedInv
<1>6. \A n \in Nat : n <= read_space => Stored(read_ptr, n) = [k \in 1 .. n |-> Content[k - 1]]
  BY <1>3 DEF Stored, Content
<1>7. CASE LookHeader
  <2>1. TypeOK'
    BY <1>1, <1>7 DEF LookHeader, TypeOK
  <2>2. ReaderInv'
    BY <1>2, <1>3, <1>7 DEF LookHeader, ReaderInv
  <2> QED  BY <1>4, <1>5, <2>1, <2>2
<1>8. CASE PeekSize
  <2>1. readerPc = "peek" /\ readerPc' = "look" /\ read_space >= Header /\ Content[0][2] = 1
    BY <1>8 DEF PeekSize, ReaderInv
  <2> DEFINE m == Content[0][1]
  <2>2. m \in Messages /\ Content[0] = <<m, 1>>
    BY <1>3, <2>1 DEF StreamInv, Coherent, IsByte
  <2>3. \A k \in 1 .. Header : Content[k - 1] = <<m, k>>
    <3>1. Bytes(m) \in Nat /\ Bytes(m) >= Header
      BY <2>2, BytesNat
    <3>2. \A k \in 1 .. Header :
            /\ k - 1 \in 0 .. read_space - 1 /\ 0 \in 0 .. read_space - 1
            /\ Content[0][2] + (k - 1) - 0 = k /\ k \in 1 .. Bytes(m)
      BY <1>3, <2>1, <3>1
    <3> QED  BY <2>2, <3>2 DEF StreamInv, Coherent
  <2> HIDE DEF m
  <2>4. Stored(read_ptr, Header) = HeaderOf(m)
    BY <1>3, <1>6, <2>1, <2>3 DEF HeaderOf
  <2>5. \A l \in Messages : HeaderOf(l) = HeaderOf(m) => l = m
    <3>1. \A l \in Messages : HeaderOf(l)[1] = <<l, 1>>
      BY <1>3 DEF HeaderOf
    <3> QED  BY <2>2, <3>1
  <2>6. in' = m
    BY <1>8, <2>2, <2>4, <2>5 DEF PeekSize
  <2>7. TypeOK'
    BY <1>1, <2>1, <2>2, <2>6 DEF TypeOK
  <2>8. ReaderInv'
    BY <1>2, <2>1, <2>2, <2>6 DEF ReaderInv
  <2> QED  BY <1>4, <1>5, <2>7, <2>8
<1>9. CASE LookBody
  <2>1. /\ readerPc = "look" /\ in \in Messages /\ UNCHANGED <<in, got>>
        /\ readerPc' = "idle" \/ (readerPc' = "header" /\ read_space >= Bytes(in))
    BY <1>9 DEF LookBody, TypeOK
  <2>2. TypeOK'
    BY <1>1, <2>1 DEF TypeOK
  <2>3. ReaderInv'
    BY <1>2, <2>1 DEF ReaderInv
  <2> QED  BY <1>4, <1>5, <2>2, <2>3
<1>10. CASE CopyIn
  <2>1. /\ readerPc = "body" /\ readerPc' = "bodyCopied" /\ in \in Messages /\ in' = in
        /\ read_space >= in.size /\ in.size > 0 /\ Content[0] = <<in, Header + 1>>
        /\ in.size \in Nat /\ Bytes(in) = Header + in.size
    BY <1>10, BytesNat DEF CopyIn, TypeOK, ReaderInv
  <2>2. got' = Stored(read_ptr, in.size)
    BY <1>3, <1>10, <2>1 DEF CopyIn
  <2>3. \A k \in 1 .. in.size : Content[k - 1] = <<in, Header + k>>
    <3>1. \A k \in 1 .. in.size :
            /\ k - 1 \in 0 .. read_space - 1 /\ 0 \in 0 .. read_space - 1
            /\ Header + 1 + (k - 1) - 0 = Header + k /\ Header + k \in 1 .. Bytes(in)
      BY <1>3, <2>1
    <3>2. Content[0][1] = in /\ Content[0][2] = Header + 1
      BY <2>1
    <3> QED  BY <3>1, <3>2 DEF StreamInv, Coherent
  <2>4. got' = BodyOf(in)
    BY <1>6, <2>1, <2>2, <2>3 DEF BodyOf
  <2>5. TypeOK'
    BY <1>1, <2>1 DEF TypeOK
  <2>6. ReaderInv'
    BY <1>2, <2>1, <2>4 DEF ReaderInv, BodyOf
  <2> QED  BY <1>4, <1>5, <2>5, <2>6
<1> QED  BY <1>7, <1>8, <1>9, <1>10

\* A byte of the message that the receiver has begun, k bytes after its first one there.
LEMMA Follows ==
  ASSUME IInv, NEW m \in Messages, NEW f \in 1 .. Bytes(m), NEW k \in 0 .. read_space - 1,
         Content[0] = <<m, f>>, f + k <= Bytes(m)
  PROVE  Content[k] = <<m, f + k>>
<1>1. read_space \in Nat /\ Bytes(m) \in Nat
  BY RangeFacts, BytesNat DEF IInv
<1>2. 0 \in 0 .. read_space - 1 /\ f + k - 0 = f + k /\ f + k \in 1 .. Bytes(m)
  BY <1>1
<1>3. Content[0][1] = m /\ Content[0][2] = f
  OBVIOUS
<1> QED  BY <1>2, <1>3 DEF IInv, StreamInv, Coherent

\* The header is consumed.
LEMMA ReadHeaderKeepsInv ==
  ASSUME IInv, ReadHeader
  PROVE  /\ IInv' /\ read_space' = read_space - Header
         /\ in.size = 0 => waiting # <<>> /\ Head(waiting) = in /\ waiting' = Tail(waiting)
<1>1. /\ readerPc = "header" /\ read_ptr' = Plus(read_ptr, Header)
      /\ UNCHANGED <<buf, writerVars, write_ptr, writerPc, out, sent, answer, in, got>>
      /\ in.size = 0 => readerPc' = "idle" /\ delivered' = in
           /\ waiting' = SubSeq(waiting, 2, Len(waiting))
      /\ in.size # 0 => readerPc' = "body" /\ delivered' = delivered /\ waiting' = waiting
  BY DEF ReadHeader, writerVars, Rest
<1>2. /\ in \in Messages /\ Content[0] = <<in, 1>> /\ read_space >= Bytes(in)
      /\ in.size \in Nat /\ Header \in Nat \ {0} /\ Bytes(in) = Header + in.size
           /\ Bytes(in) \in Nat
      /\ read_space \in Nat
  <2>1. in \in Messages /\ Content[0] = <<in, 1>> /\ read_space >= Bytes(in)
    BY <1>1 DEF IInv, TypeOK, ReaderInv
  <2> QED  BY <2>1, BytesNat, RangeFacts DEF IInv
<1>3. \A k \in 0 .. Bytes(in) - 1 : Content[k] = <<in, 1 + k>>
  <2>1. \A k \in 0 .. Bytes(in) - 1 : k \in 0 .. read_space - 1 /\ 1 \in 1 .. Bytes(in)
          /\ 1 + k <= Bytes(in)
    BY <1>2
  <2> QED  BY <1>2, <2>1, Follows, Zenon
<1>4. writerPc \in Finishing => Header + Header <= read_space
  <2>1. Bytes(in) \in 1 .. read_space /\ Content[Bytes(in) - 1] = <<in, Bytes(in)>>
    BY <1>2, <1>3
  <2>2. writerPc \in Finishing => Bytes(in) + Header <= read_space
    BY <1>2, <2>1, EndBeforeTail
  <2> QED  BY <1>2, <2>2
<1>5. SpaceInv' /\ CopiedInv' /\ StreamInv' /\ TailInv'
  BY <1>1, <1>2, <1>4, ReadsKeepSender
<1>6. /\ read_ptr' \in Pointers /\ read_space' = read_space - Header
      /\ \A i \in 0 .. read_space - Header - 1 : Content'[i] = Content[Header + i]
  <2>1. /\ TypeOK /\ Header \in Nat /\ Header <= read_space
        /\ read_ptr' = Plus(read_ptr, Header) /\ UNCHANGED <<buf, write_ptr>>
    BY <1>1, <1>2 DEF IInv
  <2> QED  BY <2>1, Consumed, Zenon
<1>7. TypeOK'
  BY <1>1, <1>2, <1>6 DEF IInv, TypeOK
<1>8. ReaderInv'
  <2>1. CASE in.size = 0
    <3>1. read_space' > 0 => Header \in 1 .. read_space - 1 /\ Content'[0] = Content[Header]
      BY <1>2, <1>6
    <3>2. Content[Header - 1] = <<in, Bytes(in)>>
      BY <1>2, <1>3, <2>1
    <3>3. read_space' > 0 => Content[Header][2] = 1
      BY <1>2, <3>1, <3>2, NextBegins DEF IInv, StreamInv
    <3> QED  BY <1>1, <2>1, <3>1, <3>3 DEF ReaderInv
  <2>2. CASE in.size # 0
    <3>1. read_space' >= in.size /\ in.size > 0 /\ Content'[0] = <<in, Header + 1>>
      BY <1>2, <1>3, <1>6, <2>2
    <3> QED  BY <1>1, <2>2, <3>1 DEF ReaderInv
  <2> QED  BY <2>1, <2>2
<1>9. ChannelInv'
        /\ (in.size = 0 => waiting # <<>> /\ Head(waiting) = in /\ waiting' = Tail(waiting))
  <2>1. waiting \in Seq(Messages)
    BY DEF IInv, ChannelInv
  <2>2. PICK ends : Marks(Content, read_space, waiting, ends)
    BY DEF IInv, ChannelInv
  <2>3. \A i \in 0 .. Header - 2 : Content[i][2] # Bytes(Content[i][1])
    <3>1. \A i \in 0 .. Header - 2 : Content[i] = <<in, 1 + i>> /\ 1 + i # Bytes(in)
      BY <1>2, <1>3
    <3> QED  BY <3>1
  <2>4. /\ Content[Header - 1][2] # Bytes(Content[Header - 1][1]) =>
             \E e : Marks(Content', read_space - Header, waiting, e)
        /\ Content[Header - 1] = <<in, Bytes(in)>> =>
             /\ waiting # <<>> /\ Head(waiting) = in
             /\ \E e : Marks(Content', read_space - Header, SubSeq(waiting, 2, Len(waiting)), e)
    <3>1. Header \in 1 .. read_space
      BY <1>2
    <3> QED  BY <1>2, <1>6, <2>1, <2>2, <2>3, <3>1, MarksTaken, Zenon
  <2>5. Content[Header - 1] = <<in, Header>>
    BY <1>2, <1>3
  <2>6. CASE in.size = 0
    <3>0. Bytes(in) = Header /\ waiting' = SubSeq(waiting, 2, Len(waiting))
      BY <1>1, <1>2, <2>6
    <3>1. /\ waiting # <<>> /\ Head(waiting) = in
          /\ \E e : Marks(Content', read_space', waiting', e)
      BY <1>6, <2>4, <2>5, <3>0, Zenon
    <3>2. waiting' = Tail(waiting) /\ Tail(waiting) \in Seq(Messages)
      <4>1. Len(waiting) >= 1
        BY <2>1, <3>1
      <4> QED  BY <1>1, <2>1, <2>6, <4>1, Later
    <3> QED  BY <3>1, <3>2 DEF ChannelInv
  <2>7. CASE in.size # 0
    <3>1. Content[Header - 1][2] # Bytes(Content[Header - 1][1])
      BY <1>2, <2>5, <2>7
    <3> QED  BY <1>1, <1>6, <2>1, <2>4, <2>7, <3>1 DEF ChannelInv
  <2> QED  BY <2>6, <2>7
<1> QED  BY <1>5, <1>6, <1>7, <1>8, <1>9 DEF IInv

\* The body is consumed, and is the one that was sent.
LEMMA ReadBodyKeepsInv ==
  ASSUME IInv, ReadBody
  PROVE  /\ IInv' /\ read_space' = read_space - in.size /\ delivered' = in
         /\ in \in Messages /\ waiting # <<>> /\ Head(waiting) = in /\ waiting' = Tail(waiting)
<1>1. /\ readerPc = "bodyCopied" /\ readerPc' = "idle" /\ read_ptr' = Plus(read_ptr, Len(got))
      /\ UNCHANGED <<buf, writerVars, write_ptr, writerPc, out, sent, answer, in>>
      /\ delivered' = IF got = BodyOf(in) THEN in ELSE Garbled
      /\ waiting' = SubSeq(waiting, 2, Len(waiting))
  BY DEF ReadBody, writerVars, Rest
<1>2. /\ in \in Messages /\ Content[0] = <<in, Header + 1>> /\ read_space >= in.size /\ in.size > 0
      /\ got = BodyOf(in) /\ in.size \in Nat /\ Header \in Nat \ {0} /\ Bytes(in) = Header + in.size
      /\ Bytes(in) \in Nat /\ read_space \in Nat /\ Len(got) = in.size
  <2>1. /\ in \in Messages /\ Content[0] = <<in, Header + 1>> /\ read_space >= in.size
          /\ in.size > 0
        /\ got = BodyOf(in)
    BY <1>1 DEF IInv, TypeOK, ReaderInv
  <2> QED  BY <2>1, BytesNat, RangeFacts, Sizes DEF IInv
<1>3. in.size \in 1 .. read_space /\ Content[in.size - 1] = <<in, Bytes(in)>>
  <2>1. /\ in.size - 1 \in 0 .. read_space - 1 /\ Header + 1 \in 1 .. Bytes(in)
        /\ (Header + 1) + (in.size - 1) = Bytes(in) /\ Bytes(in) <= Bytes(in)
    BY <1>2
  <2>2. Content[in.size - 1] = <<in, (Header + 1) + (in.size - 1)>>
    BY <1>2, <2>1, Follows, Zenon
  <2> QED  BY <1>2, <2>1, <2>2
<1>4. writerPc \in Finishing => in.size + Header <= read_space
  BY <1>2, <1>3, EndBeforeTail
<1>5. SpaceInv' /\ CopiedInv' /\ StreamInv' /\ TailInv'
  BY <1>1, <1>2, <1>4, ReadsKeepSender
<1>6. /\ read_ptr' \in Pointers /\ read_space' = read_space - in.size
      /\ \A i \in 0 .. read_space - in.size - 1 : Content'[i] = Content[in.size + i]
  BY <1>1, <1>2, Consumed DEF IInv
<1>7. TypeOK'
  BY <1>1, <1>2, <1>6 DEF IInv, TypeOK
<1>8. ReaderInv'
  <2>1. read_space' > 0 => in.size \in 1 .. read_space - 1 /\ Content'[0] = Content[in.size]
    BY <1>2, <1>6
  <2>2. read_space' > 0 => Content[in.size][2] = 1
    BY <1>2, <1>3, <2>1, NextBegins DEF IInv, StreamInv
  <2> QED  BY <1>1, <2>1, <2>2 DEF ReaderInv
<1>9. ChannelInv' /\ waiting # <<>> /\ Head(waiting) = in /\ waiting' = Tail(waiting)
  <2>1. waiting \in Seq(Messages)
    BY DEF IInv, ChannelInv
  <2>2. PICK ends : Marks(Content, read_space, waiting, ends)
    BY DEF IInv, ChannelInv
  <2>3. ASSUME NEW i \in 0 .. in.size - 2
        PROVE  Content[i][2] # Bytes(Content[i][1])
    <3>1. /\ i \in 0 .. read_space - 1 /\ Header + 1 \in 1 .. Bytes(in)
          /\ (Header + 1) + i <= Bytes(in) /\ (Header + 1) + i # Bytes(in)
      BY <1>2
    <3>2. Content[i] = <<in, (Header + 1) + i>>
      BY <1>2, <3>1, Follows, Zenon
    <3> QED  BY <3>1, <3>2
  <2>4. /\ waiting # <<>> /\ Head(waiting) = in
        /\ \E e : Marks(Content', read_space - in.size, SubSeq(waiting, 2, Len(waiting)), e)
    BY <1>2, <1>3, <1>6, <2>1, <2>2, <2>3, MarksTaken, Zenon
  <2>5. waiting' = Tail(waiting) /\ Tail(waiting) \in Seq(Messages)
    <3>1. Len(waiting) >= 1
      BY <2>1, <2>4
    <3> QED  BY <1>1, <2>1, <3>1, Later
  <2> QED  BY <1>1, <1>6, <2>4, <2>5 DEF ChannelInv
<1> QED  BY <1>1, <1>2, <1>5, <1>6, <1>7, <1>8, <1>9 DEF IInv

-----------------------------------------------------------------------------
(* The theorems.                                                           *)

\* A step that changes nothing.
LEMMA StutterKeepsInv ==
  ASSUME IInv, UNCHANGED vars
  PROVE  IInv'
<1>1. UNCHANGED <<buf, waiting, write_ptr, read_ptr, writerPc, out, sent, answer, readerPc,
                  in, got, delivered>>
  BY DEF vars, writerVars, readerVars
<1>2. read_space' = read_space /\ Content' = Content /\ \A i \in Int : Ahead(i)' = Ahead(i)
  BY <1>1, Untouched, Zenon
<1>3. CopiedInv'
  BY <1>1 DEF IInv, CopiedInv, Ahead, At, read_space
<1> QED  BY <1>1, <1>2, <1>3
           DEF IInv, TypeOK, SpaceInv, StreamInv, TailInv, ReaderInv, ChannelInv, Promised

\* The invariant holds throughout.
LEMMA SpecInv == Spec => []IInv
<1>1. IInv /\ [Next]_vars => IInv'
  <2> SUFFICES ASSUME IInv, [Next]_vars
               PROVE  IInv'
    OBVIOUS
  <2>1. CASE SenderNext
    BY <2>1, TestsKeepInv, CopiesKeepInv, PublishHeaderKeepsInv, PublishBodyKeepsInv, Zenon
      DEF SenderNext
  <2>2. CASE ReceiverNext
    BY <2>2, LooksKeepInv, ReadHeaderKeepsInv, ReadBodyKeepsInv, Zenon DEF ReceiverNext
  <2>3. CASE UNCHANGED vars
    BY <2>3, StutterKeepsInv
  <2> QED  BY <2>1, <2>2, <2>3 DEF Next
<1> QED  BY <1>1, InitInv, PTL DEF Spec

\* Type correctness of the ring and the two ends of the worker protocol
\* (lv2_ringbuffer.h, LV2Plugin.hpp).
THEOREM TypeCorrect == Spec => []TypeOK
<1>1. IInv => TypeOK
  BY DEF IInv
<1> QED  BY <1>1, SpecInv, PTL

\* No byte of the ring is written while it is read, for every size of the ring, of the
\* header and of the messages.
THEOREM RaceFree == Spec => []NoByteRace
<1>1. IInv => NoByteRace
  BY InvNoByteRace
<1> QED  BY <1>1, SpecInv, PTL

\* What work() or work_response() is given is a message that was sent, never bytes of two
\* of them or of a part of one (LV2Plugin.hpp:1411-1428).
THEOREM DeliversWhole == Spec => [](delivered # Garbled)
<1>1. IInv => delivered # Garbled
  BY GarbledAssumption DEF IInv, TypeOK
<1> QED  BY <1>1, SpecInv, PTL

-----------------------------------------------------------------------------
(* The channel.                                                            *)

\* The bytes of the waiting messages, in numbers.
LEMMA OccupiedIs ==
  ASSUME IInv
  PROVE  /\ Occupied \in Int /\ read_space \in Nat /\ Header \in Nat
         /\ Occupied = read_space - (IF writerPc \in Finishing THEN Header ELSE 0)
                                  + (IF readerPc \in Finishing THEN Header ELSE 0)
BY RangeFacts, HeaderAssumption DEF IInv, Occupied, Finishing

\* The steps that neither accept nor refuse nor deliver.
LEMMA QuietStepsStutter ==
  ASSUME IInv, \/ \E m \in Messages : SendTest(m)
               \/ CopyHeader \/ CopyBody \/ LookHeader \/ PeekSize \/ LookBody \/ CopyIn
  PROVE  UNCHANGED Channel!channelVars
<1>1. read_space' = read_space
  <2>1. CASE CopyHeader \/ CopyBody
    BY <2>1, CopiesKeepInv
  <2>2. CASE ~ (CopyHeader \/ CopyBody)
    <3>1. UNCHANGED <<write_ptr, read_ptr>>
      BY <2>2 DEF SendTest, LookHeader, PeekSize, LookBody, CopyIn, writerVars, readerVars
    <3> QED  BY <3>1 DEF read_space
  <2> QED  BY <2>1, <2>2
<1>2. /\ UNCHANGED <<waiting, answer, delivered>>
      /\ writerPc' \in Finishing <=> writerPc \in Finishing
      /\ readerPc' \in Finishing <=> readerPc \in Finishing
  BY DEF SendTest, CopyHeader, CopyBody, LookHeader, PeekSize, LookBody, CopyIn,
         writerVars, readerVars, Finishing
<1> QED  BY <1>1, <1>2 DEF Channel!channelVars, Occupied, Finishing

\* A message is accepted with its last byte: with the header if it has no body.
LEMMA PublishesMap ==
  ASSUME IInv, PublishHeader \/ PublishBody
  PROVE  Channel!Accept(out) \/ UNCHANGED Channel!channelVars
<1>1. out \in Messages /\ out.size \in Nat /\ Bytes(out) = Header + out.size
  <2>1. out \in Messages
    BY DEF IInv, TypeOK, PublishHeader, PublishBody
  <2> QED  BY <2>1, BytesNat
<1>2. IInv' /\ UNCHANGED <<readerPc, delivered, out>>
  BY PublishHeaderKeepsInv, PublishBodyKeepsInv DEF PublishHeader, PublishBody, readerVars
<1>3. CASE PublishHeader /\ out.size = 0
  <2>1. /\ writerPc \notin Finishing /\ writerPc' \notin Finishing
          /\ read_space' = read_space + Header
        /\ waiting' = Append(waiting, out) /\ answer' = "ok"
    BY <1>3, PublishHeaderKeepsInv DEF PublishHeader, Finishing
  <2>2. Occupied' = Occupied + Bytes(out)
    BY <1>1, <1>2, <1>3, <2>1, OccupiedIs DEF Occupied, Finishing
  <2> QED  BY <1>2, <2>1, <2>2 DEF Channel!Accept
<1>4. CASE PublishHeader /\ out.size # 0
  <2>1. /\ writerPc \notin Finishing /\ writerPc' \in Finishing /\ read_space' = read_space + Header
        /\ waiting' = waiting /\ answer' = answer
    BY <1>4, PublishHeaderKeepsInv DEF PublishHeader, Finishing
  <2>2. Occupied' = Occupied
    BY <1>2, <2>1, OccupiedIs DEF Occupied, Finishing
  <2> QED  BY <1>2, <2>1, <2>2 DEF Channel!channelVars
<1>5. CASE PublishBody
  <2>1. /\ writerPc \in Finishing /\ writerPc' \notin Finishing
          /\ read_space' = read_space + out.size
        /\ waiting' = Append(waiting, out) /\ answer' = "ok"
    BY <1>5, PublishBodyKeepsInv DEF PublishBody, Finishing
  <2>2. Occupied' = Occupied + Bytes(out)
    BY <1>1, <1>2, <2>1, OccupiedIs DEF Occupied, Finishing
  <2> QED  BY <1>2, <2>1, <2>2 DEF Channel!Accept
<1> QED  BY <1>3, <1>4, <1>5

\* A message is delivered with its last byte, and is the oldest.
LEMMA ReadsMap ==
  ASSUME IInv, ReadHeader \/ ReadBody
  PROVE  Channel!Deliver \/ UNCHANGED Channel!channelVars
<1>1. in \in Messages /\ in.size \in Nat /\ Bytes(in) = Header + in.size
  <2>1. in \in Messages
    BY DEF IInv, TypeOK, ReadHeader, ReadBody
  <2> QED  BY <2>1, BytesNat
<1>2. IInv' /\ UNCHANGED <<writerPc, answer>>
  BY ReadHeaderKeepsInv, ReadBodyKeepsInv DEF ReadHeader, ReadBody, writerVars
<1>3. CASE ReadHeader /\ in.size = 0
  <2>1. /\ readerPc \notin Finishing /\ readerPc' \notin Finishing
          /\ read_space' = read_space - Header
        /\ waiting # <<>> /\ Head(waiting) = in /\ waiting' = Tail(waiting) /\ delivered' = in
    BY <1>3, ReadHeaderKeepsInv DEF ReadHeader, Finishing
  <2>2. Occupied' = Occupied - Bytes(in)
    BY <1>1, <1>2, <1>3, <2>1, OccupiedIs DEF Occupied, Finishing
  <2> QED  BY <1>2, <2>1, <2>2 DEF Channel!Deliver
<1>4. CASE ReadHeader /\ in.size # 0
  <2>1. /\ readerPc \notin Finishing /\ readerPc' \in Finishing /\ read_space' = read_space - Header
        /\ waiting' = waiting /\ delivered' = delivered
    BY <1>4, ReadHeaderKeepsInv DEF ReadHeader, Finishing
  <2>2. Occupied' = Occupied
    BY <1>2, <2>1, OccupiedIs DEF Occupied, Finishing
  <2> QED  BY <1>2, <2>1, <2>2 DEF Channel!channelVars
<1>5. CASE ReadBody
  <2>1. /\ readerPc \in Finishing /\ readerPc' \notin Finishing
          /\ read_space' = read_space - in.size
        /\ waiting # <<>> /\ Head(waiting) = in /\ waiting' = Tail(waiting) /\ delivered' = in
    BY <1>5, ReadBodyKeepsInv DEF ReadBody, Finishing
  <2>2. Occupied' = Occupied - Bytes(in)
    BY <1>1, <1>2, <2>1, OccupiedIs DEF Occupied, Finishing
  <2> QED  BY <1>2, <2>1, <2>2 DEF Channel!Deliver
<1> QED  BY <1>3, <1>4, <1>5

\* NO_SPACE: the message does not fit beside the ones waiting.
LEMMA NoSpaceRefuses ==
  ASSUME IInv, NEW m \in Messages, NoSpace(m)
  PROVE  Channel!Refuse(m)
<1>1. /\ writerPc = "idle" /\ write_space < Bytes(m) /\ answer' = "full"
      /\ UNCHANGED <<waiting, delivered, write_ptr, read_ptr, writerPc, readerPc>>
  BY DEF NoSpace, readerVars
<1>2. Occupied + Bytes(m) > Size
  BY <1>1, OccupiedIs, BytesNat, SizeAssumption DEF Finishing, write_space
<1>3. Occupied' = Occupied
  BY <1>1 DEF Occupied, read_space
<1> QED  BY <1>1, <1>2, <1>3 DEF Channel!Refuse

\* The ring, the two writes and the two reads of each message are one message channel:
\* whole messages, once and in order, refused only when they do not fit
\* (LV2Plugin.hpp:1389-1396, 1411-1428).
THEOREM Refines == Spec => IsChannel
<1>1. Init => Channel!ChannelInit
  <2> SUFFICES ASSUME Init PROVE Channel!ChannelInit
    OBVIOUS
  <2>1. read_space = 0
    BY EmptyAtFirst
  <2>2. Occupied = 0
    BY <2>1, HeaderAssumption DEF Init, Occupied
  <2> QED  BY <2>2 DEF Init, Channel!ChannelInit
<1>2. IInv /\ [Next]_vars => [Channel!ChannelNext]_(Channel!channelVars)
  <2> SUFFICES ASSUME IInv, [Next]_vars PROVE [Channel!ChannelNext]_(Channel!channelVars)
    OBVIOUS
  <2>1. CASE \E m \in Messages : NoSpace(m)
    BY <2>1, NoSpaceRefuses, Zenon DEF Channel!ChannelNext
  <2>2. CASE \/ \E m \in Messages : SendTest(m)
             \/ CopyHeader \/ CopyBody \/ LookHeader \/ PeekSize \/ LookBody \/ CopyIn
    BY <2>2, QuietStepsStutter, Zenon
  <2>3. CASE PublishHeader \/ PublishBody
    <3>1. out \in Messages
      BY <2>3 DEF IInv, TypeOK, PublishHeader, PublishBody
    <3> QED  BY <2>3, <3>1, PublishesMap, Zenon DEF Channel!ChannelNext
  <2>4. CASE ReadHeader \/ ReadBody
    BY <2>4, ReadsMap, Zenon DEF Channel!ChannelNext
  <2>5. CASE UNCHANGED vars
    BY <2>5 DEF vars, writerVars, readerVars, Channel!channelVars, Occupied, read_space
  <2> QED  BY <2>1, <2>2, <2>3, <2>4, <2>5, Zenon DEF Next, SenderNext, ReceiverNext
<1> QED  BY <1>1, <1>2, SpecInv, PTL DEF Spec, IsChannel, Channel!Channel
=============================================================================
