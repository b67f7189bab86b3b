---------------------------- MODULE MessageRing ----------------------------
(***************************************************************************)
(* Messages of different sizes through lv2_ringbuffer_t                    *)
(* (src/src/lv2_ringbuffer.h), as host_schedule_work() and host_respond()  *)
(* write them and worker_thread_func() and deliver_worker_responses() read *)
(* them (src/src/LV2Plugin.hpp): a header with the size, then the body,    *)
(* each with a write and a read of its own.  One thread writes and one     *)
(* reads.                                                                  *)
(*                                                                         *)
(* A byte of the ring is a pair <<m, k>>, byte k of message m; the first   *)
(* Header of them are its size.  write() copies bytes and then advances    *)
(* write_ptr, read() copies bytes and then advances read_ptr.  The         *)
(* pointers are size_t values, which wrap at Modulus; the ring's size      *)
(* divides it.                                                             *)
(***************************************************************************)
EXTENDS Integers, SequencesExt

CONSTANTS
  Size,      \* bytes of the ring, a power of two
  Laps,      \* times Size fits in the range of size_t
  Header,    \* sizeof(uint32_t)
  Messages,  \* what is sent: records whose size is that of the body
  Nothing,   \* no message, no byte
  Garbled    \* what the receiver has when the bytes it read are not the message

ASSUME SizeAssumption     == Size \in Nat \ {0}
ASSUME LapsAssumption     == Laps \in Nat \ {0, 1}
ASSUME HeaderAssumption   == Header \in Nat \ {0}
ASSUME MessagesAssumption == \A m \in Messages : m.size \in Nat
ASSUME NothingAssumption  == Nothing \notin Messages
ASSUME GarbledAssumption  == Garbled \notin Messages \union {Nothing}

VARIABLES
  buf,                   \* the bytes of the ring
  write_ptr, read_ptr,
  writerPc, out, sent,   \* sender: next step, message, bytes copied by write()
  answer,                \* what the sender was told last: "ok" or "full"
  readerPc, in, got,     \* receiver: next step, message begun, bytes read
  delivered,             \* the message given to work() or work_response() last
  waiting                \* history: messages whose last byte is published and not consumed

writerVars == <<write_ptr, writerPc, out, sent, answer>>
readerVars == <<read_ptr, readerPc, in, got, delivered>>
vars == <<buf, waiting, writerVars, readerVars>>

Modulus    == Laps * Size
Pointers   == 0 .. Modulus - 1
Mask(p)    == p % Size
Plus(p, n) == (p + n) % Modulus

read_space  == (write_ptr - read_ptr) % Modulus

\* Seeded fault: one byte too many.
write_space_OneMore == Size + 1 - read_space

write_space == Size - read_space

Bytes(m)  == Header + m.size
HeaderOf(m) == [k \in 1 .. Header |-> <<m, k>>]
BodyOf(m)   == [k \in 1 .. m.size |-> <<m, Header + k>>]

\* The n bytes of the ring from pointer p on, and the slots they are in.
Stored(p, n) == [k \in 1 .. n |-> buf[Mask(Plus(p, k - 1))]]
Region(p, n) == {Mask(Plus(p, k - 1)) : k \in 1 .. n}

Init ==
  /\ buf = [s \in 0 .. Size - 1 |-> Nothing] /\ waiting = <<>>
  /\ write_ptr = 0 /\ writerPc = "idle" /\ out = Nothing /\ sent = 0 /\ answer = "ok"
  /\ read_ptr = 0 /\ readerPc = "idle" /\ in = Nothing /\ got = <<>> /\ delivered = Nothing

-----------------------------------------------------------------------------
(* The sender.                                                             *)

NoSpace(m) ==
  /\ writerPc = "idle" /\ write_space < Bytes(m)
  /\ answer' = "full"
  /\ UNCHANGED <<buf, waiting, write_ptr, writerPc, out, sent, readerVars>>

SendTest(m) ==
  /\ writerPc = "idle" /\ write_space >= Bytes(m)
  /\ writerPc' = "header" /\ out' = m
  /\ UNCHANGED <<buf, waiting, write_ptr, sent, answer, readerVars>>

\* write() copies as many bytes as there is space for.
Fitting(bytes) == IF Len(bytes) <= write_space THEN Len(bytes) ELSE write_space

Copy(bytes) ==
  /\ sent' = Fitting(bytes)
  /\ buf' = [s \in DOMAIN buf |->
               IF \E k \in 1 .. Fitting(bytes) : s = Mask(Plus(write_ptr, k - 1))
               THEN bytes[CHOOSE k \in 1 .. Fitting(bytes) : s = Mask(Plus(write_ptr, k - 1))]
               ELSE buf[s]]

CopyHeader ==
  /\ writerPc = "header" /\ Copy(HeaderOf(out))
  /\ writerPc' = "headerCopied"
  /\ UNCHANGED <<waiting, write_ptr, out, answer, readerVars>>

\* A body without bytes is written by doing nothing.
PublishHeader ==
  /\ writerPc = "headerCopied"
  /\ write_ptr' = Plus(write_ptr, sent)
  /\ IF out.size = 0 THEN writerPc' = "idle" /\ answer' = "ok" /\ waiting' = Append(waiting, out)
                     ELSE writerPc' = "body" /\ UNCHANGED <<answer, waiting>>
  /\ UNCHANGED <<buf, out, sent, readerVars>>

CopyBody ==
  /\ writerPc = "body" /\ Copy(BodyOf(out))
  /\ writerPc' = "bodyCopied"
  /\ UNCHANGED <<waiting, write_ptr, out, answer, readerVars>>

PublishBody ==
  /\ writerPc = "bodyCopied"
  /\ write_ptr' = Plus(write_ptr, sent)
  /\ writerPc' = "idle" /\ answer' = "ok" /\ waiting' = Append(waiting, out)
  /\ UNCHANGED <<buf, out, sent, readerVars>>

-----------------------------------------------------------------------------
(* The receiver.                                                           *)

\* The oldest message is gone.
Rest == SubSeq(waiting, 2, Len(waiting))

LookHeader ==
  /\ readerPc = "idle" /\ read_space >= Header
  /\ readerPc' = "peek"
  /\ UNCHANGED <<buf, waiting, writerVars, read_ptr, in, got, delivered>>

\* The size is peeked at: of the message whose header the bytes are.
PeekSize ==
  /\ readerPc = "peek"
  /\ LET header == Stored(read_ptr, Header)
     IN  in' = IF \E m \in Messages : header = HeaderOf(m)
               THEN CHOOSE m \in Messages : header = HeaderOf(m) ELSE Nothing
  /\ readerPc' = "look"
  /\ UNCHANGED <<buf, waiting, writerVars, read_ptr, got, delivered>>

\* Seeded fault: the whole message and one byte more are waited for.
LookBody_OneMore ==
  /\ readerPc = "look"
  /\ readerPc' = IF read_space > Bytes(in) THEN "header" ELSE "idle"
  /\ UNCHANGED <<buf, waiting, writerVars, read_ptr, in, got, delivered>>

\* Seeded fault: the header alone is taken for the message.
LookBody_HeaderOnly ==
  /\ readerPc = "look"
  /\ readerPc' = "header"
  /\ UNCHANGED <<buf, waiting, writerVars, read_ptr, in, got, delivered>>

\* As long as the body is missing the receiver comes back later.
LookBody ==
  /\ readerPc = "look"
  /\ readerPc' = IF read_space >= Bytes(in) THEN "header" ELSE "idle"
  /\ UNCHANGED <<buf, waiting, writerVars, read_ptr, in, got, delivered>>

\* The same bytes are copied again, and now consumed.
ReadHeader ==
  /\ readerPc = "header"
  /\ read_ptr' = Plus(read_ptr, Header)
  /\ IF in.size = 0 THEN readerPc' = "idle" /\ delivered' = in /\ waiting' = Rest
                    ELSE readerPc' = "body" /\ UNCHANGED <<delivered, waiting>>
  /\ UNCHANGED <<buf, writerVars, in, got>>

\* read() copies as many bytes as there are.
CopyIn ==
  /\ readerPc = "body"
  /\ got' = Stored(read_ptr, IF in.size <= read_space THEN in.size ELSE read_space)
  /\ readerPc' = "bodyCopied"
  /\ UNCHANGED <<buf, waiting, writerVars, read_ptr, in, delivered>>

ReadBody ==
  /\ readerPc = "bodyCopied"
  /\ read_ptr' = Plus(read_ptr, Len(got))
  /\ delivered' = IF got = BodyOf(in) THEN in ELSE Garbled
  /\ readerPc' = "idle" /\ got' = <<>> /\ waiting' = Rest
  /\ UNCHANGED <<buf, writerVars, in>>

SenderNext == \/ \E m \in Messages : NoSpace(m) \/ SendTest(m)
              \/ CopyHeader \/ PublishHeader \/ CopyBody \/ PublishBody
ReceiverNext == LookHeader \/ PeekSize \/ LookBody \/ ReadHeader \/ CopyIn \/ ReadBody
Next == SenderNext \/ ReceiverNext

Spec == Init /\ [][Next]_vars

\* The receiver polls: the worker thread for ever, the audio thread after each run().
FairSpec == Spec /\ WF_vars(ReceiverNext)

-----------------------------------------------------------------------------
(* Properties.                                                             *)

\* The bytes of the ring are plain memory: no byte is written and read at the same
\* time, wherever in the ring a header or a body begins and wraps.
Written == CASE writerPc = "header" -> Region(write_ptr, Fitting(HeaderOf(out)))
             [] writerPc = "body"   -> Region(write_ptr, Fitting(BodyOf(out)))
             [] OTHER               -> {}
BeingRead == CASE readerPc \in {"peek", "header"} -> Region(read_ptr, Header)
               [] readerPc = "body"               -> Region(read_ptr, in.size)
               [] OTHER                           -> {}
NoByteRace == Written \intersect BeingRead = {}

\* The bytes of the waiting messages: those between the pointers, without a header whose
\* body is not published yet, with one that is consumed before its body.
Occupied == read_space - (IF writerPc \in {"body", "bodyCopied"} THEN Header ELSE 0)
                       + (IF readerPc \in {"body", "bodyCopied"} THEN Header ELSE 0)

\* Two writes and two reads for each message, in any order the threads take them,
\* are one message channel: nothing is torn, lost, repeated or reordered, and
\* NO_SPACE is only answered when the message does not fit (LV2Plugin.hpp:1389-1396,
\* 1411-1428).
Channel == INSTANCE MessageChannel WITH occupied <- Occupied, Space <- Size
IsChannel == Channel!Channel

\* A message that was accepted arrives.
Arrives == \A m \in Messages : m \in ToSet(waiting) ~> delivered = m
=============================================================================
