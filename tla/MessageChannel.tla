--------------------------- MODULE MessageChannel ---------------------------
(***************************************************************************)
(* What a plugin and its worker may rely on when they pass messages (LV2   *)
(* worker extension, as src/src/LV2Plugin.hpp offers it): a message that   *)
(* was accepted is delivered whole, once, in the order of acceptance; a    *)
(* message is refused only when it does not fit beside the ones waiting.   *)
(***************************************************************************)
EXTENDS Integers, Sequences

CONSTANTS
  Messages,  \* the messages that are sent
  Bytes(_),  \* bytes a message takes, its header included
  Space,     \* bytes there are
  Nothing    \* no message yet

VARIABLES
  waiting,   \* messages accepted and not delivered, oldest first
  occupied,  \* the bytes they take
  answer,    \* what the sender was told last: "ok" or "full"
  delivered  \* the message delivered last

channelVars == <<waiting, occupied, answer, delivered>>

ChannelInit == waiting = <<>> /\ occupied = 0 /\ answer = "ok" /\ delivered = Nothing

Accept(m) ==
  /\ waiting' = Append(waiting, m) /\ occupied' = occupied + Bytes(m)
  /\ answer' = "ok"
  /\ UNCHANGED delivered

Refuse(m) ==
  /\ occupied + Bytes(m) > Space
  /\ answer' = "full"
  /\ UNCHANGED <<waiting, occupied, delivered>>

Deliver ==
  /\ waiting # <<>>
  /\ delivered' = Head(waiting) /\ waiting' = Tail(waiting)
  /\ occupied' = occupied - Bytes(Head(waiting))
  /\ UNCHANGED answer

ChannelNext == (\E m \in Messages : Accept(m) \/ Refuse(m)) \/ Deliver

Channel == ChannelInit /\ [][ChannelNext]_channelVars
=============================================================================
