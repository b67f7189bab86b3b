-------------------------- MODULE EffectChainProofs --------------------------
(***************************************************************************)
(* The chain of EffectChain for every number of slots, edits and paths.    *)
(* The argument: the UI thread changes slots only while it holds the mutex *)
(* of the engine, and a message only while it holds that of the mailbox;   *)
(* the audio thread looks at them only while it holds the same mutex.      *)
(***************************************************************************)
EXTENDS EffectChain, TLAPS

USE SlotsAssumption, BoundsAssumption, SizesAssumption

\* The callback is inside the chain; the UI thread is inside pluginMutex.
InChain == audioPc \in {"slot", "mail", "copy", "run"}
Editing == uiPc \in {"remove", "load", "write", "unlock", "leave"}

\* Who holds pluginMutex, and that a plugin about to run is loaded and enabled.
EngineInv ==
  /\ (mutex = "ui") <=> Editing
  /\ (mutex = "audio") <=> InChain
  /\ audioPc \in {"mail", "copy", "run"} => k \in Slots /\ enabled[k] = "on"

\* What has run so far: the enabled plugins of the slots passed.
RanInv ==
  /\ audioPc \in {"bypass", "lock"} => k = 1
  /\ audioPc # "idle" =>
       \A i \in Slots : ran[i] = IF i < k /\ enabled[i] = "on" THEN slot[i] ELSE 0

\* Who holds the mutex of a mailbox, and that a message is whole outside it.
MailInv ==
  /\ uiPc = "assigned" => head[pos] = paths
  /\ \A i \in Slots :
       /\ (mailLock[i] = "ui") <=> (uiPc \in {"assign", "assigned"} /\ pos = i)
       /\ (mailLock[i] = "audio") <=> (audioPc = "copy" /\ k = i)
       /\ ~(uiPc = "assigned" /\ pos = i) => head[i] = tail[i]
       /\ gotHead[i] = gotTail[i]

IInv == TypeOK /\ EngineInv /\ RanInv /\ MailInv

\* The invariant holds when the engine is new: no plugin, no message, nobody at work.
LEMMA InitInv == Init => IInv
  BY SMT DEF Init, IInv, TypeOK, GraphTypes, MailTypes, AudioTypes, UiTypes, EngineInv,
             RanInv, MailInv, InChain, Editing, Slots, Rebuilding, Tweaking

-----------------------------------------------------------------------------
(* The types.                                                              *)

\* A function updated with a value of its range keeps its type.
LEMMA Put == ASSUME NEW S, NEW T, NEW g \in [S -> T], NEW i, NEW v \in T
             PROVE  [g EXCEPT ![i] = v] \in [S -> T]
  BY Zenon

\* A step that leaves a group of variables alone keeps its types.
LEMMA GraphStays == GraphTypes /\ UNCHANGED <<slot, enabled, bypass, mutex>> => GraphTypes'
  BY SMT DEF GraphTypes
\* The same for the mailboxes.
LEMMA MailStays == MailTypes /\ UNCHANGED mailVars => MailTypes'
  BY SMT DEF MailTypes, mailVars
\* The same for the callback.
LEMMA AudioStays == AudioTypes /\ UNCHANGED audioVars => AudioTypes'
  BY SMT DEF AudioTypes, audioVars
\* The same for the UI thread.
LEMMA UiStays == UiTypes /\ UNCHANGED uiVars => UiTypes'
  BY SMT DEF UiTypes, uiVars

\* Every step keeps the types.
LEMMA NextType == IInv /\ [Next]_vars => TypeOK'
<1> SUFFICES ASSUME IInv, [Next]_vars PROVE TypeOK'
  OBVIOUS
<1> USE DEF TypeOK
<1>0. GraphTypes /\ MailTypes /\ AudioTypes /\ UiTypes
  BY DEF IInv
<1>1. ASSUME NEW i \in Slots, NEW o \in Rebuilding \cup Tweaking, UiBegin(o, i)
      PROVE  TypeOK'
  <2>1. GraphTypes'
    BY <1>0, <1>1, SMT DEF UiBegin, GraphTypes, graphVars
  <2>2. MailTypes'
    BY <1>0, <1>1, MailStays DEF UiBegin
  <2>3. AudioTypes'
    BY <1>0, <1>1, AudioStays DEF UiBegin
  <2>4. UiTypes'
    BY <1>0, <1>1, SMT DEF UiBegin, UiTypes, Rebuilding, Tweaking
  <2> QED
    BY <2>1, <2>2, <2>3, <2>4
<1>2. ASSUME NEW i \in Slots, UiPath(i) PROVE TypeOK'
  <2>1. GraphTypes'
    BY <1>0, <1>2, GraphStays DEF UiPath, graphVars
  <2>2. MailTypes'
    <3>1. mailLock' \in [Slots -> {"free", "ui", "audio"}]
      BY <1>0, <1>2, Put, SMT DEF UiPath, MailTypes
    <3>2. UNCHANGED <<head, tail, pending, gotHead, gotTail>>
      BY <1>0, <1>2 DEF UiPath, mailVars
    <3> QED
      BY <1>0, <3>1, <3>2, SMT DEF MailTypes
  <2>3. AudioTypes'
    BY <1>0, <1>2, AudioStays DEF UiPath
  <2>4. UiTypes'
    BY <1>0, <1>2, SMT DEF UiPath, UiTypes, Rebuilding, Tweaking
  <2> QED
    BY <2>1, <2>2, <2>3, <2>4
<1>3. CASE UiLock
  <2>1. GraphTypes'
    BY <1>0, <1>3, SMT DEF UiLock, GraphTypes, graphVars
  <2>2. MailTypes'
    BY <1>0, <1>3, MailStays DEF UiLock
  <2>3. AudioTypes'
    BY <1>0, <1>3, AudioStays DEF UiLock
  <2>4. UiTypes'
    BY <1>0, <1>3, SMT DEF UiLock, UiTypes, Rebuilding, Tweaking
  <2> QED
    BY <2>1, <2>2, <2>3, <2>4
<1>4. CASE UiRemove
  <2>1. GraphTypes'
    <3>1. slot' \in [Slots -> 0 .. MaxEdits]
      BY <1>0, <1>4, Put, SMT DEF UiRemove, GraphTypes, UiTypes
    <3>2. enabled' \in [Slots -> {"on", "off"}]
      BY <1>0, <1>4, Put, SMT DEF UiRemove, GraphTypes
    <3>3. UNCHANGED <<bypass, mutex>>
      BY <1>0, <1>4 DEF UiRemove
    <3> QED
      BY <1>0, <3>1, <3>2, <3>3, SMT DEF GraphTypes
  <2>2. MailTypes'
    BY <1>0, <1>4, MailStays DEF UiRemove
  <2>3. AudioTypes'
    BY <1>0, <1>4, AudioStays DEF UiRemove
  <2>4. UiTypes'
    BY <1>0, <1>4, SMT DEF UiRemove, UiTypes, Rebuilding, Tweaking
  <2> QED
    BY <2>1, <2>2, <2>3, <2>4
<1>5. CASE UiLoad
  <2>1. GraphTypes'
    <3>1. slot' \in [Slots -> 0 .. MaxEdits]
      BY <1>0, <1>5, Put, SMT DEF UiLoad, GraphTypes, UiTypes
    <3>2. enabled' \in [Slots -> {"on", "off"}]
      BY <1>0, <1>5, Put, SMT DEF UiLoad, GraphTypes, UiTypes
    <3>3. UNCHANGED <<bypass, mutex>>
      BY <1>0, <1>5 DEF UiLoad
    <3> QED
      BY <1>0, <3>1, <3>2, <3>3, SMT DEF GraphTypes
  <2>2. MailTypes'
    <3>1. head' \in [Slots -> 0 .. MaxPaths]
      BY <1>0, <1>5, Put, SMT DEF UiLoad, MailTypes, UiTypes
    <3>2. tail' \in [Slots -> 0 .. MaxPaths]
      BY <1>0, <1>5, Put, SMT DEF UiLoad, MailTypes, UiTypes
    <3>3. pending' \in [Slots -> {"yes", "no"}]
      BY <1>0, <1>5, Put, SMT DEF UiLoad, MailTypes, UiTypes
    <3>4. gotHead' \in [Slots -> 0 .. MaxPaths]
      BY <1>0, <1>5, Put, SMT DEF UiLoad, MailTypes, UiTypes
    <3>5. gotTail' \in [Slots -> 0 .. MaxPaths]
      BY <1>0, <1>5, Put, SMT DEF UiLoad, MailTypes, UiTypes
    <3>6. UNCHANGED <<mailLock>>
      BY <1>0, <1>5 DEF UiLoad, mailVars
    <3> QED
      BY <1>0, <3>1, <3>2, <3>3, <3>4, <3>5, <3>6, SMT DEF MailTypes
  <2>3. AudioTypes'
    BY <1>0, <1>5, AudioStays DEF UiLoad
  <2>4. UiTypes'
    BY <1>0, <1>5, SMT DEF UiLoad, UiTypes, Rebuilding, Tweaking
  <2> QED
    BY <2>1, <2>2, <2>3, <2>4
<1>6. CASE UiLoadFails
  <2>1. GraphTypes'
    BY <1>0, <1>6, SMT DEF UiLoadFails, GraphTypes, graphVars
  <2>2. MailTypes'
    BY <1>0, <1>6, MailStays DEF UiLoadFails
  <2>3. AudioTypes'
    BY <1>0, <1>6, AudioStays DEF UiLoadFails
  <2>4. UiTypes'
    BY <1>0, <1>6, SMT DEF UiLoadFails, UiTypes, Rebuilding, Tweaking
  <2> QED
    BY <2>1, <2>2, <2>3, <2>4
<1>7. CASE UiWrite
  <2>1. GraphTypes'
    <3>1. enabled' \in [Slots -> {"on", "off"}]
      BY <1>0, <1>7, Put, SMT DEF UiWrite, GraphTypes
    <3>2. UNCHANGED <<slot, bypass, mutex>>
      BY <1>0, <1>7 DEF UiWrite
    <3> QED
      BY <1>0, <3>1, <3>2, SMT DEF GraphTypes
  <2>2. MailTypes'
    BY <1>0, <1>7, MailStays DEF UiWrite
  <2>3. AudioTypes'
    BY <1>0, <1>7, AudioStays DEF UiWrite
  <2>4. UiTypes'
    BY <1>0, <1>7, SMT DEF UiWrite, UiTypes, Rebuilding, Tweaking
  <2> QED
    BY <2>1, <2>2, <2>3, <2>4
<1>8. CASE UiUnlock
  <2>1. GraphTypes'
    BY <1>0, <1>8, SMT DEF UiUnlock, GraphTypes, graphVars
  <2>2. MailTypes'
    BY <1>0, <1>8, MailStays DEF UiUnlock
  <2>3. AudioTypes'
    BY <1>0, <1>8, AudioStays DEF UiUnlock
  <2>4. UiTypes'
    BY <1>0, <1>8, SMT DEF UiUnlock, UiTypes, Rebuilding, Tweaking
  <2> QED
    BY <2>1, <2>2, <2>3, <2>4
<1>9. CASE UiResume
  <2>1. GraphTypes'
    BY <1>0, <1>9, SMT DEF UiResume, GraphTypes, graphVars
  <2>2. MailTypes'
    BY <1>0, <1>9, MailStays DEF UiResume
  <2>3. AudioTypes'
    BY <1>0, <1>9, AudioStays DEF UiResume
  <2>4. UiTypes'
    BY <1>0, <1>9, SMT DEF UiResume, UiTypes, Rebuilding, Tweaking
  <2> QED
    BY <2>1, <2>2, <2>3, <2>4
<1>10. CASE UiAssign
  <2>1. GraphTypes'
    BY <1>0, <1>10, GraphStays DEF UiAssign, graphVars
  <2>2. MailTypes'
    <3>1. head' \in [Slots -> 0 .. MaxPaths]
      BY <1>0, <1>10, Put, SMT DEF UiAssign, MailTypes, UiTypes
    <3>2. UNCHANGED <<tail, pending, mailLock, gotHead, gotTail>>
      BY <1>0, <1>10 DEF UiAssign, mailVars
    <3> QED
      BY <1>0, <3>1, <3>2, SMT DEF MailTypes
  <2>3. AudioTypes'
    BY <1>0, <1>10, AudioStays DEF UiAssign
  <2>4. UiTypes'
    BY <1>0, <1>10, SMT DEF UiAssign, UiTypes, Rebuilding, Tweaking
  <2> QED
    BY <2>1, <2>2, <2>3, <2>4
<1>11. CASE UiAssigned
  <2>1. GraphTypes'
    BY <1>0, <1>11, GraphStays DEF UiAssigned, graphVars
  <2>2. MailTypes'
    <3>1. tail' \in [Slots -> 0 .. MaxPaths]
      BY <1>0, <1>11, Put, SMT DEF UiAssigned, MailTypes, UiTypes
    <3>2. mailLock' \in [Slots -> {"free", "ui", "audio"}]
      BY <1>0, <1>11, Put, SMT DEF UiAssigned, MailTypes, UiTypes
    <3>3. UNCHANGED <<head, pending, gotHead, gotTail>>
      BY <1>0, <1>11 DEF UiAssigned, mailVars
    <3> QED
      BY <1>0, <3>1, <3>2, <3>3, SMT DEF MailTypes
  <2>3. AudioTypes'
    BY <1>0, <1>11, AudioStays DEF UiAssigned
  <2>4. UiTypes'
    BY <1>0, <1>11, SMT DEF UiAssigned, UiTypes, Rebuilding, Tweaking
  <2> QED
    BY <2>1, <2>2, <2>3, <2>4
<1>12. CASE UiFlag
  <2>1. GraphTypes'
    BY <1>0, <1>12, GraphStays DEF UiFlag, graphVars
  <2>2. MailTypes'
    <3>1. pending' \in [Slots -> {"yes", "no"}]
      BY <1>0, <1>12, Put, SMT DEF UiFlag, MailTypes
    <3>2. UNCHANGED <<head, tail, mailLock, gotHead, gotTail>>
      BY <1>0, <1>12 DEF UiFlag, mailVars
    <3> QED
      BY <1>0, <3>1, <3>2, SMT DEF MailTypes
  <2>3. AudioTypes'
    BY <1>0, <1>12, AudioStays DEF UiFlag
  <2>4. UiTypes'
    BY <1>0, <1>12, SMT DEF UiFlag, UiTypes, Rebuilding, Tweaking
  <2> QED
    BY <2>1, <2>2, <2>3, <2>4
<1>13. CASE AudioCall
  <2>1. GraphTypes'
    BY <1>0, <1>13, GraphStays DEF AudioCall, graphVars
  <2>2. MailTypes'
    BY <1>0, <1>13, MailStays DEF AudioCall
  <2>3. AudioTypes'
    BY <1>0, <1>13, SMT DEF AudioCall, AudioTypes, audioVars
  <2>4. UiTypes'
    BY <1>0, <1>13, UiStays DEF AudioCall
  <2> QED
    BY <2>1, <2>2, <2>3, <2>4
<1>14. CASE AudioBypassed
  <2>1. GraphTypes'
    BY <1>0, <1>14, GraphStays DEF AudioBypassed, graphVars
  <2>2. MailTypes'
    BY <1>0, <1>14, MailStays DEF AudioBypassed
  <2>3. AudioTypes'
    BY <1>0, <1>14, SMT DEF AudioBypassed, AudioTypes, audioVars
  <2>4. UiTypes'
    BY <1>0, <1>14, UiStays DEF AudioBypassed
  <2> QED
    BY <2>1, <2>2, <2>3, <2>4
<1>15. CASE AudioNotBypassed
  <2>1. GraphTypes'
    BY <1>0, <1>15, GraphStays DEF AudioNotBypassed, graphVars
  <2>2. MailTypes'
    BY <1>0, <1>15, MailStays DEF AudioNotBypassed
  <2>3. AudioTypes'
    BY <1>0, <1>15, SMT DEF AudioNotBypassed, AudioTypes, audioVars
  <2>4. UiTypes'
    BY <1>0, <1>15, UiStays DEF AudioNotBypassed
  <2> QED
    BY <2>1, <2>2, <2>3, <2>4
<1>16. CASE AudioRefused
  <2>1. GraphTypes'
    BY <1>0, <1>16, GraphStays DEF AudioRefused, graphVars
  <2>2. MailTypes'
    BY <1>0, <1>16, MailStays DEF AudioRefused
  <2>3. AudioTypes'
    BY <1>0, <1>16, SMT DEF AudioRefused, AudioTypes, audioVars
  <2>4. UiTypes'
    BY <1>0, <1>16, UiStays DEF AudioRefused
  <2> QED
    BY <2>1, <2>2, <2>3, <2>4
<1>17. CASE AudioLock
  <2>1. GraphTypes'
    BY <1>0, <1>17, SMT DEF AudioLock, GraphTypes, graphVars
  <2>2. MailTypes'
    BY <1>0, <1>17, MailStays DEF AudioLock
  <2>3. AudioTypes'
    BY <1>0, <1>17, SMT DEF AudioLock, AudioTypes, audioVars
  <2>4. UiTypes'
    BY <1>0, <1>17, UiStays DEF AudioLock
  <2> QED
    BY <2>1, <2>2, <2>3, <2>4
<1>18. CASE AudioSkip
  <2>1. GraphTypes'
    BY <1>0, <1>18, GraphStays DEF AudioSkip, graphVars
  <2>2. MailTypes'
    BY <1>0, <1>18, MailStays DEF AudioSkip
  <2>3. AudioTypes'
    BY <1>0, <1>18, SMT DEF AudioSkip, AudioTypes, audioVars, Slots
  <2>4. UiTypes'
    BY <1>0, <1>18, UiStays DEF AudioSkip
  <2> QED
    BY <2>1, <2>2, <2>3, <2>4
<1>19. CASE AudioTakeFlag
  <2>1. GraphTypes'
    BY <1>0, <1>19, GraphStays DEF AudioTakeFlag, graphVars
  <2>2. MailTypes'
    <3>1. pending' \in [Slots -> {"yes", "no"}]
      BY <1>0, <1>19, Put, SMT DEF AudioTakeFlag, MailTypes
    <3>2. UNCHANGED <<head, tail, mailLock, gotHead, gotTail>>
      BY <1>0, <1>19 DEF AudioTakeFlag, mailVars
    <3> QED
      BY <1>0, <3>1, <3>2, SMT DEF MailTypes
  <2>3. AudioTypes'
    BY <1>0, <1>19, SMT DEF AudioTakeFlag, AudioTypes, audioVars
  <2>4. UiTypes'
    BY <1>0, <1>19, UiStays DEF AudioTakeFlag
  <2> QED
    BY <2>1, <2>2, <2>3, <2>4
<1>20. CASE AudioMailLock
  <2>1. GraphTypes'
    BY <1>0, <1>20, GraphStays DEF AudioMailLock, graphVars
  <2>2. MailTypes'
    <3>1. mailLock' \in [Slots -> {"free", "ui", "audio"}]
      BY <1>0, <1>20, Put, SMT DEF AudioMailLock, MailTypes
    <3>2. UNCHANGED <<head, tail, pending, gotHead, gotTail>>
      BY <1>0, <1>20 DEF AudioMailLock, mailVars
    <3> QED
      BY <1>0, <3>1, <3>2, SMT DEF MailTypes
  <2>3. AudioTypes'
    BY <1>0, <1>20, SMT DEF AudioMailLock, AudioTypes, audioVars
  <2>4. UiTypes'
    BY <1>0, <1>20, UiStays DEF AudioMailLock
  <2> QED
    BY <2>1, <2>2, <2>3, <2>4
<1>21. CASE AudioCopy
  <2>1. GraphTypes'
    BY <1>0, <1>21, GraphStays DEF AudioCopy, graphVars
  <2>2. MailTypes'
    <3>1. gotHead' \in [Slots -> 0 .. MaxPaths]
      BY <1>0, <1>21, Put, SMT DEF AudioCopy, MailTypes
    <3>2. gotTail' \in [Slots -> 0 .. MaxPaths]
      BY <1>0, <1>21, Put, SMT DEF AudioCopy, MailTypes
    <3>3. mailLock' \in [Slots -> {"free", "ui", "audio"}]
      BY <1>0, <1>21, Put, SMT DEF AudioCopy, MailTypes
    <3>4. UNCHANGED <<head, tail, pending>>
      BY <1>0, <1>21 DEF AudioCopy, mailVars
    <3> QED
      BY <1>0, <3>1, <3>2, <3>3, <3>4, SMT DEF MailTypes
  <2>3. AudioTypes'
    BY <1>0, <1>21, SMT DEF AudioCopy, AudioTypes, audioVars
  <2>4. UiTypes'
    BY <1>0, <1>21, UiStays DEF AudioCopy
  <2> QED
    BY <2>1, <2>2, <2>3, <2>4
<1>22. CASE AudioRun
  <2>1. GraphTypes'
    BY <1>0, <1>22, GraphStays DEF AudioRun, graphVars
  <2>2. MailTypes'
    BY <1>0, <1>22, MailStays DEF AudioRun
  <2>3. AudioTypes'
    BY <1>0, <1>22, SMT DEF AudioRun, AudioTypes, audioVars, GraphTypes, IInv, EngineInv, Slots
  <2>4. UiTypes'
    BY <1>0, <1>22, UiStays DEF AudioRun
  <2> QED
    BY <2>1, <2>2, <2>3, <2>4
<1>23. CASE AudioReturn
  <2>1. GraphTypes'
    BY <1>0, <1>23, SMT DEF AudioReturn, GraphTypes, graphVars
  <2>2. MailTypes'
    BY <1>0, <1>23, MailStays DEF AudioReturn
  <2>3. AudioTypes'
    BY <1>0, <1>23, SMT DEF AudioReturn, AudioTypes, audioVars
  <2>4. UiTypes'
    BY <1>0, <1>23, UiStays DEF AudioReturn
  <2> QED
    BY <2>1, <2>2, <2>3, <2>4
<1>24. CASE UNCHANGED vars
  BY <1>0, <1>24, GraphStays, MailStays, AudioStays, UiStays DEF vars, graphVars
<1> QED
  BY <1>1, <1>2, <1>3, <1>4, <1>5, <1>6, <1>7, <1>8, <1>9, <1>10, <1>11, <1>12, <1>13,
     <1>14, <1>15, <1>16, <1>17, <1>18, <1>19, <1>20, <1>21, <1>22, <1>23, <1>24, Zenon
     DEF Next, UiStep, AudioStep
-----------------------------------------------------------------------------
(* Who holds what, and what has run.                                       *)

\* Every step keeps the order of the mutex of the engine.
LEMMA NextEngine == IInv /\ [Next]_vars => EngineInv'
<1> SUFFICES ASSUME IInv, [Next]_vars PROVE EngineInv'
  OBVIOUS
<1> USE DEF IInv, EngineInv, InChain, Editing, TypeOK, GraphTypes, AudioTypes, UiTypes, Slots,
           Rebuilding, Tweaking, graphVars, mailVars, audioVars, uiVars
<1>1. ASSUME NEW i \in Slots, NEW o \in Rebuilding \cup Tweaking, UiBegin(o, i)
      PROVE  EngineInv'
  BY <1>1, SMT DEF UiBegin
<1>2. ASSUME NEW i \in Slots, UiPath(i) PROVE EngineInv'
  BY <1>2, SMT DEF UiPath
<1>3. CASE UiLock
  BY <1>3, SMT DEF UiLock
<1>4. CASE UiRemove
  BY <1>4, SMT DEF UiRemove
<1>5. CASE UiLoad
  BY <1>5, SMT DEF UiLoad
<1>6. CASE UiLoadFails
  BY <1>6, SMT DEF UiLoadFails
<1>7. CASE UiWrite
  BY <1>7, SMT DEF UiWrite
<1>8. CASE UiUnlock
  BY <1>8, SMT DEF UiUnlock
<1>9. CASE UiResume
  BY <1>9, SMT DEF UiResume
<1>10. CASE UiAssign
  BY <1>10, SMT DEF UiAssign
<1>11. CASE UiAssigned
  BY <1>11, SMT DEF UiAssigned
<1>12. CASE UiFlag
  BY <1>12, SMT DEF UiFlag
<1>13. CASE AudioCall
  BY <1>13, SMT DEF AudioCall
<1>14. CASE AudioBypassed
  BY <1>14, SMT DEF AudioBypassed
<1>15. CASE AudioNotBypassed
  BY <1>15, SMT DEF AudioNotBypassed
<1>16. CASE AudioRefused
  BY <1>16, SMT DEF AudioRefused
<1>17. CASE AudioLock
  BY <1>17, SMT DEF AudioLock
<1>18. CASE AudioSkip
  BY <1>18, SMT DEF AudioSkip
<1>19. CASE AudioTakeFlag
  BY <1>19, SMT DEF AudioTakeFlag
<1>20. CASE AudioMailLock
  BY <1>20, SMT DEF AudioMailLock
<1>21. CASE AudioCopy
  BY <1>21, SMT DEF AudioCopy
<1>22. CASE AudioRun
  BY <1>22, SMT DEF AudioRun
<1>23. CASE AudioReturn
  BY <1>23, SMT DEF AudioReturn
<1>24. CASE UNCHANGED vars
  BY <1>24, SMT DEF vars
<1> QED
  BY <1>1, <1>2, <1>3, <1>4, <1>5, <1>6, <1>7, <1>8, <1>9, <1>10, <1>11, <1>12, <1>13,
     <1>14, <1>15, <1>16, <1>17, <1>18, <1>19, <1>20, <1>21, <1>22, <1>23, <1>24, Zenon
     DEF Next, UiStep, AudioStep

\* Every step keeps what has run in step with the slots.
LEMMA NextRan == IInv /\ [Next]_vars => RanInv'
<1> SUFFICES ASSUME IInv, [Next]_vars PROVE RanInv'
  OBVIOUS
<1> USE DEF IInv, EngineInv, RanInv, InChain, Editing, TypeOK, GraphTypes, AudioTypes,
            UiTypes, Slots, graphVars, mailVars, audioVars, uiVars
<1>1. ASSUME NEW i \in Slots, NEW o \in Rebuilding \cup Tweaking, UiBegin(o, i)
      PROVE  RanInv'
  BY <1>1, SMT DEF UiBegin
<1>2. ASSUME NEW i \in Slots, UiPath(i) PROVE RanInv'
  BY <1>2, SMT DEF UiPath
<1>3. CASE UiLock
  BY <1>3, SMT DEF UiLock
<1>4. CASE UiRemove
  BY <1>4, SMT DEF UiRemove
<1>5. CASE UiLoad
  BY <1>5, SMT DEF UiLoad
<1>6. CASE UiLoadFails
  BY <1>6, SMT DEF UiLoadFails
<1>7. CASE UiWrite
  BY <1>7, SMT DEF UiWrite
<1>8. CASE UiUnlock
  BY <1>8, SMT DEF UiUnlock
<1>9. CASE UiResume
  BY <1>9, SMT DEF UiResume
<1>10. CASE UiAssign
  BY <1>10, SMT DEF UiAssign
<1>11. CASE UiAssigned
  BY <1>11, SMT DEF UiAssigned
<1>12. CASE UiFlag
  BY <1>12, SMT DEF UiFlag
<1>13. CASE AudioCall
  BY <1>13, SMT DEF AudioCall
<1>14. CASE AudioBypassed
  BY <1>14, SMT DEF AudioBypassed
<1>15. CASE AudioNotBypassed
  BY <1>15, SMT DEF AudioNotBypassed
<1>16. CASE AudioRefused
  BY <1>16, SMT DEF AudioRefused
<1>17. CASE AudioLock
  BY <1>17, SMT DEF AudioLock
<1>18. CASE AudioSkip
  BY <1>18, SMT DEF AudioSkip
<1>19. CASE AudioTakeFlag
  BY <1>19, SMT DEF AudioTakeFlag
<1>20. CASE AudioMailLock
  BY <1>20, SMT DEF AudioMailLock
<1>21. CASE AudioCopy
  BY <1>21, SMT DEF AudioCopy
<1>22. CASE AudioRun
  BY <1>22, SMT DEF AudioRun
<1>23. CASE AudioReturn
  BY <1>23, SMT DEF AudioReturn
<1>24. CASE UNCHANGED vars
  BY <1>24, SMT DEF vars
<1> QED
  BY <1>1, <1>2, <1>3, <1>4, <1>5, <1>6, <1>7, <1>8, <1>9, <1>10, <1>11, <1>12, <1>13,
     <1>14, <1>15, <1>16, <1>17, <1>18, <1>19, <1>20, <1>21, <1>22, <1>23, <1>24, Zenon
     DEF Next, UiStep, AudioStep

\* Every step keeps the mailboxes.
LEMMA NextMail == IInv /\ [Next]_vars => MailInv'
<1> SUFFICES ASSUME IInv, [Next]_vars PROVE MailInv'
  OBVIOUS
<1> USE DEF IInv, EngineInv, MailInv, Editing, TypeOK, MailTypes, AudioTypes, UiTypes, Slots,
           graphVars, mailVars, audioVars, uiVars
<1>1. ASSUME NEW i \in Slots, NEW o \in Rebuilding \cup Tweaking, UiBegin(o, i)
      PROVE  MailInv'
  BY <1>1, SMT DEF UiBegin
<1>2. ASSUME NEW i \in Slots, UiPath(i) PROVE MailInv'
  BY <1>2, SMT DEF UiPath
<1>3. CASE UiLock
  BY <1>3, SMT DEF UiLock
<1>4. CASE UiRemove
  BY <1>4, SMT DEF UiRemove
<1>5. CASE UiLoad
  BY <1>5, SMT DEF UiLoad
<1>6. CASE UiLoadFails
  BY <1>6, SMT DEF UiLoadFails
<1>7. CASE UiWrite
  BY <1>7, SMT DEF UiWrite
<1>8. CASE UiUnlock
  BY <1>8, SMT DEF UiUnlock
<1>9. CASE UiResume
  BY <1>9, SMT DEF UiResume
<1>10. CASE UiAssign
  BY <1>10, SMT DEF UiAssign
<1>11. CASE UiAssigned
  BY <1>11, SMT DEF UiAssigned
<1>12. CASE UiFlag
  BY <1>12, SMT DEF UiFlag
<1>13. CASE AudioCall
  BY <1>13, SMT DEF AudioCall
<1>14. CASE AudioBypassed
  BY <1>14, SMT DEF AudioBypassed
<1>15. CASE AudioNotBypassed
  BY <1>15, SMT DEF AudioNotBypassed
<1>16. CASE AudioRefused
  BY <1>16, SMT DEF AudioRefused
<1>17. CASE AudioLock
  BY <1>17, SMT DEF AudioLock
<1>18. CASE AudioSkip
  BY <1>18, SMT DEF AudioSkip
<1>19. CASE AudioTakeFlag
  BY <1>19, SMT DEF AudioTakeFlag
<1>20. CASE AudioMailLock
  BY <1>20, SMT DEF AudioMailLock
<1>21. CASE AudioCopy
  <2>1. k \in Slots /\ mailLock[k] = "audio" /\ head[k] = tail[k]
    BY <1>21, SMT DEF AudioCopy
  <2>2. UNCHANGED <<head, tail, uiPc, pos, paths, k>> /\ audioPc' = "run"
    BY <1>21 DEF AudioCopy
  <2>3. mailLock' = [mailLock EXCEPT ![k] = "free"]
    BY <1>21 DEF AudioCopy
  <2>4. \A i \in Slots : gotHead'[i] = gotTail'[i]
    <3>1. CASE UNCHANGED <<gotHead, gotTail>>
      BY <3>1, SMT
    <3>2. CASE /\ gotHead' = [gotHead EXCEPT ![k] = head[k]]
               /\ gotTail' = [gotTail EXCEPT ![k] = head[k]]
      BY <3>2, SMT
    <3> QED
      BY <1>21, <2>1, <3>1, <3>2, Zenon DEF AudioCopy
  <2>5. \A i \in Slots :
          /\ (mailLock'[i] = "ui") <=> (uiPc \in {"assign", "assigned"} /\ pos = i)
          /\ mailLock'[i] # "audio"
    BY <1>21, <2>1, <2>3, SMT DEF AudioCopy
  <2> QED
    BY <2>2, <2>4, <2>5, SMT
<1>22. CASE AudioRun
  BY <1>22, SMT DEF AudioRun
<1>23. CASE AudioReturn
  BY <1>23, SMT DEF AudioReturn
<1>24. CASE UNCHANGED vars
  BY <1>24, SMT DEF vars
<1> QED
  BY <1>1, <1>2, <1>3, <1>4, <1>5, <1>6, <1>7, <1>8, <1>9, <1>10, <1>11, <1>12, <1>13,
     <1>14, <1>15, <1>16, <1>17, <1>18, <1>19, <1>20, <1>21, <1>22, <1>23, <1>24, Zenon
     DEF Next, UiStep, AudioStep

-----------------------------------------------------------------------------
(* The theorems.                                                           *)

\* The inductive invariant holds in every reachable state.
LEMMA Inductive == Spec => []IInv
<1>1. IInv /\ [Next]_vars => IInv'
  BY NextType, NextEngine, NextRan, NextMail, Zenon DEF IInv
<1> QED
  BY InitInv, <1>1, PTL DEF Spec

\* The variables of the chain keep their types, for every number of slots and calls.
THEOREM TypeCorrect == Spec => []TypeOK
<1>1. IInv => TypeOK
  BY DEF IInv
<1> QED
  BY Inductive, <1>1, PTL

\* LiveEffectEngine::process() runs one version of the chain, the one that is there
\* when the last slot is done, whatever the UI thread edits in between.
THEOREM ChainIsWhole == Spec => []WholeChain
<1>1. IInv => WholeChain
  BY SMT DEF IInv, RanInv, WholeChain, TypeOK, AudioTypes, GraphTypes, Slots
<1> QED
  BY Inductive, <1>1, PTL

\* A plugin is given whole messages, however sends and callbacks overlap.
THEOREM MessagesAreWhole == Spec => []WholeMessage
<1>1. IInv => WholeMessage
  BY DEF IInv, MailInv, WholeMessage
<1> QED
  BY Inductive, <1>1, PTL
=============================================================================
