-------------------------- MODULE TransportProofs --------------------------
(***************************************************************************)
(* TLAPS proofs about AudioEngine, for every NStages and MaxPackets, and   *)
(* about MainWindow, which drives it, for every MaxDepth as well.          *)
(***************************************************************************)
EXTENDS MainWindow, SequenceTheorems, TLAPS

\* The UI thread is inside stop(), after its store of Stopping.
Asked == uiPc \in {"test", "set", "join"}

\* No session: nothing is held that a session acquires.
Released == acquired = 0 /\ stopEvent = "null" /\ com = "out"

\* The inductive invariant.  What makes start() safe is that Off is stored by
\* the audio thread only on request (LeavesAsked), so that by the time the UI
\* thread is idle again it has joined that thread (OffJoined).
StartClean ==
  /\ uiPc \in {"event", "launch"} => tpc = "none" /\ state = "Starting"
  /\ uiPc = "event" => stopEvent = "null"
  /\ uiPc = "launch" => stopEvent = "clear"

OffJoined ==
  state = "Off" =>
    /\ Released
    /\ uiPc \in {"idle", "gone"} \union {"test", "set", "join"}
    /\ tpc = "none" \/ (tpc = "ended" /\ Asked)

StoppingJoins == state = "Stopping" /\ tpc # "none" => Asked

SignalledAsked == stopEvent = "set" => uiPc = "join" \/ tpc \in {"none", "ended"}

LeavesAsked == tpc \in {"exit", "release", "final"} /\ outcome = "stopped" => Asked

FinalReleased == tpc = "final" => Released

PacketReady == tpc = "get" => packets > 0

\* A session that starts or runs has a thread, or start() is about to launch it.
SessionLives ==
  state \in {"Starting", "Running"} =>
    \/ uiPc \in {"event", "launch"}
    \/ tpc \in {"com", "init", "exit", "release", "final"} \union LoopSteps

\* No session and, as start() only accepts Off, never again one.
Dead == state \in {"Error", "Stopping"} /\ tpc \in {"none", "fail", "ended"}

ErrorEnds == state = "Error" => Dead

IInv ==
  /\ TypeOK /\ StartClean /\ OffJoined /\ StoppingJoins /\ SignalledAsked
  /\ LeavesAsked /\ FinalReleased /\ PacketReady /\ SessionLives /\ ErrorEnds
  /\ DestroyedAlone

\* A new engine satisfies the invariant.
LEMMA InitIInv == Init => IInv
  BY StagesAssumption, PacketsAssumption
  DEF Init, IInv, TypeOK, StartClean, OffJoined, StoppingJoins, SignalledAsked, LeavesAsked,
      FinalReleased, PacketReady, SessionLives, Dead, ErrorEnds, DestroyedAlone, Released,
      Asked, States, UiSteps, StopSteps, Callers, ThreadSteps, LoopSteps

\* The steps of the UI thread keep the invariant.
LEMMA UiKeepsIInv == IInv /\ (UiCall \/ UiProgress) => IInv'
<1> SUFFICES ASSUME IInv, UiCall \/ UiProgress
             PROVE  IInv'
  OBVIOUS
<1> USE StagesAssumption, PacketsAssumption
    DEF IInv, TypeOK, StartClean, OffJoined, StoppingJoins, SignalledAsked, LeavesAsked,
        FinalReleased, PacketReady, SessionLives, Dead, ErrorEnds, DestroyedAlone, Released,
        Asked, States, UiSteps, StopSteps, Callers, ThreadSteps, LoopSteps, vars, uiVars,
        devVars
<1>1. CASE StartCas          BY <1>1 DEF StartCas
<1>2. CASE StartRefused      BY <1>2 DEF StartRefused
<1>3. CASE StartCreateEvent  BY <1>3 DEF StartCreateEvent
<1>4. CASE StartLaunch       BY <1>4 DEF StartLaunch
<1>5. ASSUME NEW d \in Callers, StopLoad(d)
      PROVE  IInv'
  BY <1>5 DEF StopLoad, AfterStop
<1>6. CASE StopStore         BY <1>6 DEF StopStore
<1>7. CASE StopTest          BY <1>7 DEF StopTest
<1>8. CASE StopSet           BY <1>8 DEF StopSet
<1>9. CASE StopJoin          BY <1>9 DEF StopJoin, AfterStop
<1> QED
  BY <1>1, <1>2, <1>3, <1>4, <1>5, <1>6, <1>7, <1>8, <1>9 DEF UiCall, UiProgress

\* So do the steps of the audio thread.
LEMMA ThreadKeepsIInv == IInv /\ (ThreadProgress \/ ThreadFailure) => IInv'
<1> SUFFICES ASSUME IInv, ThreadProgress \/ ThreadFailure
             PROVE  IInv'
  OBVIOUS
<1> USE StagesAssumption, PacketsAssumption
    DEF IInv, TypeOK, StartClean, OffJoined, StoppingJoins, SignalledAsked, LeavesAsked,
        FinalReleased, PacketReady, SessionLives, Dead, ErrorEnds, DestroyedAlone, Released,
        Asked, States, UiSteps, StopSteps, Callers, ThreadSteps, LoopSteps, vars, uiVars,
        devVars, Leave
<1>1. CASE ThreadCom              BY <1>1 DEF ThreadCom
<1>2. CASE ThreadAcquire          BY <1>2 DEF ThreadAcquire
<1>3. CASE ThreadEnumeratorFails  BY <1>3 DEF ThreadEnumeratorFails
<1>4. CASE ThreadAcquireFails     BY <1>4 DEF ThreadAcquireFails
<1>5. CASE ThreadFailRelease      BY <1>5 DEF ThreadFailRelease
<1>6. CASE ThreadRunning          BY <1>6 DEF ThreadRunning
<1>7. CASE WaitCapture            BY <1>7 DEF WaitCapture
<1>8. CASE WaitStop               BY <1>8 DEF WaitStop
<1>9. CASE WaitTimeout            BY <1>9 DEF WaitTimeout
<1>10. CASE WaitFailed            BY <1>10 DEF WaitFailed
<1>11. CASE NextPacket            BY <1>11 DEF NextPacket
<1>12. CASE GetPacket             BY <1>12 DEF GetPacket
<1>13. CASE GetPacketFails        BY <1>13 DEF GetPacketFails
<1>14. CASE RenderPacket          BY <1>14 DEF RenderPacket
<1>15. CASE ThreadStopStreams     BY <1>15 DEF ThreadStopStreams
<1>16. CASE ThreadRelease         BY <1>16 DEF ThreadRelease
<1>17. CASE ThreadFinal           BY <1>17 DEF ThreadFinal
<1> QED
  BY <1>1, <1>2, <1>3, <1>4, <1>5, <1>6, <1>7, <1>8, <1>9, <1>10, <1>11, <1>12, <1>13,
     <1>14, <1>15, <1>16, <1>17 DEF ThreadProgress, ThreadFailure

\* And those of the devices.
LEMMA DeviceKeepsIInv == IInv /\ Device => IInv'
  BY PacketsAssumption
  DEF IInv, TypeOK, StartClean, OffJoined, StoppingJoins, SignalledAsked, LeavesAsked,
      FinalReleased, PacketReady, SessionLives, Dead, ErrorEnds, DestroyedAlone, Released,
      Asked, States, UiSteps, StopSteps, Callers, ThreadSteps, LoopSteps, uiVars, Device,
      DevicePacket, LoseCapture, LoseRender

\* Every step keeps it.
LEMMA StepKeepsIInv == IInv /\ [Next]_vars => IInv'
<1>1. IInv /\ UNCHANGED vars => IInv'
  BY DEF IInv, TypeOK, StartClean, OffJoined, StoppingJoins, SignalledAsked, LeavesAsked,
         FinalReleased, PacketReady, SessionLives, Dead, ErrorEnds, DestroyedAlone, Released,
         Asked, vars, uiVars, devVars
<1> QED
  BY <1>1, UiKeepsIInv, ThreadKeepsIInv, DeviceKeepsIInv DEF Next, Finished

\* No step of either thread brings an engine in Error back.
LEMMA StaysDead == IInv /\ Dead /\ [Next]_vars => Dead'
<1> SUFFICES ASSUME IInv, Dead, [Next]_vars
             PROVE  Dead'
  OBVIOUS
<1> USE DEF IInv, StartClean, Dead, LoopSteps, vars, uiVars, devVars
<1>1. CASE UiCall \/ UiProgress
  BY <1>1 DEF UiCall, UiProgress, StartCas, StartRefused, StartCreateEvent, StartLaunch,
       StopLoad, StopStore, StopTest, StopSet, StopJoin
<1>2. CASE ThreadProgress \/ ThreadFailure
  BY <1>2 DEF ThreadProgress, ThreadFailure, ThreadCom, ThreadAcquire, ThreadEnumeratorFails,
       ThreadAcquireFails, ThreadFailRelease, ThreadRunning, WaitCapture, WaitStop, WaitTimeout,
       WaitFailed, NextPacket, GetPacket, GetPacketFails, RenderPacket, ThreadStopStreams,
       ThreadRelease, ThreadFinal
<1>3. CASE Device \/ Finished \/ UNCHANGED vars
  BY <1>3 DEF Device, DevicePacket, LoseCapture, LoseRender, Finished
<1> QED  BY <1>1, <1>2, <1>3 DEF Next

\* So it always holds.
LEMMA SpecIInv == Spec => []IInv
  BY InitIInv, StepKeepsIInv, PTL DEF Spec

-----------------------------------------------------------------------------
\* Every variable keeps its type, whatever the number of acquisitions
\* audioThreadProc makes and of packets the device has ready.
THEOREM TypeCorrect == Spec => []TypeOK
<1>1. IInv => TypeOK  BY DEF IInv
<1> QED  BY <1>1, SpecIInv, PTL

\* start() finds neither a joinable thread nor an open stop event.
THEOREM StartSafe == Spec => []StartFindsNoThread
<1>1. IInv => StartFindsNoThread
  BY DEF IInv, StartClean, StartFindsNoThread
<1> QED  BY <1>1, SpecIInv, PTL

\* Off means that everything the session acquired has been released.
THEOREM OffSafe == Spec => []OffIsReleased
<1>1. IInv => OffIsReleased
  BY DEF IInv, OffJoined, OffIsReleased, Released
<1> QED  BY <1>1, SpecIInv, PTL

\* The destructor never deletes impl_ under a live audio thread.
THEOREM DestroySafe == Spec => []DestroyedAlone
<1>1. IInv => DestroyedAlone  BY DEF IInv
<1> QED  BY <1>1, SpecIInv, PTL

\* The engine turns Off only while the UI thread is inside stop().
THEOREM OffRequested == Spec => OffOnlyOnRequest
<1> DEFINE A == state # "Off" /\ state' = "Off" => uiPc \in {"test", "set", "join"}
<1>1. IInv /\ [Next]_vars => [A]_vars
  <2> SUFFICES ASSUME IInv, Next, state # "Off", state' = "Off"
               PROVE  uiPc \in {"test", "set", "join"}
    OBVIOUS
  <2>1. ThreadFinal
    BY DEF Next, UiCall, UiProgress, ThreadProgress, ThreadFailure, Device, Finished,
           StartCas, StartRefused, StartCreateEvent, StartLaunch, StopLoad, StopStore,
           StopTest, StopSet, StopJoin, ThreadCom, ThreadAcquire, ThreadEnumeratorFails,
           ThreadAcquireFails, ThreadFailRelease, ThreadRunning, WaitCapture, WaitStop,
           WaitTimeout, WaitFailed, NextPacket, GetPacket, GetPacketFails, RenderPacket,
           ThreadStopStreams, ThreadRelease, DevicePacket, LoseCapture, LoseRender, vars
  <2>2. tpc = "final" /\ outcome = "stopped"
    BY <2>1 DEF ThreadFinal, IInv, TypeOK
  <2> QED
    BY <2>2 DEF IInv, LeavesAsked, Asked
<1> QED
  BY <1>1, SpecIInv, PTL DEF Spec, OffOnlyOnRequest

-----------------------------------------------------------------------------
(* The window.  Of the stack of handlers the proofs only use the outermost *)
(* one and the set of those that were entered while it waited.             *)

\* The handler that the message loop entered, and those that a dialog of it let in.
Base(fs) == IF fs = <<>> THEN "loop" ELSE fs[1]
Over(fs) == {fs[i] : i \in 2 .. Len(fs)}

\* All handlers; those a timer or a posted message enters; those that pump no messages.
Frames     == Modal \union Calling
Recovery   == {"ask", "resume", "restartRefused"}
Dispatched == Recovery \union {"startFailed"}
Blocking   == {"on", "setLaunch", "off", "apply", "setStop", "quit"}

\* A handler entered on top of the others.
LEMMA Pushed ==
  ASSUME NEW fs \in Seq(Frames), NEW f \in Frames
  PROVE  /\ Append(fs, f) \in Seq(Frames) /\ Append(fs, f) # <<>>
         /\ fs = <<>> => Base(Append(fs, f)) = f /\ Over(Append(fs, f)) = {}
         /\ fs # <<>> => /\ Base(Append(fs, f)) = Base(fs)
                         /\ Over(Append(fs, f)) = Over(fs) \union {f}
<1> DEFINE gs == Append(fs, f)
<1>1. /\ gs \in Seq(Frames) /\ Len(gs) = Len(fs) + 1 /\ Len(fs) \in Nat
      /\ \A i \in 1 .. Len(fs) : gs[i] = fs[i]
      /\ gs[Len(fs) + 1] = f
  BY AppendProperties, LenProperties
<1>2. gs # <<>> /\ (fs = <<>> <=> Len(fs) = 0)
  BY <1>1, EmptySeq
<1>3. ASSUME fs = <<>>
      PROVE  Base(gs) = f /\ Over(gs) = {}
  BY <1>1, <1>2, <1>3 DEF Base, Over
<1>4. ASSUME fs # <<>>
      PROVE  Base(gs) = Base(fs) /\ Over(gs) = Over(fs) \union {f}
  <2>1. Base(gs) = Base(fs)
    BY <1>1, <1>2, <1>4 DEF Base
  <2>2. 2 .. Len(gs) = (2 .. Len(fs)) \union {Len(fs) + 1}
    BY <1>1, <1>2, <1>4
  <2> QED  BY <2>1, <2>2, <1>1 DEF Over
<1> QED  BY <1>1, <1>2, <1>3, <1>4

\* The first elements of a sequence.
LEMMA Prefix ==
  ASSUME NEW S, NEW s \in Seq(S), NEW m \in Nat, m <= Len(s)
  PROVE  /\ SubSeq(s, 1, m) \in Seq(S) /\ Len(SubSeq(s, 1, m)) = m
         /\ \A i \in 1 .. m : SubSeq(s, 1, m)[i] = s[i]
  OBVIOUS

\* The innermost handler returns.
LEMMA Popped ==
  ASSUME NEW fs \in Seq(Frames), fs # <<>>
  PROVE  /\ Front(fs) \in Seq(Frames)
         /\ Len(fs) = 1 => Front(fs) = <<>>
         /\ Len(fs) # 1 => /\ Front(fs) # <<>> /\ Base(Front(fs)) = Base(fs)
                           /\ Over(Front(fs)) \subseteq Over(fs)
<1> DEFINE n == Len(fs)
           gs == Front(fs)
<1>1. n \in Nat /\ n # 0
  BY LenProperties, EmptySeq
<1>2. /\ gs \in Seq(Frames) /\ Len(gs) = n - 1
      /\ \A i \in 1 .. n - 1 : gs[i] = fs[i]
  <2>1. n - 1 \in Nat /\ n - 1 <= n
    BY <1>1
  <2> QED  BY <2>1, Prefix DEF Front
<1>3. n = 1 => gs = <<>>
  BY <1>2, EmptySeq
<1>4. ASSUME n # 1
      PROVE  gs # <<>> /\ Base(gs) = Base(fs) /\ Over(gs) \subseteq Over(fs)
  <2>1. gs # <<>>
    BY <1>1, <1>2, <1>4, EmptySeq
  <2>2. gs[1] = fs[1]
    BY <1>1, <1>2, <1>4
  <2>3. \A i \in 2 .. Len(gs) : i \in 2 .. n /\ gs[i] = fs[i]
    BY <1>1, <1>2
  <2> QED  BY <2>1, <2>2, <2>3 DEF Base, Over
<1> QED  BY <1>2, <1>3, <1>4

-----------------------------------------------------------------------------
(* The invariant of the window.                                            *)

\* The types of the window's variables.
WinTypeOK ==
  /\ frames \in Seq(Frames)
  /\ open \in BOOLEAN /\ power \in BOOLEAN /\ recEnabled \in BOOLEAN
  /\ pollTimer \in BOOLEAN /\ watchTimer \in BOOLEAN /\ recording \in BOOLEAN

\* Only timers and device changes enter a handler inside another, and only in one
\* that pumps messages.
Nested ==
  /\ Over(frames) \subseteq Dispatched
  /\ Base(frames) # "restart"
  /\ Base(frames) \in Blocking => Over(frames) = {}

\* The recovery is only ever offered for an engine that cannot be started again.
RecoveryDead ==
  \A f \in {Base(frames)} \union Over(frames) : f \in Recovery => Dead

\* Who waits for the engine while the UI thread is inside start() or stop().
CallOwner ==
  /\ uiPc \in {"event", "launch"} => Base(frames) \in {"on", "setLaunch"}
  /\ uiPc \in StopSteps => Base(frames) \in {"off", "setStop"} \/ ~open
  /\ Base(frames) = "quit" => ~open
  /\ ~open => Base(frames) \in {"loop", "quit"}

\* A stop() that has returned to the toggle or to the settings leaves no thread.
Joined ==
  /\ Base(frames) = "setStart" => uiPc = "idle" /\ tpc = "none"
  /\ Base(frames) \in {"off", "setStop"} /\ uiPc = "idle" => tpc = "none"

\* A live engine has a timer, or a handler in progress that will see to it.
Watched ==
  open /\ state \in {"Starting", "Running"} =>
    pollTimer \/ watchTimer \/ Base(frames) \in {"on", "setLaunch", "off", "setStop"}

\* What a recording needs is gone before the engine can be Off.
RecordStops ==
  /\ recording \/ Base(frames) = "save" => state # "Off"
  /\ recEnabled /\ open /\ Base(frames) \notin {"off", "setStop"} => state # "Off"
  /\ recording =>
       /\ open /\ Base(frames) # "off"
       /\ Base(frames) \notin {"settings", "apply", "setStop", "setStart", "setLaunch"}

WinInv ==
  /\ WinTypeOK /\ Nested /\ RecoveryDead /\ CallOwner /\ Joined /\ Watched /\ RecordStops

\* The innermost handler is the outermost one unless it was dispatched.
LEMMA TopIs ==
  ASSUME WinTypeOK, Nested
  PROVE  /\ frames = <<>> => Top = "loop" /\ Base(frames) = "loop" /\ Over(frames) = {}
         /\ frames # <<>> => Base(frames) \in Frames /\ Top \in Frames
         /\ Len(frames) = 1 => Top = Base(frames) /\ Over(frames) = {}
         /\ frames # <<>> /\ Len(frames) # 1 => Top \in Over(frames)
<1> DEFINE n == Len(frames)
<1>1. n \in Nat /\ (frames = <<>> <=> n = 0)
  BY LenProperties, EmptySeq DEF WinTypeOK
<1>2. ASSUME frames = <<>>
      PROVE  Top = "loop" /\ Base(frames) = "loop" /\ Over(frames) = {}
  <2>1. 2 .. n = {}
    BY <1>1, <1>2
  <2> QED  BY <1>2, <2>1 DEF Top, Base, Over
<1>3. ASSUME frames # <<>>
      PROVE  /\ Base(frames) \in Frames /\ Top \in Frames
             /\ n = 1 => Top = Base(frames) /\ Over(frames) = {}
             /\ n # 1 => Top \in Over(frames)
  <2>1. \A i \in 1 .. n : frames[i] \in Frames
    BY ElementOfSeq DEF WinTypeOK
  <2>2. n \in Nat /\ n # 0 /\ 2 .. 1 = {}
    BY <1>1, <1>3
  <2> HIDE DEF n
  <2>3. 1 \in 1 .. n /\ n \in 1 .. n /\ (n # 1 => n \in 2 .. n)
    BY <2>2
  <2> USE DEF n
  <2> QED  BY <1>3, <2>1, <2>2, <2>3 DEF Top, Base, Over, Last
<1>4. n = 1 => frames # <<>>
  BY <1>1
<1> QED  BY <1>2, <1>3, <1>4

\* The innermost handler goes on as another.
LEMMA Replaced ==
  ASSUME WinTypeOK, frames # <<>>, NEW f \in Frames
  PROVE  /\ Replace(f) \in Seq(Frames)
         /\ Replace(f) # <<>>
         /\ Len(frames) = 1 => Base(Replace(f)) = f /\ Over(Replace(f)) = {}
         /\ Len(frames) # 1 => /\ Base(Replace(f)) = Base(frames)
                               /\ Over(Replace(f)) \subseteq Over(frames) \union {f}
<1>1. Front(frames) \in Seq(Frames)
  BY Popped DEF WinTypeOK
<1>2. CASE Len(frames) = 1
  BY <1>1, <1>2, Popped, Pushed DEF WinTypeOK, Replace
<1>3. CASE Len(frames) # 1
  BY <1>1, <1>3, Popped, Pushed DEF WinTypeOK, Replace
<1> QED  BY <1>2, <1>3

-----------------------------------------------------------------------------
\* What the engine does by itself, as far as the window depends on it.
LEMMA EngineStep ==
  ASSUME IInv, UiProgress \/ ThreadProgress \/ ThreadFailure \/ Device
  PROVE  /\ state' = "Starting" => state = "Starting"
         /\ state' = "Running" => state \in {"Starting", "Running"} \/ Asked
         /\ state' = "Off" => state = "Off" \/ Asked
         /\ Dead => Dead'
         /\ uiPc' \in {"event", "launch"} => uiPc \in {"event", "launch"}
         /\ uiPc' \in StopSteps => uiPc \in StopSteps
         /\ uiPc = "idle" => uiPc' = "idle" /\ (tpc = "none" => tpc' = "none")
         /\ uiPc' = "idle" => uiPc \in {"idle", "event", "launch"} \/ tpc' = "none"
<1> USE DEF IInv, TypeOK, StartClean, OffJoined, StoppingJoins, LeavesAsked, SessionLives,
        ErrorEnds, Dead, Asked, States, UiSteps, StopSteps, Callers, ThreadSteps, LoopSteps,
        uiVars, devVars
<1>1. CASE UiProgress
  BY <1>1 DEF UiProgress, StartCreateEvent, StartLaunch, StopStore, StopTest, StopSet,
       StopJoin, AfterStop
<1>2. CASE ThreadProgress
  BY <1>2 DEF ThreadProgress, ThreadCom, ThreadAcquire, ThreadFailRelease, ThreadRunning,
       WaitCapture, WaitStop, WaitTimeout, NextPacket, GetPacket, RenderPacket,
       ThreadStopStreams, ThreadRelease, ThreadFinal, Leave
<1>3. CASE ThreadFailure
  BY <1>3 DEF ThreadFailure, ThreadEnumeratorFails, ThreadAcquireFails, WaitFailed,
       GetPacketFails, Leave
<1>4. CASE Device
  BY <1>4 DEF Device, DevicePacket, LoseCapture, LoseRender
<1> QED  BY <1>1, <1>2, <1>3, <1>4

\* So it keeps the window's invariant.
LEMMA EngineKeepsWinInv == IInv /\ IInv' /\ WinInv /\ Engine => WinInv'
<1> SUFFICES ASSUME IInv, IInv', WinInv, Engine
             PROVE  WinInv'
  OBVIOUS
<1>1. UNCHANGED winVars /\ (UiProgress \/ ThreadProgress \/ ThreadFailure \/ Device)
  BY DEF Engine
<1>2. UNCHANGED <<frames, open, power, pollTimer, watchTimer, recEnabled, recording>>
  BY <1>1 DEF winVars
<1>3. Base(frames)' = Base(frames) /\ Over(frames)' = Over(frames)
  BY <1>2 DEF Base, Over
<1>4. /\ state' = "Starting" => state = "Starting"
      /\ state' = "Running" => state \in {"Starting", "Running"} \/ Asked
      /\ state' = "Off" => state = "Off" \/ Asked
      /\ Dead => Dead'
      /\ uiPc' \in {"event", "launch"} => uiPc \in {"event", "launch"}
      /\ uiPc' \in StopSteps => uiPc \in StopSteps
      /\ uiPc = "idle" => uiPc' = "idle" /\ (tpc = "none" => tpc' = "none")
      /\ uiPc' = "idle" => uiPc \in {"idle", "event", "launch"} \/ tpc' = "none"
  BY <1>1, EngineStep
<1>5. Asked => uiPc \in StopSteps
  BY DEF Asked, StopSteps
<1> USE <1>2, <1>3, <1>4, <1>5 DEF WinInv
<1>6. WinTypeOK' /\ Nested' /\ RecoveryDead' /\ CallOwner'
  BY DEF WinTypeOK, Nested, RecoveryDead, CallOwner
<1>7. Joined'
  BY DEF Joined, CallOwner
<1>8. Watched'
  BY DEF Watched, CallOwner
<1>9. RecordStops'
  BY DEF RecordStops, CallOwner, WinTypeOK
<1> QED  BY <1>6, <1>7, <1>8, <1>9

-----------------------------------------------------------------------------
\* The user's input enters a handler from the main loop.
LEMMA UserStack ==
  ASSUME WinInv, Top = "loop"
  PROVE  /\ frames = <<>> /\ Base(frames) = "loop" /\ Over(frames) = {}
         /\ \A f \in Frames : /\ Push(f) \in Seq(Frames)
                              /\ Base(Push(f)) = f /\ Over(Push(f)) = {}
<1>1. frames = <<>> /\ Base(frames) = "loop" /\ Over(frames) = {}
  BY TopIs DEF WinInv, Frames, Modal, Calling, Boxes, Launching
<1> QED  BY <1>1, Pushed DEF WinInv, WinTypeOK, Push

\* A handler that no timer or message dispatched is the only one.
LEMMA LoneStack ==
  ASSUME WinInv, Top # "loop", Top \notin Dispatched
  PROVE  /\ Base(frames) = Top /\ Over(frames) = {} /\ Top \in Frames
         /\ Front(frames) = <<>> /\ <<>> \in Seq(Frames)
         /\ Base(<<>>) = "loop" /\ Over(<<>>) = {}
         /\ \A f \in Frames : /\ Replace(f) \in Seq(Frames) /\ Replace(f) # <<>>
                              /\ Base(Replace(f)) = f /\ Over(Replace(f)) = {}
<1>1. Top \notin Over(frames) /\ frames # <<>>
  BY TopIs DEF WinInv, Nested
<1>2. Len(frames) = 1
  BY <1>1, TopIs DEF WinInv
<1>3. Base(<<>>) = "loop" /\ Over(<<>>) = {}
  <2>1. 2 .. 0 = {} /\ Len(<<>>) = 0
    OBVIOUS
  <2> QED  BY <2>1 DEF Base, Over
<1> QED
  BY <1>1, <1>2, <1>3, TopIs, Popped, Replaced DEF WinInv, WinTypeOK

\* A dispatched handler returns to the one it interrupted, or goes on.
LEMMA DispatchedStack ==
  ASSUME WinInv, Top \in Dispatched
  PROVE  /\ Top \in {Base(frames)} \union Over(frames) /\ frames # <<>>
         /\ Front(frames) \in Seq(Frames)
         /\ Base(Front(frames)) \in {"loop", Base(frames)}
         /\ Base(Front(frames)) = "loop" => Base(frames) \in Dispatched
         /\ Over(Front(frames)) \subseteq Over(frames)
         /\ \A f \in Frames :
              /\ Replace(f) \in Seq(Frames) /\ Replace(f) # <<>>
              /\ Over(Replace(f)) \subseteq Over(frames) \union {f}
              /\ \/ Base(Replace(f)) = f /\ Over(Replace(f)) = {} /\ Base(frames) = Top
                 \/ Base(Replace(f)) = Base(frames) /\ Top \in Over(frames)
<1>1. frames # <<>> /\ Base(frames) # "loop"
  BY TopIs DEF WinInv, Dispatched, Recovery, Frames, Modal, Calling, Boxes, Launching
<1>2. Base(<<>>) = "loop" /\ Over(<<>>) = {}
  <2>1. 2 .. 0 = {} /\ Len(<<>>) = 0
    OBVIOUS
  <2> QED  BY <2>1 DEF Base, Over
<1>3. CASE Len(frames) = 1
  BY <1>1, <1>2, <1>3, TopIs, Popped, Replaced DEF WinInv, WinTypeOK
<1>4. CASE Len(frames) # 1
  BY <1>1, <1>2, <1>4, TopIs, Popped, Replaced DEF WinInv, WinTypeOK
<1> QED  BY <1>3, <1>4

\* A timer or a message enters a handler in whatever loop pumps.
LEMMA PumpedStack ==
  ASSUME WinInv, Pumping, NEW f \in Dispatched
  PROVE  /\ Push(f) \in Seq(Frames) /\ Base(frames) \notin Blocking
         /\ \/ Base(frames) = "loop" /\ Base(Push(f)) = f /\ Over(Push(f)) = {}
            \/ Base(Push(f)) = Base(frames) /\ Over(Push(f)) = Over(frames) \union {f}
<1> USE DEF Frames, Dispatched, Recovery, Modal, Calling, Boxes, Launching
<1>1. f \in Frames /\ Top \in Modal \union {"loop"}
  BY DEF Pumping
<1>2. Base(frames) \notin Blocking
  BY <1>1, TopIs DEF WinInv, Nested, Blocking
<1>3. CASE frames = <<>>
  BY <1>1, <1>2, <1>3, TopIs, Pushed DEF WinInv, WinTypeOK, Push
<1>4. CASE frames # <<>>
  BY <1>1, <1>2, <1>4, Pushed DEF WinInv, WinTypeOK, Push
<1> QED  BY <1>3, <1>4

-----------------------------------------------------------------------------
\* What an idle UI thread may conclude from the state it polls.
LEMMA IdleEngine ==
  ASSUME IInv, uiPc = "idle"
  PROVE  /\ state \in {"Off", "Stopping"} => tpc = "none"
         /\ tpc = "none" => state \notin {"Starting", "Running"}
         /\ state = "Error" => Dead
         /\ Dead => state \notin {"Off", "Starting", "Running"}
         /\ state \in States
  BY DEF IInv, TypeOK, OffJoined, StoppingJoins, SessionLives, ErrorEnds, Dead, Asked,
         LoopSteps, States

\* The power toggle, and start() as it returns, keep the invariant.
LEMMA PowerKeepsWinInv ==
  IInv /\ WinInv /\ (PowerOn \/ PowerOff \/ PowerOffReturns \/ StartReturns) => WinInv'
<1> SUFFICES ASSUME IInv, WinInv, PowerOn \/ PowerOff \/ PowerOffReturns \/ StartReturns
             PROVE  WinInv'
  OBVIOUS
<1> USE DEF Frames, Modal, Calling, Boxes, Launching, Recovery, Dispatched, Blocking,
            StopSteps, WinInv
<1>1. CASE PowerOn
  <2>1. /\ uiPc = "idle" /\ open /\ Base(frames) = "loop"
        /\ frames' \in Seq(Frames) /\ Over(frames') = {}
        /\ UNCHANGED <<open, pollTimer, watchTimer, recEnabled, recording>>
    BY <1>1, UserStack DEF PowerOn, UserInput
  <2>2. CASE StartCas
    <3>1. Base(frames') = "on" /\ state = "Off" /\ power' = TRUE
      BY <1>1, <2>2, UserStack DEF PowerOn, StartCas, StartRefused, UserInput
    <3>2. WinTypeOK' /\ Nested' /\ RecoveryDead'
      BY <2>1, <3>1 DEF WinTypeOK, Nested, RecoveryDead
    <3>3. CallOwner' /\ Joined' /\ Watched' /\ RecordStops'
      BY <2>1, <2>2, <3>1 DEF StartCas, WinTypeOK, CallOwner, Joined, Watched, RecordStops
    <3> QED  BY <3>2, <3>3
  <2>3. CASE StartRefused
    <3>1. Base(frames') = "refused" /\ power' = power /\ UNCHANGED <<state, uiPc, tpc>>
      BY <1>1, <2>3, UserStack
      DEF PowerOn, StartCas, StartRefused, UserInput, vars, uiVars
    <3>2. WinTypeOK' /\ Nested' /\ RecoveryDead'
      BY <2>1, <3>1 DEF WinTypeOK, Nested, RecoveryDead
    <3>3. CallOwner' /\ Joined' /\ Watched' /\ RecordStops'
      BY <2>1, <3>1 DEF WinTypeOK, CallOwner, Joined, Watched, RecordStops
    <3> QED  BY <3>2, <3>3
  <2> QED  BY <1>1, <2>2, <2>3 DEF PowerOn
<1>2. CASE PowerOff
  <2>1. /\ Base(frames) = "loop" /\ frames' \in Seq(Frames)
        /\ Base(frames') = "off" /\ Over(frames') = {}
    BY <1>2, UserStack DEF PowerOff, UserInput
  <2>2. WinTypeOK' /\ Nested' /\ RecoveryDead'
    BY <1>2, <2>1 DEF PowerOff, WinTypeOK, Nested, RecoveryDead
  <2>3. CallOwner' /\ Joined'
    BY <1>2, <2>1, IdleEngine DEF PowerOff, StopLoad, AfterStop, UserInput, CallOwner, Joined
  <2>4. Watched' /\ RecordStops'
    BY <1>2, <2>1 DEF PowerOff, StopLoad, WinTypeOK, Watched, RecordStops
  <2> QED  BY <2>2, <2>3, <2>4
<1>3. CASE PowerOffReturns
  <2>1. /\ Base(frames) = "off" /\ frames' \in Seq(Frames)
        /\ Base(frames') = "loop" /\ Over(frames') = {}
        /\ uiPc = "idle" /\ tpc = "none"
    BY <1>3, LoneStack DEF PowerOffReturns, Returned, Joined
  <2>2. WinTypeOK' /\ Nested' /\ RecoveryDead'
    BY <1>3, <2>1 DEF PowerOffReturns, WinTypeOK, Nested, RecoveryDead
  <2>3. CallOwner' /\ Joined'
    BY <1>3, <2>1 DEF PowerOffReturns, vars, uiVars, CallOwner, Joined
  <2>4. Watched' /\ RecordStops'
    BY <1>3, <2>1, IdleEngine DEF PowerOffReturns, vars, WinTypeOK, Watched, RecordStops
  <2> QED  BY <2>2, <2>3, <2>4
<1>4. CASE StartReturns
  <2>1. /\ Base(frames) \in {"on", "setLaunch"} /\ frames' \in Seq(Frames)
        /\ Base(frames') \in {"loop", "refused"} /\ Over(frames') = {}
        /\ uiPc = "idle"
    BY <1>4, LoneStack DEF StartReturns, BoxOf, Nested
  <2>2. WinTypeOK' /\ Nested' /\ RecoveryDead'
    BY <1>4, <2>1 DEF StartReturns, WinTypeOK, Nested, RecoveryDead
  <2>3. CallOwner' /\ Joined'
    BY <1>4, <2>1 DEF StartReturns, vars, uiVars, CallOwner, Joined
  <2>4. Watched' /\ RecordStops'
    BY <1>4, <2>1, IdleEngine DEF StartReturns, Launched, vars, WinTypeOK, Watched, RecordStops
  <2> QED  BY <2>2, <2>3, <2>4
<1> QED  BY <1>1, <1>2, <1>3, <1>4

\* So do the timers and the device changes.
LEMMA TimersKeepWinInv ==
  IInv /\ WinInv /\ (PollTick \/ WatchTick \/ DeviceChange) => WinInv'
<1> SUFFICES ASSUME IInv, WinInv, PollTick \/ WatchTick \/ DeviceChange
             PROVE  WinInv'
  OBVIOUS
<1> USE DEF Frames, Modal, Calling, Boxes, Launching, Recovery, Dispatched, Blocking,
            StopSteps, WinInv
<1>1. uiPc = "idle" /\ open /\ UNCHANGED <<state, uiPc, tpc, open>> /\ (Dead => Dead')
  BY DEF PollTick, WatchTick, DeviceChange, Pumping, vars, uiVars, Dead
<1>2. ASSUME NEW f \in {"ask", "startFailed"}, Pumping, frames' = Push(f),
             f = "ask" => Dead
      PROVE  /\ frames' \in Seq(Frames) /\ Nested' /\ RecoveryDead'
             /\ \/ Base(frames) = "loop" /\ Base(frames') = f
                \/ Base(frames') = Base(frames)
  BY <1>1, <1>2, PumpedStack DEF Nested, RecoveryDead
<1>3. CASE PollTick /\ state = "Running"
  <2>1. /\ power' = TRUE /\ recEnabled' = TRUE /\ watchTimer' = TRUE /\ pollTimer' = FALSE
        /\ UNCHANGED <<frames, recording>>
    BY <1>3 DEF PollTick
  <2> QED
    BY <1>1, <1>3, <2>1
    DEF WinTypeOK, Nested, RecoveryDead, CallOwner, Joined, Watched, RecordStops
<1>4. CASE PollTick /\ state # "Running"
  <2>1. /\ frames' = Push("startFailed") /\ Pumping /\ state # "Starting"
        /\ ~pollTimer' /\ ~power' /\ ~recEnabled' /\ UNCHANGED <<watchTimer, recording>>
    BY <1>4 DEF PollTick
  <2>2. WinTypeOK' /\ Nested' /\ RecoveryDead'
    BY <1>4, <1>2, <2>1 DEF PollTick, WinTypeOK
  <2>3. CallOwner' /\ Joined' /\ Watched' /\ RecordStops'
    BY <1>1, <1>2, <1>4, <2>1 DEF WinTypeOK, CallOwner, Joined, Watched, RecordStops
  <2> QED  BY <2>2, <2>3
<1>5. CASE WatchTick \/ DeviceChange
  <2>1. /\ frames' = Push("ask") /\ Pumping /\ state = "Error" /\ Dead
        /\ watchTimer' = FALSE /\ power' = FALSE /\ recEnabled' = FALSE /\ recording' = FALSE
        /\ UNCHANGED pollTimer
    BY <1>5, <1>1, IdleEngine DEF WatchTick, DeviceChange, DeviceListChanged, EngineError, Push
  <2>2. WinTypeOK' /\ Nested' /\ RecoveryDead'
    BY <1>1, <1>2, <2>1 DEF WinTypeOK
  <2>3. CallOwner' /\ Joined' /\ Watched' /\ RecordStops'
    BY <1>1, <1>2, <2>1 DEF WinTypeOK, CallOwner, Joined, Watched, RecordStops
  <2> QED  BY <2>2, <2>3
<1> QED  BY <1>3, <1>4, <1>5

\* So do the answers to the recovery dialog, and the other boxes as they close.
LEMMA RecoveryKeepsWinInv ==
  IInv /\ WinInv /\ (AnswerNo \/ AnswerYes \/ Resume \/ CloseBox) => WinInv'
<1> SUFFICES ASSUME IInv, WinInv, AnswerNo \/ AnswerYes \/ Resume \/ CloseBox
             PROVE  WinInv'
  OBVIOUS
<1> USE DEF Frames, Modal, Calling, Boxes, Launching, Recovery, Dispatched, Blocking,
            StopSteps, WinInv
<1>1. uiPc = "idle"
  BY DEF AnswerNo, AnswerYes, Resume, CloseBox, Returned
<1>2. ASSUME Top \in Dispatched, frames' = Front(frames), UNCHANGED <<vars, open, power>>,
             UNCHANGED <<pollTimer, watchTimer, recEnabled, recording>>
      PROVE  WinInv'
  <2>1. /\ frames' \in Seq(Frames) /\ Over(frames') \subseteq Over(frames)
        /\ \/ Base(frames') = Base(frames)
           \/ Base(frames') = "loop" /\ Base(frames) \in Dispatched
    BY <1>2, DispatchedStack
  <2>2. UNCHANGED <<state, uiPc, tpc>> /\ (Dead => Dead')
    BY <1>2 DEF vars, uiVars, Dead
  <2>3. WinTypeOK' /\ Nested' /\ RecoveryDead'
    BY <1>2, <2>1, <2>2 DEF WinTypeOK, Nested, RecoveryDead
  <2>4. CallOwner' /\ Joined' /\ Watched' /\ RecordStops'
    BY <1>1, <1>2, <2>1, <2>2 DEF WinTypeOK, CallOwner, Joined, Watched, RecordStops
  <2> QED  BY <2>3, <2>4
<1>3. ASSUME Top \in Dispatched, Dead, UNCHANGED <<vars, open>>,
             UNCHANGED <<pollTimer>>, watchTimer' \in BOOLEAN, power' \in BOOLEAN,
             recording' \in BOOLEAN /\ (recording' => recording),
             recEnabled' \in BOOLEAN /\ (recEnabled' => recEnabled),
             NEW f \in Recovery, frames' = Replace(f) \/ frames' = Append(Replace(f), "ask")
      PROVE  WinInv'
  <2>1. /\ Base(frames) \notin Blocking /\ Base(frames) # "loop"
        /\ frames' \in Seq(Frames) /\ Over(frames') \subseteq Over(frames) \union {f, "ask"}
        /\ \/ Base(frames') = Base(frames)
           \/ Base(frames') = f /\ Base(frames) \in Dispatched
    <3>1. /\ Replace(f) \in Seq(Frames) /\ Replace(f) # <<>>
          /\ Over(Replace(f)) \subseteq Over(frames) \union {f}
          /\ \/ Base(Replace(f)) = f /\ Over(Replace(f)) = {} /\ Base(frames) = Top
             \/ Base(Replace(f)) = Base(frames) /\ Top \in Over(frames)
      BY <1>3, DispatchedStack
    <3>2. CASE frames' = Replace(f)
      BY <1>3, <3>1, <3>2, TopIs DEF Nested
    <3>3. CASE frames' = Append(Replace(f), "ask")
      BY <1>3, <3>1, <3>3, TopIs, Pushed DEF Nested
    <3> QED  BY <1>3, <3>2, <3>3
  <2>2. UNCHANGED <<state, uiPc, tpc>> /\ Dead' /\ state \notin {"Off", "Starting", "Running"}
    BY <1>3, <1>1, IdleEngine DEF vars, uiVars, Dead
  <2>3. WinTypeOK' /\ Nested' /\ RecoveryDead'
    BY <1>3, <2>1, <2>2 DEF WinTypeOK, Nested, RecoveryDead
  <2>4. CallOwner' /\ Joined' /\ Watched' /\ RecordStops'
    BY <1>1, <1>3, <2>1, <2>2 DEF WinTypeOK, CallOwner, Joined, Watched, RecordStops
  <2> QED  BY <2>3, <2>4
<1>4. CASE AnswerNo
  BY <1>2, <1>4 DEF AnswerNo, Returned
<1>5. CASE AnswerYes
  <2>1. Top = "ask" /\ Dead
    BY <1>5, DispatchedStack DEF AnswerYes, Returned, RecoveryDead
  <2> QED
    BY <1>3, <1>5, <2>1 DEF AnswerYes, DeviceListChanged, EngineError, WinTypeOK
<1>6. CASE Resume
  <2>1. Top = "resume" /\ Dead
    BY <1>6, DispatchedStack DEF Resume, Returned, RecoveryDead
  <2>2. StartRefused /\ frames' = Replace("restartRefused") /\ power' = FALSE
    BY <1>6, <2>1 DEF Resume, CallStart, StartCas, BoxOf, Dead
  <2> QED
    BY <1>3, <1>6, <2>1, <2>2 DEF Resume, StartRefused, WinTypeOK
<1>7. CASE CloseBox
  <2>1. CASE Top \in Dispatched
    BY <1>2, <1>7, <2>1 DEF CloseBox
  <2>2. CASE Top \notin Dispatched
    <3>1. /\ Base(frames) = Top /\ Top \in {"refused", "info"} /\ frames' \in Seq(Frames)
          /\ Base(frames') = "loop" /\ Over(frames') = {}
          /\ UNCHANGED <<state, uiPc, tpc, open, power, pollTimer, watchTimer, recEnabled>>
          /\ UNCHANGED recording
      BY <1>7, <2>2, LoneStack DEF CloseBox, vars, uiVars
    <3>2. WinTypeOK' /\ Nested' /\ RecoveryDead'
      BY <3>1 DEF WinTypeOK, Nested, RecoveryDead
    <3>3. CallOwner' /\ Joined' /\ Watched' /\ RecordStops'
      BY <1>1, <3>1 DEF CallOwner, Joined, Watched, RecordStops
    <3> QED  BY <3>2, <3>3
  <2> QED  BY <2>1, <2>2
<1> QED  BY <1>4, <1>5, <1>6, <1>7

\* So do the settings, from the dialog to the start() that ends them.
LEMMA SettingsKeepWinInv ==
  /\ IInv /\ WinInv
  /\ \/ SettingsOpen \/ SettingsCancel \/ SettingsOk
     \/ SettingsStop \/ SettingsStopReturns \/ SettingsStart
  => WinInv'
<1> SUFFICES ASSUME IInv, WinInv,
                    \/ SettingsOpen \/ SettingsCancel \/ SettingsOk
                    \/ SettingsStop \/ SettingsStopReturns \/ SettingsStart
             PROVE  WinInv'
  OBVIOUS
<1> USE DEF Frames, Modal, Calling, Boxes, Launching, Recovery, Dispatched, Blocking,
            StopSteps, WinInv
<1>1. CASE SettingsOpen
  <2>1. /\ uiPc = "idle" /\ open /\ Base(frames) = "loop" /\ Over(frames') = {}
        /\ frames' \in Seq(Frames) /\ Base(frames') = IF recording THEN "info" ELSE "settings"
        /\ UNCHANGED <<state, uiPc, tpc, open, power, pollTimer, watchTimer, recEnabled>>
        /\ UNCHANGED recording
    BY <1>1, UserStack DEF SettingsOpen, UserInput, vars, uiVars
  <2>2. WinTypeOK' /\ Nested' /\ RecoveryDead'
    BY <2>1 DEF WinTypeOK, Nested, RecoveryDead
  <2>3. CallOwner' /\ Joined' /\ Watched' /\ RecordStops'
    BY <2>1 DEF CallOwner, Joined, Watched, RecordStops
  <2> QED  BY <2>2, <2>3
<1>2. CASE SettingsCancel
  <2>1. /\ uiPc = "idle" /\ Base(frames) = "settings" /\ Over(frames') = {}
        /\ frames' \in Seq(Frames) /\ Base(frames') = "loop"
        /\ UNCHANGED <<state, uiPc, tpc, open, power, pollTimer, watchTimer, recEnabled>>
        /\ UNCHANGED recording
    BY <1>2, LoneStack DEF SettingsCancel, Returned, vars, uiVars
  <2>2. WinTypeOK' /\ Nested' /\ RecoveryDead'
    BY <2>1 DEF WinTypeOK, Nested, RecoveryDead
  <2>3. CallOwner' /\ Joined' /\ Watched' /\ RecordStops'
    BY <2>1 DEF CallOwner, Joined, Watched, RecordStops
  <2> QED  BY <2>2, <2>3
<1>3. CASE SettingsOk
  <2>1. /\ uiPc = "idle" /\ Base(frames) = "settings" /\ frames # <<>>
        /\ Front(frames) = <<>> /\ UNCHANGED <<state, uiPc, tpc, open, pollTimer>>
    BY <1>3, LoneStack, TopIs DEF SettingsOk, Returned, vars, uiVars
  <2>2. CASE state = "Running"
    <3>1. /\ frames' \in Seq(Frames) /\ Base(frames') = "apply" /\ Over(frames') = {}
          /\ UNCHANGED <<watchTimer, recording, power, recEnabled>>
      BY <1>3, <2>2, LoneStack DEF SettingsOk, Returned
    <3>2. WinTypeOK' /\ Nested' /\ RecoveryDead'
      BY <2>1, <3>1 DEF WinTypeOK, Nested, RecoveryDead
    <3>3. CallOwner' /\ Joined' /\ Watched' /\ RecordStops'
      BY <2>1, <3>1 DEF CallOwner, Joined, Watched, RecordStops
    <3> QED  BY <3>2, <3>3
  <2>3. CASE state = "Error"
    <3>1. /\ frames' = Append(<<>>, "ask") /\ Dead
          /\ watchTimer' = FALSE /\ recording' = FALSE /\ power' = FALSE /\ recEnabled' = FALSE
      BY <1>3, <2>1, <2>3, IdleEngine DEF SettingsOk, DeviceListChanged, EngineError
    <3>2. /\ frames' \in Seq(Frames) /\ Base(frames') = "ask" /\ Over(frames') = {}
      BY <3>1, LoneStack, Pushed, EmptySeq
    <3>3. WinTypeOK' /\ Nested' /\ RecoveryDead'
      BY <2>1, <3>1, <3>2 DEF WinTypeOK, Nested, RecoveryDead, Dead
    <3>4. CallOwner' /\ Joined' /\ Watched' /\ RecordStops'
      BY <2>1, <2>3, <3>1, <3>2 DEF CallOwner, Joined, Watched, RecordStops
    <3> QED  BY <3>3, <3>4
  <2>4. CASE state \notin {"Running", "Error"}
    <3>1. /\ frames' \in Seq(Frames) /\ Base(frames') = "loop" /\ Over(frames') = {}
          /\ UNCHANGED <<watchTimer, recording, power, recEnabled>>
      BY <1>3, <2>4, LoneStack DEF SettingsOk, Returned, DeviceListChanged
    <3>2. WinTypeOK' /\ Nested' /\ RecoveryDead'
      BY <2>1, <3>1 DEF WinTypeOK, Nested, RecoveryDead
    <3>3. CallOwner' /\ Joined' /\ Watched' /\ RecordStops'
      BY <2>1, <3>1 DEF CallOwner, Joined, Watched, RecordStops
    <3> QED  BY <3>2, <3>3
  <2> QED  BY <2>2, <2>3, <2>4
<1>4. CASE SettingsStop
  <2>1. /\ uiPc = "idle" /\ Base(frames) = "apply"
        /\ frames' \in Seq(Frames) /\ Base(frames') = "setStop" /\ Over(frames') = {}
        /\ UNCHANGED <<open, power, pollTimer, watchTimer, recEnabled, recording>>
    BY <1>4, LoneStack DEF SettingsStop, Returned
  <2>2. WinTypeOK' /\ Nested' /\ RecoveryDead'
    BY <2>1 DEF WinTypeOK, Nested, RecoveryDead
  <2>3. CallOwner' /\ Joined'
    BY <1>4, <2>1, IdleEngine DEF SettingsStop, StopLoad, AfterStop, CallOwner, Joined
  <2>4. Watched' /\ RecordStops'
    BY <1>4, <2>1 DEF SettingsStop, StopLoad, Watched, RecordStops
  <2> QED  BY <2>2, <2>3, <2>4
<1>5. CASE SettingsStopReturns
  <2>1. /\ uiPc = "idle" /\ Base(frames) = "setStop" /\ tpc = "none" /\ frames # <<>>
        /\ watchTimer' = FALSE /\ power' = FALSE /\ recEnabled' = FALSE
        /\ UNCHANGED <<state, uiPc, tpc, open, pollTimer>>
        /\ recording' \in BOOLEAN /\ (recording' => recording)
    BY <1>5, LoneStack, TopIs
    DEF SettingsStopReturns, EngineError, Returned, Joined, WinTypeOK, vars, uiVars
  <2>2. /\ frames' \in Seq(Frames) /\ Base(frames') = "setStart"
        /\ Over(frames') = {} \/ (Over(frames') = {"ask"} /\ state = "Error")
    <3>1. /\ Replace("setStart") \in Seq(Frames) /\ Replace("setStart") # <<>>
          /\ Base(Replace("setStart")) = "setStart" /\ Over(Replace("setStart")) = {}
      BY <1>5, LoneStack DEF SettingsStopReturns, Returned
    <3>2. CASE state = "Error"
      BY <1>5, <3>1, <3>2, Pushed DEF SettingsStopReturns, EngineError
    <3>3. CASE state # "Error"
      BY <1>5, <3>1, <3>3 DEF SettingsStopReturns
    <3> QED  BY <3>2, <3>3
  <2>3. state = "Error" => Dead'
    BY <2>1, IdleEngine DEF Dead
  <2>4. WinTypeOK' /\ Nested' /\ RecoveryDead'
    BY <2>1, <2>2, <2>3 DEF WinTypeOK, Nested, RecoveryDead
  <2>5. CallOwner' /\ Joined' /\ Watched' /\ RecordStops'
    BY <2>1, <2>2, IdleEngine DEF WinTypeOK, CallOwner, Joined, Watched, RecordStops
  <2> QED  BY <2>4, <2>5
<1>6. CASE SettingsStart
  <2>1. /\ uiPc = "idle" /\ Base(frames) = "setStart" /\ tpc = "none"
        /\ frames' \in Seq(Frames) /\ Over(frames') = {}
        /\ UNCHANGED <<open, pollTimer, watchTimer, recEnabled, recording>>
    BY <1>6, LoneStack DEF SettingsStart, CallStart, BoxOf, Returned, Joined
  <2>2. CASE StartCas
    <3>1. Base(frames') = "setLaunch" /\ power' = power /\ state = "Off"
      BY <1>6, <2>2, LoneStack DEF SettingsStart, CallStart, StartCas, StartRefused, Returned
    <3>2. WinTypeOK' /\ Nested' /\ RecoveryDead'
      BY <2>1, <3>1 DEF WinTypeOK, Nested, RecoveryDead
    <3>3. CallOwner' /\ Joined' /\ Watched' /\ RecordStops'
      BY <2>1, <2>2, <3>1 DEF StartCas, WinTypeOK, CallOwner, Joined, Watched, RecordStops
    <3> QED  BY <3>2, <3>3
  <2>3. CASE StartRefused
    <3>1. Base(frames') = "refused" /\ power' = FALSE /\ UNCHANGED <<state, uiPc, tpc>>
      BY <1>6, <2>3, LoneStack
      DEF SettingsStart, CallStart, BoxOf, StartCas, StartRefused, Returned, vars, uiVars
    <3>2. WinTypeOK' /\ Nested' /\ RecoveryDead'
      BY <2>1, <3>1 DEF WinTypeOK, Nested, RecoveryDead
    <3>3. CallOwner' /\ Joined' /\ Watched' /\ RecordStops'
      BY <2>1, <3>1, IdleEngine DEF WinTypeOK, CallOwner, Joined, Watched, RecordStops
    <3> QED  BY <3>2, <3>3
  <2> QED  BY <1>6, <2>2, <2>3 DEF SettingsStart, CallStart
<1> QED  BY <1>1, <1>2, <1>3, <1>4, <1>5, <1>6

\* So does recording, from the click to the file dialog's answer.
LEMMA RecordKeepsWinInv == IInv /\ WinInv /\ (RecordClick \/ SaveReturns) => WinInv'
<1> SUFFICES ASSUME IInv, WinInv, RecordClick \/ SaveReturns
             PROVE  WinInv'
  OBVIOUS
<1> USE DEF Frames, Modal, Calling, Boxes, Launching, Recovery, Dispatched, Blocking,
            StopSteps, WinInv
<1>1. CASE RecordClick
  <2>1. /\ uiPc = "idle" /\ open /\ Base(frames) = "loop" /\ recEnabled /\ Over(frames') = {}
        /\ UNCHANGED <<state, uiPc, tpc, open, power, pollTimer, watchTimer, recEnabled>>
        /\ frames' \in Seq(Frames) /\ Base(frames') \in {"loop", "save"}
        /\ recording' \in BOOLEAN /\ (recording' => recording)
    BY <1>1, UserStack DEF RecordClick, UserInput, WinTypeOK, vars, uiVars
  <2>2. WinTypeOK' /\ Nested' /\ RecoveryDead'
    BY <2>1 DEF WinTypeOK, Nested, RecoveryDead
  <2>3. CallOwner' /\ Joined' /\ Watched' /\ RecordStops'
    BY <2>1 DEF WinTypeOK, CallOwner, Joined, Watched, RecordStops
  <2> QED  BY <2>2, <2>3
<1>2. CASE SaveReturns
  <2>1. /\ uiPc = "idle" /\ Base(frames) = "save" /\ Over(frames') = {}
        /\ UNCHANGED <<state, uiPc, tpc, open, power, pollTimer, watchTimer, recEnabled>>
        /\ frames' \in Seq(Frames) /\ Base(frames') \in {"loop", "info"}
        /\ recording' \in BOOLEAN
    BY <1>2, LoneStack DEF SaveReturns, Returned, WinTypeOK, vars, uiVars
  <2>2. WinTypeOK' /\ Nested' /\ RecoveryDead'
    BY <2>1 DEF WinTypeOK, Nested, RecoveryDead
  <2>3. CallOwner' /\ Joined' /\ Watched' /\ RecordStops'
    BY <2>1 DEF WinTypeOK, CallOwner, Joined, Watched, RecordStops
  <2> QED  BY <2>2, <2>3
<1> QED  BY <1>1, <1>2

\* So does the shutdown.
LEMMA ShutdownKeepsWinInv ==
  IInv /\ WinInv /\ (Close \/ CloseAnswer \/ Destruct) => WinInv'
<1> SUFFICES ASSUME IInv, WinInv, Close \/ CloseAnswer \/ Destruct
             PROVE  WinInv'
  OBVIOUS
<1> USE DEF Frames, Modal, Calling, Boxes, Launching, Recovery, Dispatched, Blocking,
            StopSteps, WinInv
<1>1. uiPc = "idle" /\ UNCHANGED <<power, recEnabled>>
  BY DEF Close, CloseAnswer, Destruct, UserInput, Returned
<1>2. ASSUME WmDestroy
      PROVE  WinInv'
  <2>1. /\ frames' \in Seq(Frames) /\ Base(frames') = "quit" /\ Over(frames') = {}
    <3>1. frames' = Append(<<>>, "quit") /\ <<>> \in Seq(Frames)
      BY <1>2 DEF WmDestroy
    <3> QED  BY <3>1, Pushed
  <2>2. WinTypeOK' /\ Nested' /\ RecoveryDead'
    BY <1>1, <1>2, <2>1 DEF WmDestroy, WinTypeOK, Nested, RecoveryDead
  <2>3. CallOwner' /\ Joined' /\ Watched' /\ RecordStops'
    BY <1>1, <1>2, <2>1
    DEF WmDestroy, StopLoad, AfterStop, WinTypeOK, CallOwner, Joined, Watched, RecordStops
  <2> QED  BY <2>2, <2>3
<1>3. ASSUME \/ Base(frames) = "loop" /\ Base(frames') = "close" /\ open
             \/ Base(frames) = "close" /\ Base(frames') = "loop",
             frames' \in Seq(Frames), Over(frames') = {}, UNCHANGED <<vars, open>>,
             UNCHANGED <<pollTimer, watchTimer, recording>>
      PROVE  WinInv'
  <2>1. UNCHANGED <<state, uiPc, tpc>>
    BY <1>3 DEF vars, uiVars
  <2>2. WinTypeOK' /\ Nested' /\ RecoveryDead'
    BY <1>1, <1>3, <2>1 DEF WinTypeOK, Nested, RecoveryDead
  <2>3. CallOwner' /\ Joined'
    BY <1>1, <1>3, <2>1 DEF CallOwner, Joined
  <2>4. Watched' /\ RecordStops'
    BY <1>1, <1>3, <2>1 DEF WinTypeOK, Watched, RecordStops
  <2> QED  BY <2>2, <2>3, <2>4
<1>4. CASE Close /\ recording
  <2>1. /\ Base(frames) = "loop" /\ Base(frames') = "close"
        /\ frames' \in Seq(Frames) /\ Over(frames') = {} /\ open
    BY <1>4, UserStack DEF Close, UserInput
  <2> QED  BY <1>3, <1>4, <2>1 DEF Close
<1>5. CASE Close /\ ~recording
  BY <1>2, <1>5 DEF Close
<1>6. CASE CloseAnswer
  <2>1. /\ Base(frames) = "close" /\ Base(<<>>) = "loop" /\ Over(<<>>) = {}
        /\ Front(frames) = <<>> /\ <<>> \in Seq(Frames)
    BY <1>6, LoneStack DEF CloseAnswer, Returned
  <2> QED  BY <1>2, <1>3, <1>6, <2>1 DEF CloseAnswer
<1>7. CASE Destruct
  <2>1. /\ Base(frames) = "quit" /\ frames' \in Seq(Frames)
        /\ Base(frames') = "loop" /\ Over(frames') = {}
        /\ UNCHANGED <<open, power, pollTimer, watchTimer, recEnabled, recording>>
        /\ ~open /\ ~recording
    BY <1>7, LoneStack DEF Destruct, Returned, CallOwner, RecordStops
  <2>2. WinTypeOK' /\ Nested' /\ RecoveryDead'
    BY <2>1 DEF WinTypeOK, Nested, RecoveryDead
  <2>3. CallOwner' /\ Joined' /\ Watched' /\ RecordStops'
    BY <1>7, <2>1
    DEF Destruct, StopLoad, AfterStop, CallOwner, Joined, Watched, RecordStops
  <2> QED  BY <2>2, <2>3
<1> QED  BY <1>4, <1>5, <1>6, <1>7

\* A new window satisfies the invariant.
LEMMA InitWinInv == WinInit => WinInv
<1> SUFFICES ASSUME WinInit
             PROVE  WinInv
  OBVIOUS
<1>1. frames \in Seq(Frames) /\ Base(frames) = "loop" /\ Over(frames) = {}
  <2>1. frames = <<>> /\ <<>> \in Seq(Frames) /\ 2 .. 0 = {} /\ Len(<<>>) = 0
    BY DEF WinInit
  <2> QED  BY <2>1 DEF Base, Over
<1> QED
  BY <1>1 DEF WinInit, Init, WinInv, WinTypeOK, Nested, RecoveryDead, CallOwner, Joined,
          Watched, RecordStops, Recovery, Blocking, StopSteps

\* Every step of the window is a step of the engine, or leaves it alone.
LEMMA WinStepIsEngineStep == WinNext => [Next]_vars
<1> SUFFICES ASSUME WinNext
             PROVE  [Next]_vars
  OBVIOUS
<1>1. CASE User
  BY <1>1 DEF User, PowerOn, PowerOff, SettingsOpen, SettingsCancel, SettingsOk, RecordClick,
       SaveReturns, AnswerNo, AnswerYes, CloseBox, Close, CloseAnswer, WmDestroy, Next, UiCall,
       Callers
<1>2. CASE Handler
  BY <1>2 DEF Handler, StartReturns, PowerOffReturns, Resume, CallStart, SettingsStop,
       SettingsStopReturns, SettingsStart, Destruct, Next, UiCall, Callers
<1>3. CASE PollTick \/ WatchTick \/ DeviceChange
  BY <1>3 DEF PollTick, WatchTick, DeviceChange
<1>4. CASE Engine \/ Gone
  BY <1>4 DEF Engine, Gone, Next, Finished
<1> QED  BY <1>1, <1>2, <1>3, <1>4 DEF WinNext

\* What changes no variable keeps the invariant.
LEMMA QuietWinInv == WinInv /\ UNCHANGED vars /\ UNCHANGED winVars => WinInv'
<1> SUFFICES ASSUME WinInv, UNCHANGED vars, UNCHANGED winVars
             PROVE  WinInv'
  OBVIOUS
<1>1. UNCHANGED <<state, uiPc, tpc>> /\ Dead' = Dead
  BY DEF vars, uiVars, Dead
<1>2. /\ UNCHANGED <<frames, open, power, pollTimer, watchTimer, recEnabled, recording>>
      /\ Base(frames') = Base(frames) /\ Over(frames') = Over(frames)
  BY DEF winVars
<1> QED
  BY <1>1, <1>2
  DEF WinInv, WinTypeOK, Nested, RecoveryDead, CallOwner, Joined, Watched, RecordStops

\* Every step of the window keeps both invariants.
LEMMA StepKeepsWinInv == IInv /\ WinInv /\ [WinNext]_allVars => IInv' /\ WinInv'
<1> SUFFICES ASSUME IInv, WinInv, [WinNext]_allVars
             PROVE  IInv' /\ WinInv'
  OBVIOUS
<1>1. CASE WinNext
  <2>1. IInv'
    BY <1>1, WinStepIsEngineStep, StepKeepsIInv
  <2>2. User => WinInv'
    BY PowerKeepsWinInv, SettingsKeepWinInv, RecordKeepsWinInv, RecoveryKeepsWinInv,
       ShutdownKeepsWinInv DEF User
  <2>3. Handler => WinInv'
    BY PowerKeepsWinInv, SettingsKeepWinInv, RecoveryKeepsWinInv, ShutdownKeepsWinInv
    DEF Handler
  <2>4. PollTick \/ WatchTick \/ DeviceChange => WinInv'
    BY TimersKeepWinInv
  <2>5. Engine => WinInv'
    BY <2>1, EngineKeepsWinInv
  <2>6. Gone => WinInv'
    BY QuietWinInv DEF Gone, Finished
  <2> QED  BY <1>1, <2>1, <2>2, <2>3, <2>4, <2>5, <2>6 DEF WinNext
<1>2. CASE UNCHANGED allVars
  <2>1. IInv'
    BY <1>2, StepKeepsIInv DEF allVars
  <2>2. WinInv'
    BY <1>2, QuietWinInv DEF allVars
  <2> QED  BY <2>1, <2>2
<1> QED  BY <1>1, <1>2

\* So they always hold.
LEMMA WinSpecInv == WinSpec => [](IInv /\ WinInv)
<1>1. WinInit => IInv /\ WinInv
  BY InitIInv, InitWinInv DEF WinInit
<1> QED  BY <1>1, StepKeepsWinInv, PTL DEF WinSpec

-----------------------------------------------------------------------------
\* The window calls the engine as Spec allows, so that every theorem about Spec holds of
\* the engine the window drives.
THEOREM WindowDrivesEngine == WinSpec => Spec
<1>1. WinInit => Init  BY DEF WinInit
<1>2. [WinNext]_allVars => [Next]_vars
  BY WinStepIsEngineStep DEF allVars
<1> QED  BY <1>1, <1>2, PTL DEF WinSpec, Spec

\* The window's variables keep their types, however deep its handlers nest.
THEOREM WindowTypeCorrect == WinSpec => []WinTypeOK
<1>1. WinInv => WinTypeOK  BY DEF WinInv
<1> QED  BY <1>1, WinSpecInv, PTL

\* An engine that starts or runs is watched by a timer whenever messages are pumped.
THEOREM AlwaysSupervised == WinSpec => []Supervised
<1>1. IInv /\ WinInv => Supervised
  <2> SUFFICES ASSUME IInv, WinInv, Pumping, state \in {"Starting", "Running"}
               PROVE  pollTimer \/ watchTimer
    BY DEF Supervised
  <2>1. Base(frames) \notin {"on", "setLaunch", "off", "setStop"}
    BY PumpedStack DEF Blocking, Dispatched
  <2> QED
    BY <2>1 DEF WinInv, Watched, Pumping
<1> QED  BY <1>1, WinSpecInv, PTL

\* No session starts while a recording is open.
THEOREM SessionsDoNotShareRecordings == WinSpec => NoRecordingAcrossSessions
<1>1. WinInv => [state = "Off" /\ state' = "Starting" => ~recording]_allVars
  BY DEF WinInv, RecordStops
<1> QED  BY <1>1, WinSpecInv, PTL DEF NoRecordingAcrossSessions

\* After an error no handler of the window ever starts the engine again.
THEOREM ErrorsAreFinal == WinSpec => ErrorIsFinal
<1>1. IInv /\ state = "Error" => Dead
  BY DEF IInv, ErrorEnds
<1>2. IInv /\ Dead /\ [WinNext]_allVars => Dead'
  BY StaysDead, WinStepIsEngineStep DEF allVars
<1>3. Dead => state \in {"Error", "Stopping"}
  BY DEF Dead
<1> QED  BY <1>1, <1>2, <1>3, WinSpecInv, PTL DEF WinSpec, ErrorIsFinal
=============================================================================
