---------------------------- MODULE AudioEngine ----------------------------
(***************************************************************************)
(* The life cycle of one AudioEngine (src/src/win32/AudioEngine.cpp): the  *)
(* UI thread inside start(), stop() and the destructor, the audio thread   *)
(* inside audioThreadProc() and runLoop(), and the WASAPI devices.         *)
(*                                                                         *)
(* Every read or write of a variable the two threads share (the atomic     *)
(* state, the plain HANDLE stopEvent, the std::thread object) is a step of *)
(* its own.  stopEvent is tested and then passed to SetEvent by the UI     *)
(* thread while the audio thread may close and null it: a data race whose  *)
(* outcomes (the handle is still open, it is null, it is stale) are the    *)
(* two cases of StopSet.                                                   *)
(***************************************************************************)
EXTENDS Naturals

CONSTANTS
  NStages,     \* WASAPI objects audioThreadProc acquires, one after the other
  MaxPackets   \* bound: capture packets waiting in the device

ASSUME StagesAssumption  == NStages \in Nat \ {0}
ASSUME PacketsAssumption == MaxPackets \in Nat \ {0}

VARIABLES
  state,        \* impl_->state, the only variable the UI polls
  stopEvent,    \* "null", "clear" or "set": impl_->stopEvent and its signal
  uiPc,         \* where the UI thread is in start(), stop() or the destructor
  caller,       \* who called stop(): a client or ~AudioEngine()
  tpc,          \* where the audio thread is; "none": thread not joinable
  acquired,     \* number of WASAPI objects held by impl_
  com,          \* "in" or "out": the audio thread and its COM apartment
  outcome,      \* what runLoop() returned: "stopped" or "lost"
  capture,      \* "ok" or "lost": the capture endpoint
  render,       \* "ok" or "lost": the render endpoint
  packets,      \* capture packets ready to be read
  captureEvent  \* auto-reset event signalled by the capture endpoint

uiVars  == <<uiPc, caller>>
devVars == <<capture, render, packets, captureEvent>>
vars == <<state, stopEvent, uiVars, tpc, acquired, com, outcome, devVars>>

States    == {"Off", "Starting", "Running", "Stopping", "Error"}
StopSteps == {"store", "test", "set", "join"}
Callers   == {"client", "destructor"}
UiSteps   == {"idle", "event", "launch", "gone"} \union StopSteps
LoopSteps == {"wait", "next", "get", "render"}
ThreadSteps == {"none", "com", "init", "fail", "exit", "release", "final", "ended"}
               \union LoopSteps

Init ==
  /\ state = "Off" /\ stopEvent = "null"
  /\ uiPc = "idle" /\ caller = "client"
  /\ tpc = "none" /\ acquired = 0 /\ com = "out" /\ outcome = "stopped"
  /\ capture = "ok" /\ render = "ok" /\ packets = 0 /\ captureEvent = "clear"

-----------------------------------------------------------------------------
(* UI thread: start().                                                     *)

\* Seeded fault: start() also accepts an engine in Error.
StartCas_FromError ==
  /\ uiPc = "idle" /\ state \in {"Off", "Error"}
  /\ state' = "Starting" /\ uiPc' = "event"
  /\ capture' = "ok" /\ render' = "ok" /\ packets' = 0 /\ captureEvent' = "clear"
  /\ UNCHANGED <<stopEvent, caller, tpc, acquired, com, outcome>>

\* The compare-and-swap Off -> Starting; any other state makes start() return
\* FALSE with nothing changed.  The device ids it stores may name other
\* endpoints than the ones of the last session: they may be alive again.
StartCas ==
  /\ uiPc = "idle" /\ state = "Off"
  /\ state' = "Starting" /\ uiPc' = "event"
  /\ capture' = "ok" /\ render' = "ok" /\ packets' = 0 /\ captureEvent' = "clear"
  /\ UNCHANGED <<stopEvent, caller, tpc, acquired, com, outcome>>

StartRefused ==
  /\ uiPc = "idle" /\ state # "Off"
  /\ UNCHANGED vars

StartCreateEvent ==
  /\ uiPc = "event"
  /\ \/ /\ stopEvent' = "clear" /\ uiPc' = "launch"
        /\ UNCHANGED state
     \/ /\ state' = "Error" /\ uiPc' = "idle"
        /\ UNCHANGED stopEvent
  /\ UNCHANGED <<caller, tpc, acquired, com, outcome, devVars>>

\* impl_->thread is move-assigned: std::terminate if it is still joinable.
StartLaunch ==
  /\ uiPc = "launch"
  /\ tpc' = "com" /\ uiPc' = "idle"
  /\ outcome' = "stopped"
  /\ UNCHANGED <<state, stopEvent, caller, acquired, com, devVars>>

-----------------------------------------------------------------------------
(* UI thread: stop() and ~AudioEngine(), which calls stop() and then       *)
(* deletes impl_.                                                          *)

AfterStop(d) == IF d = "destructor" THEN "gone" ELSE "idle"

\* Seeded fault: stop() takes Error for "no thread".
StopLoad_ErrorIsDown(d) ==
  /\ uiPc = "idle"
  /\ caller' = d
  /\ uiPc' = IF state \in {"Off", "Stopping", "Error"} THEN AfterStop(d) ELSE "store"
  /\ UNCHANGED <<state, stopEvent, tpc, acquired, com, outcome, devVars>>

StopLoad(d) ==
  /\ uiPc = "idle"
  /\ caller' = d
  /\ uiPc' = IF state \in {"Off", "Stopping"} THEN AfterStop(d) ELSE "store"
  /\ UNCHANGED <<state, stopEvent, tpc, acquired, com, outcome, devVars>>

StopStore ==
  /\ uiPc = "store"
  /\ state' = "Stopping" /\ uiPc' = "test"
  /\ UNCHANGED <<stopEvent, caller, tpc, acquired, com, outcome, devVars>>

StopTest ==
  /\ uiPc = "test"
  /\ uiPc' = IF stopEvent = "null" THEN "join" ELSE "set"
  /\ UNCHANGED <<state, stopEvent, caller, tpc, acquired, com, outcome, devVars>>

\* SetEvent on the handle tested above; when the audio thread has closed it in
\* between the call fails and nobody is woken.
StopSet ==
  /\ uiPc = "set"
  /\ stopEvent' = IF stopEvent = "null" THEN "null" ELSE "set"
  /\ uiPc' = "join"
  /\ UNCHANGED <<state, caller, tpc, acquired, com, outcome, devVars>>

\* join() if joinable; the UI thread is blocked until the audio thread ends.
StopJoin ==
  /\ uiPc = "join"
  /\ tpc \in {"none", "ended"}
  /\ tpc' = "none" /\ uiPc' = AfterStop(caller)
  /\ UNCHANGED <<state, stopEvent, caller, acquired, com, outcome, devVars>>

-----------------------------------------------------------------------------
(* Audio thread: audioThreadProc() up to the loop.                         *)

\* CoInitializeEx; on failure no resource was acquired, none is released and
\* stopEvent stays open.
ThreadCom ==
  /\ tpc = "com"
  /\ \/ /\ com' = "in" /\ tpc' = "init" /\ UNCHANGED state
     \/ /\ state' = "Error" /\ tpc' = "ended" /\ UNCHANGED com
  /\ UNCHANGED <<stopEvent, uiVars, acquired, outcome, devVars>>

\* Seeded fault: one acquisition too many.
ThreadAcquire_TooMany ==
  /\ tpc = "init" /\ acquired <= NStages
  /\ acquired' = acquired + 1
  /\ UNCHANGED <<state, stopEvent, uiVars, tpc, com, outcome, devVars>>

\* One acquisition: the enumerator first, then clients, formats, the capture
\* event, the services, the resampler and the drain ring.
ThreadAcquire ==
  /\ tpc = "init" /\ acquired < NStages
  /\ acquired' = acquired + 1
  /\ UNCHANGED <<state, stopEvent, uiVars, tpc, com, outcome, devVars>>

\* Without the enumerator the thread leaves COM and returns; releaseResources()
\* is not called, so stopEvent is not closed.
ThreadEnumeratorFails ==
  /\ tpc = "init" /\ acquired = 0
  /\ state' = "Error" /\ com' = "out" /\ tpc' = "ended"
  /\ UNCHANGED <<stopEvent, uiVars, acquired, outcome, devVars>>

\* Every later failure stores Error first and releases afterwards.
ThreadAcquireFails ==
  /\ tpc = "init" /\ acquired \in 1..(NStages - 1)
  /\ state' = "Error" /\ tpc' = "fail"
  /\ UNCHANGED <<stopEvent, uiVars, acquired, com, outcome, devVars>>

ThreadFailRelease ==
  /\ tpc = "fail"
  /\ acquired' = 0 /\ stopEvent' = "null" /\ tpc' = "ended"
  /\ UNCHANGED <<state, uiVars, com, outcome, devVars>>

\* Streams started, Running stored: it overwrites a Stopping the UI thread may
\* have stored since.
ThreadRunning ==
  /\ tpc = "init" /\ acquired = NStages
  /\ state' = "Running" /\ tpc' = "wait"
  /\ UNCHANGED <<stopEvent, uiVars, acquired, com, outcome, devVars>>

-----------------------------------------------------------------------------
(* Audio thread: runLoop().                                                *)

Leave(result) == outcome' = result /\ tpc' = "exit"

\* WaitForMultipleObjects reports the lowest signalled index: captureEvent is
\* index 0 and hides a signalled stopEvent.
WaitCapture ==
  /\ tpc = "wait" /\ captureEvent = "set"
  /\ captureEvent' = "clear" /\ tpc' = "next"
  /\ UNCHANGED <<state, stopEvent, uiVars, acquired, com, outcome,
                 capture, render, packets>>

\* Seeded fault: the stop event only makes the loop look at the state.
WaitStop_StateOnly ==
  /\ tpc = "wait" /\ captureEvent = "clear" /\ stopEvent = "set"
  /\ IF state = "Stopping" THEN Leave("stopped") ELSE UNCHANGED <<tpc, outcome>>
  /\ UNCHANGED <<state, stopEvent, uiVars, acquired, com, devVars>>

WaitStop ==
  /\ tpc = "wait" /\ captureEvent = "clear" /\ stopEvent = "set"
  /\ Leave("stopped")
  /\ UNCHANGED <<state, stopEvent, uiVars, acquired, com, devVars>>

WaitTimeout ==
  /\ tpc = "wait" /\ captureEvent = "clear" /\ stopEvent # "set"
  /\ IF state = "Stopping" THEN Leave("stopped") ELSE UNCHANGED <<tpc, outcome>>
  /\ UNCHANGED <<state, stopEvent, uiVars, acquired, com, devVars>>

\* Seeded fault: a failed wait is taken for a stop.
WaitFailed_AsStop ==
  /\ tpc = "wait"
  /\ Leave("stopped")
  /\ UNCHANGED <<state, stopEvent, uiVars, acquired, com, devVars>>

WaitFailed ==
  /\ tpc = "wait"
  /\ Leave("lost")
  /\ UNCHANGED <<state, stopEvent, uiVars, acquired, com, devVars>>

\* GetNextPacketSize: a failure only ends the packet loop.
NextPacket ==
  /\ tpc = "next"
  /\ tpc' = IF capture = "ok" /\ packets > 0 THEN "get" ELSE "wait"
  /\ UNCHANGED <<state, stopEvent, uiVars, acquired, com, outcome, devVars>>

\* IAudioCaptureClient::GetBuffer, then the packet is processed and pushed to
\* the drain ring.
GetPacket ==
  /\ tpc = "get"
  /\ IF capture = "lost"
     THEN Leave("lost") /\ UNCHANGED packets
     ELSE packets' = packets - 1 /\ tpc' = "render" /\ UNCHANGED outcome
  /\ UNCHANGED <<state, stopEvent, uiVars, acquired, com, capture, render, captureEvent>>

GetPacketFails ==
  /\ tpc = "get" /\ capture = "ok"
  /\ Leave("lost")
  /\ UNCHANGED <<state, stopEvent, uiVars, acquired, com, devVars>>

\* Seeded fault: every render failure is skipped.
RenderPacket_SkipLoss ==
  /\ tpc = "render"
  /\ tpc' = "next"
  /\ UNCHANGED <<state, stopEvent, uiVars, acquired, com, outcome, devVars>>

\* The processed packet is in the drain ring, so there is something to render;
\* only AUDCLNT_E_DEVICE_INVALIDATED leaves the loop.
RenderPacket ==
  /\ tpc = "render"
  /\ IF render = "lost" THEN Leave("lost")
                        ELSE tpc' = "next" /\ UNCHANGED outcome
  /\ UNCHANGED <<state, stopEvent, uiVars, acquired, com, devVars>>

-----------------------------------------------------------------------------
(* Audio thread: teardown.                                                 *)

\* Seeded fault: the final state is stored before the resources are released.
ThreadStopStreams_StoreFirst ==
  /\ tpc = "exit"
  /\ state' = IF outcome = "lost" THEN "Error" ELSE "Off"
  /\ packets' = 0 /\ captureEvent' = "clear" /\ tpc' = "release"
  /\ UNCHANGED <<stopEvent, uiVars, acquired, com, outcome, capture, render>>

ThreadStopStreams ==
  /\ tpc = "exit"
  /\ packets' = 0 /\ captureEvent' = "clear" /\ tpc' = "release"
  /\ UNCHANGED <<state, stopEvent, uiVars, acquired, com, outcome, capture, render>>

ThreadRelease ==
  /\ tpc = "release"
  /\ acquired' = 0 /\ stopEvent' = "null" /\ com' = "out" /\ tpc' = "final"
  /\ UNCHANGED <<state, uiVars, outcome, devVars>>

ThreadFinal ==
  /\ tpc = "final"
  /\ state' = IF outcome = "lost" THEN "Error" ELSE "Off"
  /\ tpc' = "ended"
  /\ UNCHANGED <<stopEvent, uiVars, acquired, com, outcome, devVars>>

-----------------------------------------------------------------------------
(* The devices.                                                            *)

\* A capture packet becomes ready and the event is signalled.
DevicePacket ==
  /\ tpc \in LoopSteps /\ capture = "ok" /\ packets < MaxPackets
  /\ packets' = packets + 1 /\ captureEvent' = "set"
  /\ UNCHANGED <<state, stopEvent, uiVars, tpc, acquired, com, outcome, capture, render>>

LoseCapture ==
  /\ tpc \in LoopSteps \union {"init"} /\ capture = "ok"
  /\ capture' = "lost"
  /\ UNCHANGED <<state, stopEvent, uiVars, tpc, acquired, com, outcome,
                 render, packets, captureEvent>>

LoseRender ==
  /\ tpc \in LoopSteps \union {"init"} /\ render = "ok"
  /\ render' = "lost"
  /\ UNCHANGED <<state, stopEvent, uiVars, tpc, acquired, com, outcome,
                 capture, packets, captureEvent>>

-----------------------------------------------------------------------------
UiProgress ==
  \/ StartCreateEvent \/ StartLaunch
  \/ StopStore \/ StopTest \/ StopSet \/ StopJoin

UiCall == StartCas \/ StartRefused \/ \E d \in Callers : StopLoad(d)

ThreadProgress ==
  \/ ThreadCom \/ ThreadAcquire \/ ThreadFailRelease \/ ThreadRunning
  \/ WaitCapture \/ WaitStop \/ WaitTimeout
  \/ NextPacket \/ GetPacket \/ RenderPacket
  \/ ThreadStopStreams \/ ThreadRelease \/ ThreadFinal

\* What the system may do to the audio thread and need not.
ThreadFailure ==
  \/ ThreadEnumeratorFails \/ ThreadAcquireFails \/ WaitFailed \/ GetPacketFails

Device == DevicePacket \/ LoseCapture \/ LoseRender

\* The engine has been deleted at the end of the program.
Finished == uiPc = "gone" /\ tpc = "none" /\ UNCHANGED vars

Next == UiCall \/ UiProgress \/ ThreadProgress \/ ThreadFailure \/ Device \/ Finished

Spec == Init /\ [][Next]_vars

\* Both threads are scheduled.  A wait entered with stopEvent set and no
\* capture event pending returns at once, however often a packet arrives
\* between two waits: strong fairness.  Live devices keep delivering.
FairSpec ==
  /\ Spec
  /\ WF_vars(UiProgress)
  /\ WF_vars(ThreadProgress)
  /\ SF_vars(WaitStop)
  /\ WF_vars(DevicePacket)

-----------------------------------------------------------------------------
(* Properties.                                                             *)

\* The types of the variables; acquisitions and packets stay within their bounds.
TypeOK ==
  /\ state \in States /\ stopEvent \in {"null", "clear", "set"}
  /\ uiPc \in UiSteps /\ caller \in Callers
  /\ tpc \in ThreadSteps /\ acquired \in 0..NStages
  /\ com \in {"in", "out"} /\ outcome \in {"stopped", "lost"}
  /\ capture \in {"ok", "lost"} /\ render \in {"ok", "lost"}
  /\ packets \in 0..MaxPackets /\ captureEvent \in {"clear", "set"}

\* start() never move-assigns impl_->thread while the thread of an earlier
\* session is still joinable (std::terminate), and never overwrites an open
\* stopEvent: Off is only ever seen once the last session has been joined or is
\* being joined by the UI thread itself (AudioEngine.cpp:243-267).
StartFindsNoThread ==
  /\ uiPc = "launch" => tpc = "none"
  /\ uiPc = "event" => tpc = "none" /\ stopEvent = "null"

\* A caller that sees Off sees an engine that holds no WASAPI object, no event
\* handle and no COM apartment: the final store of audioThreadProc comes after
\* releaseResources() and CoUninitialize() (AudioEngine.cpp:664-668).
OffIsReleased ==
  state = "Off" => acquired = 0 /\ stopEvent = "null" /\ com = "out"

\* ~AudioEngine() deletes impl_ only when no audio thread can use it, although
\* stop() returns without a join when it loads Off or Stopping
\* (AudioEngine.cpp:218-221, 269-281).
DestroyedAlone == uiPc = "gone" => tpc = "none"

\* The engine never turns Off by itself: only while the UI thread is inside
\* stop(), after its store.  A lost device or a failed wait is never reported
\* as a normal stop (AudioEngine.cpp:694-704, 716, 895, 667).
OffOnlyOnRequest ==
  [][state # "Off" /\ state' = "Off" => uiPc \in {"test", "set", "join"}]_vars

\* The callbacks keep up with the devices: as long as a session lasts the loop
\* goes back to waiting with no packet signalled, again and again.
KeepsUp == \/ <>[](tpc \notin LoopSteps)
           \/ []<>(tpc = "wait" /\ captureEvent = "clear")

\* stop() returns: neither a store of Running over Stopping nor a session that
\* ends by itself while stop() is on its way leaves the UI thread in join()
\* (AudioEngine.cpp:269-281, 649, 930).
StopReturns == KeepsUp => (uiPc = "store" ~> uiPc \in {"idle", "gone"})

\* A render endpoint invalidated while capture goes on makes the engine leave
\* Running (AudioEngine.cpp:892-895).
RenderLossLeavesRunning ==
  state = "Running" /\ render = "lost" ~> state # "Running" \/ capture = "lost"

\* The same for the capture endpoint, which docs/milestone-10.md:122 requires:
\* unplug the input device, "watchdog fires within 500 ms" (it tests Error).
CaptureLossLeavesRunning ==
  state = "Running" /\ capture = "lost" ~> state # "Running"
=============================================================================
