----------------------------- MODULE MainWindow -----------------------------
(***************************************************************************)
(* The transport part of MainWindow (src/src/win32/MainWindow.cpp) driving *)
(* the AudioEngine: power toggle, record toggle, settings, the two engine  *)
(* timers, the recovery dialog and the shutdown.                           *)
(*                                                                         *)
(* There is one UI thread.  A MessageBox or a dialog runs a message loop   *)
(* of its own: the main window is disabled, but timers and posted messages *)
(* keep being dispatched, so handlers nest.  `frames' is the stack of the  *)
(* handlers that have not returned, innermost last.                        *)
(***************************************************************************)
EXTENDS AudioEngine, SequencesExt

CONSTANT MaxDepth   \* bound: handlers nested in one another

ASSUME DepthAssumption == MaxDepth \in Nat \ {0}

VARIABLES
  frames,      \* handlers in progress; each waits for a dialog or the engine
  open,        \* FALSE once WM_DESTROY has been handled
  power,       \* the power toggle is checked
  pollTimer,   \* IDT_ENGINE_STATE is set
  watchTimer,  \* IDT_ENGINE_WATCHDOG is set
  recEnabled,  \* the record button is enabled
  recording    \* recordingFd_ >= 0

winVars == <<frames, open, power, pollTimer, watchTimer, recEnabled, recording>>
allVars == <<vars, winVars>>

\* Handlers that wait for the user in a modal message loop ...
Boxes == {"refused", "restartRefused", "startFailed", "info"}
Modal == Boxes \union {"ask", "settings", "save", "close"}
\* ... and handlers inside AudioEngine::start() or stop(), or about to be.
Launching == {"on", "setLaunch", "restart"}
Calling == Launching \union {"off", "resume", "apply", "setStop", "setStart", "quit"}

Top        == IF frames = <<>> THEN "loop" ELSE Last(frames)
Push(f)    == Append(frames, f)
Replace(f) == Append(Front(frames), f)
Pumping    == uiPc = "idle" /\ open /\ Top \in Modal \union {"loop"}
UserInput  == uiPc = "idle" /\ open /\ Top = "loop"
Returned(f) == uiPc = "idle" /\ Top = f

\* The box that reports a start() that returned FALSE.
BoxOf(f) == IF f = "restart" THEN "restartRefused" ELSE "refused"

\* start() returned TRUE: only then is there a thread to join.
Launched == tpc # "none"

WinInit ==
  /\ Init
  /\ frames = <<>> /\ open = TRUE /\ power = FALSE
  /\ pollTimer = FALSE /\ watchTimer = FALSE
  /\ recEnabled = FALSE /\ recording = FALSE

-----------------------------------------------------------------------------
\* onEngineError() up to its YES/NO box, entered with the stack fs.
EngineError(fs) ==
  /\ frames' = Append(fs, "ask")
  /\ recording' = FALSE
  /\ power' = FALSE /\ recEnabled' = FALSE

\* onDeviceListChanged(), returning to the stack fs.
DeviceListChanged(fs) ==
  IF state = "Error"
  THEN watchTimer' = FALSE /\ EngineError(fs)
  ELSE frames' = fs /\ UNCHANGED <<watchTimer, recording, power, recEnabled>>

\* start() was called and returned FALSE at once, or was accepted and goes on
\* in the frame f.
CallStart(f) ==
  \/ StartCas /\ frames' = Replace(f) /\ UNCHANGED power
  \/ StartRefused /\ frames' = Replace(BoxOf(f)) /\ power' = FALSE

\* Seeded fault: the engine restarted by the settings is not polled.
StartReturns_NoPoll ==
  /\ uiPc = "idle" /\ Top \in Launching
  /\ IF Launched
     THEN /\ pollTimer' = (pollTimer \/ Top # "setLaunch") /\ frames' = Front(frames)
          /\ power' = (power \/ Top = "restart")
     ELSE frames' = Replace(BoxOf(Top)) /\ power' = FALSE /\ UNCHANGED pollTimer
  /\ UNCHANGED <<vars, open, watchTimer, recEnabled, recording>>

\* start() returns to the power toggle, which is on, to the settings, which leave
\* it off until onEngineStatePoll() sees Running, or to the recovery, which turns
\* it on (MainWindow.cpp:328-336).
StartReturns ==
  /\ uiPc = "idle" /\ Top \in Launching
  /\ IF Launched
     THEN pollTimer' = TRUE /\ frames' = Front(frames) /\ power' = (power \/ Top = "restart")
     ELSE frames' = Replace(BoxOf(Top)) /\ power' = FALSE /\ UNCHANGED pollTimer
  /\ UNCHANGED <<vars, open, watchTimer, recEnabled, recording>>

-----------------------------------------------------------------------------
(* The power toggle.  The button is an auto-checkbox: the click has        *)
(* changed it before the handler runs.                                     *)

PowerOn ==
  /\ UserInput /\ ~power
  /\ \/ StartCas /\ frames' = Push("on") /\ power' = TRUE
     \/ StartRefused /\ frames' = Push("refused") /\ UNCHANGED power
  /\ UNCHANGED <<open, pollTimer, watchTimer, recEnabled, recording>>

PowerOff ==
  /\ UserInput /\ power
  /\ power' = FALSE
  /\ recording' = FALSE
  /\ StopLoad("client") /\ frames' = Push("off")
  /\ UNCHANGED <<open, pollTimer, watchTimer, recEnabled>>

\* IDT_ENGINE_STATE is left as it is.
PowerOffReturns ==
  /\ Returned("off")
  /\ watchTimer' = FALSE /\ power' = FALSE /\ recEnabled' = FALSE
  /\ frames' = Front(frames)
  /\ UNCHANGED <<vars, open, pollTimer, recording>>

-----------------------------------------------------------------------------
(* Timers and posted messages, in whatever loop pumps.                     *)

\* Seeded fault: no watchdog once the engine runs.
PollTick_NoWatchdog ==
  /\ Pumping /\ pollTimer /\ state # "Starting" /\ Len(frames) < MaxDepth
  /\ pollTimer' = FALSE
  /\ IF state = "Running"
     THEN power' = TRUE /\ recEnabled' = TRUE /\ UNCHANGED frames
     ELSE power' = FALSE /\ recEnabled' = FALSE /\ frames' = Push("startFailed")
  /\ UNCHANGED <<vars, open, watchTimer, recording>>

\* Seeded fault: the toggle is taken to be on already.
PollTick_NoToggle ==
  /\ Pumping /\ pollTimer /\ state # "Starting" /\ Len(frames) < MaxDepth
  /\ pollTimer' = FALSE
  /\ IF state = "Running"
     THEN recEnabled' = TRUE /\ watchTimer' = TRUE /\ UNCHANGED <<frames, power>>
     ELSE /\ power' = FALSE /\ recEnabled' = FALSE /\ frames' = Push("startFailed")
          /\ UNCHANGED watchTimer
  /\ UNCHANGED <<vars, open, recording>>

PollTick ==
  /\ Pumping /\ pollTimer /\ state # "Starting" /\ Len(frames) < MaxDepth
  /\ pollTimer' = FALSE
  /\ IF state = "Running"
     THEN power' = TRUE /\ recEnabled' = TRUE /\ watchTimer' = TRUE /\ UNCHANGED frames
     ELSE /\ power' = FALSE /\ recEnabled' = FALSE /\ frames' = Push("startFailed")
          /\ UNCHANGED watchTimer
  /\ UNCHANGED <<vars, open, recording>>

WatchTick ==
  /\ Pumping /\ watchTimer /\ state = "Error" /\ Len(frames) < MaxDepth
  /\ watchTimer' = FALSE /\ EngineError(frames)
  /\ UNCHANGED <<vars, open, pollTimer>>

\* WM_OPIQO_DEVICE_CHANGE, posted by the endpoint notification client.
DeviceChange ==
  /\ Pumping /\ state = "Error" /\ Len(frames) < MaxDepth
  /\ DeviceListChanged(frames)
  /\ UNCHANGED <<vars, open, pollTimer>>

-----------------------------------------------------------------------------
(* The recovery dialog of onEngineError().                                 *)

AnswerNo ==
  /\ Returned("ask") /\ frames' = Front(frames)
  /\ UNCHANGED <<vars, open, power, pollTimer, watchTimer, recEnabled, recording>>

\* The device list is refreshed first; that handler itself reports an engine
\* that is in Error.
AnswerYes ==
  /\ Returned("ask") /\ Len(frames) < MaxDepth
  /\ DeviceListChanged(Replace("resume"))
  /\ UNCHANGED <<vars, open, pollTimer>>

Resume ==
  /\ Returned("resume")
  /\ CallStart("restart")
  /\ UNCHANGED <<open, pollTimer, watchTimer, recEnabled, recording>>

CloseBox ==
  /\ uiPc = "idle" /\ Top \in Boxes /\ frames' = Front(frames)
  /\ UNCHANGED <<vars, open, power, pollTimer, watchTimer, recEnabled, recording>>

-----------------------------------------------------------------------------
(* Settings: an engine that runs is stopped, and started again with them.  *)

\* Seeded fault: the settings may be changed during a recording.
SettingsOpen_Recording ==
  /\ UserInput
  /\ frames' = Push("settings")
  /\ UNCHANGED <<vars, open, power, pollTimer, watchTimer, recEnabled, recording>>

SettingsOpen ==
  /\ UserInput
  /\ frames' = Push(IF recording THEN "info" ELSE "settings")
  /\ UNCHANGED <<vars, open, power, pollTimer, watchTimer, recEnabled, recording>>

SettingsCancel ==
  /\ Returned("settings") /\ frames' = Front(frames)
  /\ UNCHANGED <<vars, open, power, pollTimer, watchTimer, recEnabled, recording>>

SettingsOk ==
  /\ Returned("settings")
  /\ IF state = "Running"
     THEN /\ frames' = Replace("apply")
          /\ UNCHANGED <<watchTimer, recording, power, recEnabled>>
     ELSE DeviceListChanged(Front(frames))
  /\ UNCHANGED <<vars, open, pollTimer>>

SettingsStop ==
  /\ Returned("apply")
  /\ StopLoad("client") /\ frames' = Replace("setStop")
  /\ UNCHANGED <<open, power, pollTimer, watchTimer, recEnabled, recording>>

\* The stop has returned; the handler itself may then run into onEngineError().
SettingsStopReturns ==
  /\ Returned("setStop")
  /\ IF state = "Error"
     THEN EngineError(Replace("setStart"))
     ELSE /\ frames' = Replace("setStart") /\ power' = FALSE /\ recEnabled' = FALSE
          /\ UNCHANGED recording
  /\ watchTimer' = FALSE
  /\ UNCHANGED <<vars, open, pollTimer>>

SettingsStart ==
  /\ Returned("setStart")
  /\ CallStart("setLaunch")
  /\ UNCHANGED <<open, pollTimer, watchTimer, recEnabled, recording>>

-----------------------------------------------------------------------------
(* Recording.                                                              *)

RecordClick ==
  /\ UserInput /\ recEnabled
  /\ IF recording
     THEN recording' = FALSE /\ UNCHANGED frames
     ELSE frames' = Push("save") /\ UNCHANGED recording
  /\ UNCHANGED <<vars, open, power, pollTimer, watchTimer, recEnabled>>

\* The file dialog is cancelled, the file or the encoder cannot be opened, or
\* the recording starts.
SaveReturns ==
  /\ Returned("save")
  /\ \/ frames' = Front(frames) /\ UNCHANGED recording
     \/ frames' = Replace("info") /\ UNCHANGED recording
     \/ frames' = Front(frames) /\ recording' = TRUE
  /\ UNCHANGED <<vars, open, power, pollTimer, watchTimer, recEnabled>>

-----------------------------------------------------------------------------
(* Shutdown: WM_CLOSE, WM_DESTROY, and the engine's destructor.            *)

\* WM_DESTROY: the open recording is finalised, stop() is called.
WmDestroy ==
  /\ StopLoad("client") /\ frames' = <<"quit">> /\ open' = FALSE
  /\ recording' = FALSE
  /\ pollTimer' = FALSE /\ watchTimer' = FALSE

Close ==
  /\ UserInput
  /\ IF recording
     THEN /\ frames' = Push("close")
          /\ UNCHANGED <<vars, open, recording, pollTimer, watchTimer>>
     ELSE WmDestroy
  /\ UNCHANGED <<power, recEnabled>>

CloseAnswer ==
  /\ Returned("close")
  /\ \/ /\ frames' = Front(frames)
        /\ UNCHANGED <<vars, open, recording, pollTimer, watchTimer>>
     \/ WmDestroy
  /\ UNCHANGED <<power, recEnabled>>

\* The message loop has ended; MainWindow and its AudioEngine are destroyed.
Destruct ==
  /\ Returned("quit")
  /\ StopLoad("destructor") /\ frames' = <<>>
  /\ UNCHANGED <<open, power, pollTimer, watchTimer, recEnabled, recording>>

-----------------------------------------------------------------------------
User ==
  \/ PowerOn \/ PowerOff \/ SettingsOpen \/ SettingsCancel \/ SettingsOk
  \/ RecordClick \/ SaveReturns \/ AnswerNo \/ AnswerYes \/ CloseBox
  \/ Close \/ CloseAnswer

\* What the UI thread does by itself once it is in a handler.
Handler ==
  \/ StartReturns \/ PowerOffReturns \/ Resume
  \/ SettingsStop \/ SettingsStopReturns \/ SettingsStart
  \/ Destruct

Engine ==
  (UiProgress \/ ThreadProgress \/ ThreadFailure \/ Device) /\ UNCHANGED winVars

Gone == Finished /\ UNCHANGED winVars

WinNext == User \/ Handler \/ PollTick \/ WatchTick \/ DeviceChange \/ Engine \/ Gone

WinSpec == WinInit /\ [][WinNext]_allVars

\* The threads run, live devices deliver and the timers tick, as in FairSpec; the user
\* need not do anything.
WinFairSpec ==
  /\ WinSpec
  /\ WF_allVars(Handler)
  /\ WF_allVars(UiProgress /\ UNCHANGED winVars)
  /\ WF_allVars(ThreadProgress /\ UNCHANGED winVars)
  /\ SF_allVars(WaitStop /\ UNCHANGED winVars)
  /\ WF_allVars(DevicePacket /\ UNCHANGED winVars)
  /\ WF_allVars(PollTick)
  /\ WF_allVars(WatchTick)

-----------------------------------------------------------------------------
(* Properties.                                                             *)

\* Whenever messages are pumped, an engine that starts or runs is watched by one
\* of the two timers: otherwise a failure of the audio thread is never noticed
\* (MainWindow.cpp:240-264, 637, 662, 674, 804-833).
Supervised ==
  Pumping /\ state \in {"Starting", "Running"} => pollTimer \/ watchTimer

\* A session never starts while a recording of an earlier one is still open:
\* the encoder was initialised with the sample rate of that session
\* (MainWindow.cpp:605-610, 666-671, 298-303).
NoRecordingAcrossSessions ==
  [][state = "Off" /\ state' = "Starting" => ~recording]_allVars

\* An engine in Error turns the power toggle off, whichever dialog is open
\* (WASAPI.md:50: the toggle reflects the effective state).
ErrorTurnsPowerOff ==
  KeepsUp => (state = "Error" /\ power ~> ~power \/ ~open)

\* A running engine turns the power toggle on, also after a restart by the
\* settings dialog, which has switched it off (MainWindow.cpp:618, 247-249).
RunningTurnsPowerOn ==
  KeepsUp => (state = "Running" ~> power \/ state # "Running" \/ ~open)

\* docs/milestone-10.md:123, of an engine that has lost its device: "Click Yes. Verify:
\* engine restarts".  When the recovery dialog calls start(), a session begins.
RecoveryRestarts == [][Resume /\ outcome = "lost" => state' = "Starting"]_allVars

\* Why it does not: Error has no way out.  stop() is called by no handler on the way from
\* the dialog to start(), start() accepts Off only, and a stop() after Error leaves the
\* engine in Stopping (MainWindow.cpp:322, 673).
ErrorIsFinal == [](state = "Error" => [](state \in {"Error", "Stopping"}))
=============================================================================
