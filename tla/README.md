# Opiqo: a TLA+ model of the audio host

Opiqo is a Windows guitar-effects host: it captures audio from one WASAPI endpoint, runs it
through up to four LV2 plugins and plays it on another endpoint, and can record what it plays.
This directory holds TLA+ modules for its concurrent core, the TLC configurations that
model-check them, and TLAPS proofs. Source paths below are relative to `src/` of the
repository checkout, that is, `win32/AudioEngine.cpp` is `src/src/win32/AudioEngine.cpp`.

## 1. The system

Five kinds of threads share state:

| Thread | Runs | Shares |
|---|---|---|
| UI | message loop, dialogs (which pump messages too), timers | everything below |
| audio (one per session) | `AudioEngine::audioThreadProc`, `runLoop`, `LiveEffectEngine::process` | `AudioEngine::Impl`, plugins, the recording queue |
| file writer | `LockFreeQueueManager::main` → `FileWriter::encode` | queue, pool, encoder pointers |
| worker (one per plugin) | `LV2Plugin::worker_thread_func` | request and response rings |
| COM notification | posts `WM_OPIQO_DEVICE_CHANGE` | the UI's message queue |

### Components

| Component | State | Operations | Interacts by | Hard part | What makes it correct |
|---|---|---|---|---|---|
| `AudioEngine` (`win32/AudioEngine.cpp`) | atomic `state`, `stopEvent`, the `std::thread`, WASAPI objects, drain ring | `start`, `stop`, destructor, `audioThreadProc`, `runLoop`, `releaseResources` | polled state; event; join | a `stop()` racing a session that fails or starts; device loss | no joinable thread overwritten; Off means released; `stop()` returns; a lost device ends the session |
| `MainWindow` transport (`win32/MainWindow.cpp`, `ControlBar.cpp`) | toggle, record button, two timers, `recordingFd_` | click handlers, timer ticks, recovery, settings, shutdown | calls into both engines; posted messages | handlers nest inside dialogs and act on what they read before | a live engine is watched; the controls follow the engine; recordings end with their session |
| `LockFreeQueue` (`LockFreeQueue.h`) | slots and two counters that wrap | `push`, `pop` | shared memory, two threads | wrap-around, plain slots | a bounded FIFO without a data race |
| `LockFreeQueueManager`, `FileWriter` | buffer pool, `buffer_counter`, encoder pointers, `recording` | `process`, `main`, `encode`, `open`, `close` | queue; plain flag and pointers | lagging writer; `close()` during `encode()` | what is encoded is intact, in order, recent; no encoder is used after `close()` |
| `LV2Plugin` worker (`LV2Plugin.hpp`) | rings, `enabled`, `running`, three reader counts | `host_schedule_work`, `host_respond`, worker loop, `stop_worker` | rings, counters, join | unloading while in use | no use after free; unloading returns; accepted work is done |
| `LiveEffectEngine` | four plugin slots, `bypass`, `pluginMutex`, gain | `addPlugin`, `deletePlugin`, `process`, recording | mutex, `try_lock` | real-time thread against loading | a callback runs the chain of one moment and waits for no edit; an edit gets the mutex; a path arrives whole |
| LV2 ring buffer, atom mailbox | byte ring; `pending` and buffer | read/write; UI ↔ plugin messages | atomics | partial messages; lost or repeated ones | a FIFO of whole messages |
| Slots, presets (`win32/ParameterPanel`, `PluginSlot`, `PluginDialog`) | what a slot shows | add, remove, bypass, load preset | calls to `LiveEffectEngine` | ignored failures | the slot shows what the engine holds |
| Devices, settings (`WasapiDeviceEnum`, `SettingsDialog`, `AppSettings`) | endpoint list, JSON file | enumerate, resolve, load, save | return values | stale device ids | a resolved id is enumerated |

Devices and settings, the licence dialog, logging, the console entry point and the vendored code (`json.hpp`, the speex
resampler, `include/`, `libs/`) are not part of the model (section 6). The list of components with the
status of each, and the list of hazards with the line where each bites, are in `PROJECT.json`.

## 2. The modules

    AudioEngine
        │
    MainWindow ───────── TransportProofs

    RenderDrain ──────── RenderDrainProofs

    QueueConstants ── LockFreeQueue ── LockFreeQueueProofs
          │                 │  └─ implements ─► BoundedFifo
          │                 └ ─ instantiated by ─ ─ ┐
          └── BoundedFifo ── Recorder ─────── RecordingPath ── MCRecordingPath
                                 └ MCRecorder       └───────── RecorderProofs

    EffectChain ──────── EffectChainProofs
    PluginSlots ──────── PluginSlotsProofs
    PluginWorker ─────── PluginWorkerProofs

    MessageChannel ◄─ implements ─ MessageRing ── MCMessageRing
                                        └──────── MessageRingProofs

An arrow-less solid line is `EXTENDS`. `LockFreeQueue` instantiates `BoundedFifo` with a refinement
mapping; `Recorder` is built on `BoundedFifo`, and `RecordingPath` puts the queue itself in its place.
Definitions named `X_Something` are seeded faults: variants of `X` that a plausible bug would
produce, used to see that each property can fail. They are never part of `Next`.

### AudioEngine

One engine over any number of sessions. `uiPc` is the position of the UI thread in `start()`,
`stop()` or the destructor, `tpc` that of the audio thread; every access to a variable that both
touch is one step. `acquired` counts the WASAPI objects acquired in order (`NStages` of them
stand for enumerator, endpoints, clients, formats, events, services, resampler, drain ring);
a failure is possible at each. The three ways out of `audioThreadProc` differ in the code and in
the model: no COM or no enumerator releases nothing, a later failure stores `Error` and then
releases, and after the loop everything is released before the final state is stored. Processing
a packet is one step (`GetPacket`) and rendering it another.

* `stopEvent` is a plain `HANDLE` that one thread tests and signals while the other closes and
  nulls it, a data race. `StopTest` and `StopSet` are separate steps; a signal to a handle that
  has been closed in between is lost.
* `WaitForMultipleObjects` returns the lowest index: a pending capture event hides a signalled
  stop event (`WaitCapture` before `WaitStop`).
* A device may be invalidated at any moment of a session (`LoseCapture`, `LoseRender`); choosing
  devices for the next `start()` makes both good again.

### MainWindow

`EXTENDS AudioEngine`: the handlers call `StartCas`, `StopLoad` and so on as the engine defines
them. `frames` is the stack of handlers that have not returned. A handler that shows a box or a
dialog (`Modal`) lets timers and posted messages be dispatched inside it (`Pumping`); a handler
inside `start()` or `stop()` (`Calling`) blocks the UI thread and lets nothing in. User input
reaches the main window only when no dialog is open (`UserInput`). The handler bodies around a
call are split there: `PowerOff` / `PowerOffReturns`, `SettingsOk` / `SettingsStop` /
`SettingsStopReturns` / `SettingsStart`, and so on; `StartReturns` is what
the three callers of `start()` do when it has returned.

### QueueConstants, BoundedFifo, LockFreeQueue

`LockFreeQueue` has each counter and slot access of `push()` and `pop()` as a step, with counters
that wrap at `Laps * Capacity` as `INDEX_TYPE` does. `BoundedFifo` is what the two threads may
rely on: `push()` answers FALSE only on a full queue, `pop()` FALSE only on an empty one, and
each item comes out once and in order. Their parameters are in `QueueConstants`.

### Recorder

`process()` copies a block into pool buffer `buffer_counter`, pushes it and advances the counter
whatever `push()` answered (`CopyBegin`, `CopyEnd`, `PushBuffer`). The file-writer thread pops,
sleeps 100 ms on an empty queue, and runs `encode()`: gate, pointer load, library call. The UI
thread runs `open()` and `close()` with a step between flag, free and null. The contents of a
block are its number, so that "which block is this?" is the data.
The five encoders are one encoder; only one of them is open at a time. `lapped` is a
history variable. `Recorder` takes `push()` and `pop()` as single steps of `BoundedFifo`.

### RecordingPath

`Recorder` over the queue as it is: the audio thread goes through `push()`, and the file-writer thread
through `pop()`, access by access, while the other one and the UI thread go on. `Recorder`'s own step is
taken together with the access that shows it to the other thread (`Q!PushAdvance /\ PushBuffer`,
`Q!PopAdvance /\ WriterPop`, ...), so each property of `Recorder` is checked over the real queue, and each one
of the queue with the calls the program makes. `QueueIsFifo` says that this pairing is right.

### RenderDrain

The second half of the packet loop, which `AudioEngine` takes as one step: the processed frames of a
packet are pushed into `renderDrainRing` as far as they fit (`Push`), the fill of the render buffer
is read (`ReadPadding`) and corrected every `Window` packets (`CorrectDrift`), and whole frames go
through `outBuf` to the device (`ReadRing`, then `Render`, `RenderFails` or `RenderLost`). Between any
two of these the device plays (`DevicePlays`). A sample is the pair of its frame and its channel, so
that a shifted channel and a lost frame can be told. Conversion, up-mixing and resampling are a
choice of the number of frames a packet becomes. The ring is the sequence of its samples, which
`MessageRing` justifies. Before the client is started the code fills the render buffer with silence if
it can; `Init` begins with any amount of padding.

### EffectChain

`LiveEffectEngine::process()` slot by slot against the calls of the UI thread. `addPlugin()` and
`deletePlugin()` set `bypass`, ask for `pluginMutex`, and release both, in two orders: inside
the mutex when loading fails (`UiLoadFails`), after it otherwise (`UiUnlock`, `UiResume`).
`setValue()` and `setPluginEnabled()` take the mutex only. `setFilePath()` takes no lock of the
engine: it stores a message under the mutex of its atom port and then raises a flag, which the audio
thread exchanges for false before it takes that mutex. A path is kept as two halves, assigned
and copied in two steps, and a loaded plugin is the number of the call that loaded it.

### PluginSlots

The window's handlers about the four slots, one step per handler: add, upgrade, bypass and delete,
import slot by slot, the file dialog of a panel, the stress test and `WM_DPICHANGED`. `engine` and
`on` are what `LiveEffectEngine` has; `shown`, `label` (the text of the Bypass button) and `panel` are what
the user sees, and `slotEnabled` is the window's own flag. `setPlugin()` leaves the label as it is, `clearPlugin()`
resets it, and a click on Bypass sets it. An import meets slots that the preset leaves out, whose object
has no `"uri"` (`ImportValues`), whose plugin loads, fails to load or is not installed, and values that end it
in `catch (...)` at any slot (`ImportCorrupt`).
A modal window pumps messages, so the stress test and DPI changes run inside the dialogs. They do
not run inside an import, which pumps only in its message boxes. The three ways in which
these handlers end the process (`ImportMissing`, `UseControl`, `BrowseFaults`) set `fault`; `troubled`
is a history variable for the premises of `BypassAgrees` and `ImportRestores`.

### PluginWorker

One slot, one plugin after the other, with the worker thread of each. The audio thread holds
`pluginMutex` from its `try_lock` to `AudioUnlock`; the UI thread from `UiLock` to `UiUnlock`,
through the whole of `closePlugin()` with `stop_worker()` and the loading of the next plugin. What
`EffectChain` takes as one step (`UiRemove`, `AudioRun`) is spelled out here. The rings are
counts of whole messages with the life time of the memory next to them (`reqRing`, `respRing`) and the
pointer the code tests (`reqPtr`, `respPtr`).

### MessageChannel, MessageRing

`PluginWorker` counts whole messages. `MessageRing` justifies that: `lv2_ringbuffer_t` byte by byte,
with the pointers wrapping, and the protocol on top of it, in which the sender tests the space once
and then writes header and body with two calls, and the receiver peeks at the size, waits for the
rest, and reads header and body with two calls. `MessageChannel` is the promise: whole
messages, once, in order, refused only when there is no room; `occupied` is the number of bytes the
waiting messages take. `waiting` is a history variable of `MessageRing`: a message is waiting from the
moment its last byte is published until its last byte is consumed. The bytes need no history, the
refinement mapping `Occupied` computes them from `read_space` and the positions of the two ends: the
ring may hold a header whose body is missing, and free the bytes of a header before those of the body.
The same module stands for the request ring and for the response ring.

## 3. What is checked

`passing` runs finish without an error. A `violation` run checks one statement of the
repository's documents or comments, and TLC finds a behaviour of the code that breaks it.

| Run | Outcome | Question |
|---|---|---|
| `window` | passing | Over every interleaving of handlers, nested ones too, with the audio thread, every failure and device loss: is a joinable thread or an open event ever overwritten (`StartFindsNoThread`), is anything held in Off (`OffIsReleased`), is `impl_` deleted under a thread (`DestroyedAlone`), can a session end in Off unasked (`OffOnlyOnRequest`), does `stop()` return (`StopReturns`), does a lost render endpoint end the session (`RenderLossLeavesRunning`)? Is a live engine always watched by a timer (`Supervised`), is a recording ever carried into another session (`NoRecordingAcrossSessions`), does the toggle follow the engine down (`ErrorTurnsPowerOff`) and up (`RunningTurnsPowerOn`)? |
| `engine_capture_loss` | violation | Does a lost capture endpoint end the session? |
| `recovery` | violation | Does Yes in the recovery dialog restart the engine? |
| `recorder` | passing | Over the queue's own steps: is the queue race-free (`NoSlotRace`) and a bounded FIFO (`IsFifo`), the very one `Recorder` uses (`QueueIsFifo`)? How much may a lagging writer thread damage (`IntactUntilLapped`, `NeverStale`), is a recording in order (`InOrder`), does the queue drain while nothing is recorded (`Drained`)? |
| `recorder_gate` | violation | Does the flag keep `encode()` away from a closed encoder? |
| `ring` | passing | Are header and body, written and read separately, one message channel (`IsChannel`), without a race on a byte (`NoByteRace`), and does an accepted message arrive (`Arrives`)? |
| `drain` | passing | Does every write to the device fit (`RoomForWrite`), does it get whole frames in order (`WholeFrames`) and all of them (`Gapless`)? |
| `discard` | violation | Does the drift correction discard without copying? |
| `chain` | passing | Does a callback run the chain of one moment (`WholeChain`), does it wait for nothing but a path that is being stored (`WaitsAtMailboxOnly`), is a plugin given whole paths (`WholeMessage`) and the last one (`PathArrives`), is a loaded plugin heard (`PluginHeard`), does an edit get the mutex (`EditGetsIn`)? |
| `slots` | passing | Is what is heard also shown (`SlotTells`), with its controls (`PanelFits`), can one that is off be seen to be off and be turned on by the next click (`BypassAgrees`), and does an import restore its preset (`ImportRestores`)? |
| `worker` | passing | With a plugin that schedules work from `run()` and from a thread of its own: are the plugin's code, its threads or a reader ever left over when it is freed (`PluginAlive`), do edits return (`EditReturns`), are requests served (`RequestServed`)? |
| `worker_threads` | violation | Does the count of scheduler calls keep the request ring from being freed under one? |

### What the violations show

1. **Capture loss** (`win32/AudioEngine.cpp:708`). A failing `GetNextPacketSize` only ends the
   packet loop. The thread goes back to waiting for an event that never comes, and wakes every
   200 ms to look for `Stopping`: the engine stays Running and the watchdog, which looks for
   `Error`, never fires. A failing `GetBuffer` does leave the loop.
2. **Encoder** (`FileWriter.cpp:241`). `encode()` may have passed the gate when `close()` clears
   the flag; `close()` frees the encoder without waiting.
3. **Recovery** (`win32/MainWindow.cpp:322`). `docs/milestone-10.md:123`: "Click Yes. Verify: engine
   restarts on the system default device". `start()` only accepts `Off`; the recovery handler calls it on an engine
   in `Error`, and nothing has called `stop()`. Even that would not help: a `stop()` on a session that has
   ended overwrites `Error` with `Stopping`, which `start()` refuses too. `ErrorsAreFinal` proves that no
   sequence of handlers brings such an engine back. Before the call, `onDeviceListChanged()` sees the
   same `Error` and opens the recovery box again, once for each Yes.
4. **Scheduler calls** (`LV2Plugin.hpp:1375-1380`). The count is there, says its comment, "to prevent
   use-after-free race". `host_schedule_work()` tests `enabled` before it counts itself and does not test again,
   so `stop_worker()` can see no reader and free the ring. From inside `run()` this cannot happen, `pluginMutex`
   keeps the two apart; a call from another thread, which is what the count is for, can hit it.
5. **Discard** (`win32/AudioEngine.cpp:853-854`). "Advance the read pointer without copying" is done by
   `lv2_ringbuffer_read(ring, nullptr, n)`, which copies to its destination. It needs a render buffer of more
   than two capture periods (`DiscardIsRare`) that fills up, the two periods being counted in those of the
   capture device; the run has a render buffer of four.

### Other departures from the documents

Behaviours of the models that no run is kept for:

* **Power off after a failure** (`win32/MainWindow.cpp:673`). `stop()` overwrites `Error` with
  `Stopping` and joins a thread that has already stored its last state. The engine stays in
  `Stopping`, and every later `start()` is refused.
* **Recording and device loss** (`win32/MainWindow.cpp:728`, against `docs/milestone-11.md:29`). The
  device is lost while the save dialog is open. The watchdog tick handles it inside the
  dialog's message loop, finds no recording to stop and kills its timer; the user then confirms the
  dialog and the recording starts.
* **The mailbox mutex** (`LV2Plugin.hpp:604`, against `docs/milestone-10.md:86`: "audio thread can no longer
  block on any mutex call in `process()`"). The callback takes the mutex of an atom port with a blocking
  lock while the UI thread may hold it to store a path. `WaitsAtMailboxOnly` says that this is the only place it can
  wait at, and that the UI thread holds the mutex for two assignments and nothing else.
* **Half of the output** (`LiveEffectEngine.cpp:615`). `process()` passes its interleaved buffers
  and `frames` to `LV2Plugin::process()`, which connects every audio port to them. The plugin reads
  and writes `frames` floats of `2 * frames`: half of the block. The rest of the output is what it was.
* **Drift correction** (`win32/AudioEngine.cpp:839`). The branch that would insert silence never runs: target and
  threshold are the same number.
* **Channels** (`win32/AudioEngine.cpp:801`). The drain ring is a power of two samples: with six channels, say, a full
  ring cuts a frame and shifts the channels of all that follows, hence the premise of `WholeFrames`.
* **A render `GetBuffer` that fails** (`win32/AudioEngine.cpp:893`) loses frames that were read from the ring
  already and counts no dropout, hence the premise of `Gapless`.
* **A load that fails** (`win32/MainWindow.cpp:764`, against `docs/UI.md:82-83`). Nobody looks at the
  answer of `addPlugin()`; the slot shows a plugin that is not there.
* **A file dialog over an empty slot** (`LiveEffectEngine.cpp:541`). `setFilePath()` does not ask whether the slot
  holds a plugin and calls through a null pointer (`BrowseFaults`). A panel left over from before a failed
  load leads there, and so does the stress test when it takes the plugin away while the dialog is open. A DPI
  change under the dialog frees the entry it was opened from, which is then used.
* **The text of the Bypass button** (`win32/MainWindow.cpp:773-776` and `587-588`, against
  `docs/milestone-6.md:33`). Add or an import on a bypassed slot enables the plugin and leaves the button saying Enable.
  The next click bypasses it. `BypassAgrees` is the direction that holds.
* **A plugin without parameters** (`win32/PluginSlot.cpp:147`) leaves the controls of the one before it on
  the panel; moving one of them indexes a port the new plugin may not have (`UseControl`). `PanelFits` is about the
  others.
* **A preset with a plugin that is not installed** (`LiveEffectEngine.cpp:150`): the log line asks a null
  plugin for its library before `initialize()` can refuse it (`ImportMissing`).
* **Import** does not clear slots the preset leaves empty, and fills slots 2 to 4 in the demo too.
* **The stress test** takes over slot 1 and its plugin.
* **Recording** copies the output before this callback has written it (`LiveEffectEngine.cpp:587`):
  it holds the processed audio of `Readme.md:89`, one block late.
* No path sets the text of the record button to Stop (`setRecordState(true)` has no caller), which
  `UI.md:128` asks for; the gain is left out in the bypassed paths of `process()`; nothing reads the ring from a plugin to the UI.

### Bounds, and why they suffice

| Bound | Value | Why |
|---|---|---|
| `NStages` | 3; 2 in `recovery` | the three failure cases are first, middle, and none; the theorems hold for every value |
| `MaxPackets` | 2; 1 in the violations | one packet may arrive while another is being processed |
| `MaxDepth` | 3 | nested handlers: settings or save dialog, a timer's dialog in it, and one more in that; deeper frames repeat these |
| `Capacity`, `Laps`, `Items` | 2, 2, the pairs of a buffer and a block | full, half and empty; every wrap of both counters |
| `Pool` = `Capacity` | 2 | the code has both equal; a lagging writer meets a full queue and a reused buffer |
| `MaxBlocks` | 6; 3 in `recorder_gate` | three laps of the pool, one and a half of the counters |
| `Size`, `Laps`, `Header`, bodies of 0, 1, 3, 7 bytes | 8, 2, 2 | a message that fills the header only, two that fit together or not, one that never fits; every offset of header and body across the end of the ring and the wrap of the pointers |
| `Callers`, `RingSize` (`worker`) | `{"audio", "thread"}`, 2 | calls from `run()` and from a thread of the plugin; full and partly full rings; one plugin after another in the slot |
| `CaptureBuf`, `RenderBuf`, `DspMax` | 2, 4, 3; `discard` 1, 4, 2 | packets below and above a capture period; a render buffer of just two periods, where the discard is not reached, and a deeper one, where it is |
| `Channels`, `RingSize`, `Window` (`drain`) | 2, 32, 2 | frames of more than one sample; the ring the code would allocate; a correction every other packet |
| `MaxFrames` | 20; `discard` 12 | the ring, 16 frames, and the render buffer fill up and lose frames, and go on |
| `N`, `MaxEdits`, `MaxPaths`, `Oversized` (`chain`) | 2, 3, 3, `{2}` | an order of two slots; a plugin loaded, replaced and one more edit; a message overtaken by the next, and one that is dropped between two that are not |
| `N`, `Plugins`, `Missing` (`slots`) | 2, 3, 1; `NoUri` | the slot of the stress test and one of the Pro version; plugins with a file path, with other parameters, and with none; a preset slot without a plugin of its own |

`DevicePacket` is cut off at `MaxPackets`: a device overruns its buffer rather than signal for ever.
In `Recorder` and `RecordingPath` the audio thread stops after `MaxBlocks`; the writer thread goes on polling.

### Fairness

Only threads that the operating system schedules are fair. `ThreadProgress` contains no failure
and `UiCall` no obligation: the user need not click, nothing need fail. Five assumptions go
further:

* `SF(WaitStop)`: a wait that is entered with `stopEvent` set and no capture event pending
  returns at once, although a packet may arrive between two waits.
* `KeepsUp` is a premise of `StopReturns` and of the window's liveness properties, not of the
  specification: it says that the loop returns to a wait with no packet pending again and again.
  It is needed. A plugin slower than the device period hides the stop event for ever, and
  nothing in the repository bounds the time of a plugin.
* `SF(AudioRan)`, `SF(WorkDone)`: a plugin's `run()` and `work()` return, though they may call the
  host any number of times first.
* `DeliveryEnds` is a premise of `EditReturns`: `deliver_worker_responses()` takes responses until there are none, so a
  worker kept busy by a thread of the plugin must not answer as fast as they are taken for ever.
* `WF(DevicePacket)`: the capture device of a session goes on delivering packets (up to
  `MaxPackets`). The loop looks at the render endpoint only when it has a packet, so a lost render endpoint
  is noticed by nobody while no packet comes.

In `RecordingPath` only the file-writer thread is fair; neither the audio device nor the user need go on.

`EffectChain` assumes that callbacks come for ever and go on, and that a call of the UI thread goes
on: `WF(AudioStep)` and `WF(UiStep)`. Neither mutex is fair, so a thread that waits for one may be
passed over whenever it is taken again; `EditGetsIn` holds because `bypass` keeps the audio
thread off the mutex, and does not hold for `setValue()`, which has no such help.
`RenderDrain` and `PluginSlots` are checked for safety only, and their runs may end: at the bound, a
lost device or a crash.

## 4. What is proved

For every value of the constants that satisfies the `ASSUME`s of the module:

| Theorem | Says |
|---|---|
| `TransportProofs!TypeCorrect`, `StartSafe`, `OffSafe`, `DestroySafe` | the four invariants of `AudioEngine` in the run `window` |
| `TransportProofs!OffRequested` | the action property `OffOnlyOnRequest` |
| `TransportProofs!WindowDrivesEngine` | `WinSpec => Spec`: whatever holds of the engine alone holds of the engine the window drives |
| `TransportProofs!WindowTypeCorrect`, `AlwaysSupervised` | `Supervised`, for handlers nested to any depth |
| `TransportProofs!SessionsDoNotShareRecordings`, `ErrorsAreFinal` | the action property `NoRecordingAcrossSessions`, and that no handler makes an engine run again that was in `Error` (why `recovery` fails), for handlers nested to any depth |
| `LockFreeQueueProofs!TypeCorrect`, `RaceFree` | type correctness and freedom of races of the queue alone |
| `LockFreeQueueProofs!Refines` | `LockFreeQueue` implements `BoundedFifo`, for every capacity and every width of the counters that is a multiple of it |
| `RecorderProofs!TypeCorrect`, `IntactSafe`, `FreshSafe`, `OrderSafe` | `IntactUntilLapped`, `NeverStale` and the action property `InOrder`, for every pool and queue size |
| `RecorderProofs!PathIsRecorder`, `PathDrivesQueue` | a behaviour of `RecordingPath` is one of `Recorder` and one of `LockFreeQueue`: what is proved of either holds of the path |
| `RecorderProofs!PathRaceFree`, `PathIsFifo` | `NoSlotRace` and the refinement `IsFifo` of the run `recorder` |
| `MessageRingProofs!TypeCorrect`, `RaceFree` | `NoByteRace`, for every size of ring and header and every set of message sizes |
| `MessageRingProofs!DeliversWhole` | what the receiver is given is never `Garbled` |
| `MessageRingProofs!Refines` | `MessageRing` implements `MessageChannel`: messages arrive whole, once and in order, and are refused only without room |
| `PluginWorkerProofs!PluginSafe` | `PluginAlive`, for every choice of callers and rings of every size |
| `EffectChainProofs!TypeCorrect`, `ChainIsWhole`, `MessagesAreWhole` | `WholeChain` and `WholeMessage`, for every number of slots, edits and paths |
| `PluginSlotsProofs!TypeCorrect`, `SlotsTell`, `BypassesAgree`, `ImportsRestore` | `SlotTells`, `BypassAgrees` and `ImportRestores`, for every number of slots and set of plugins |
| `RenderDrainProofs!TypeCorrect`, `WritesFit`, `DiscardIsRare` | `RoomForWrite`, and that the discard needs a render buffer of more than two capture buffers (`DiscardNeedsDeepBuffer`), for every pair of device buffers and every window |
| `RenderDrainProofs!FramesAreWhole`, `FramesAreComplete` | `WholeFrames` and `Gapless`, for every number of channels, ring and packet size |

**AudioEngine.** None of the three engine invariants is inductive. Why does `start()` never find a
joinable thread? It is accepted only in `Off`; `Off` is stored only at the end of a
session whose loop was asked to stop; being asked means that the UI thread is inside `stop()`, and
it does not leave it without the join. `IInv` says this in parts: `LeavesAsked` (a thread on its
way out with `outcome = "stopped"` has the UI thread in `stop()`), `SignalledAsked` and
`StoppingJoins` (the two ways the loop learns of it), `FinalReleased` (the resources went before the
final store), `OffJoined` and `StartClean` (what is left for the next `start()`).
`StoppingJoins` is what survives when `ThreadRunning` overwrites a `Stopping`: the event is signalled
all the same. `SessionLives` and `ErrorEnds` are there for the window: an engine that starts or runs has
a thread, and one in `Error` is `Dead`, which no step undoes, because `start()` accepts only `Off` and only a
session on its way out stores that. One lemma per actor, one case per action.

**MainWindow.** First, each step of the window takes a step of the engine or leaves it alone
(`WindowDrivesEngine`), so the engine's invariant can be used. Of the stack of handlers the proof keeps two
things: the handler the message loop entered (`Base`) and the set of those that came in while one
pumped messages (`Over`); a push or a pop changes them in a simple way (`Pushed`, `Popped`), whatever the
depth. `Nested` says that only timers and posted messages come in later, and none of them under
a handler that is inside `start()` or `stop()`. `RecoveryDead`: recovery is only offered for a dead engine, so
its restart is always refused, which keeps the number of handlers that own a session at one.
`CallOwner` names that one, `Watched` says that a live engine has a timer or such a handler in progress,
and `Supervised` follows because it pumps no messages. `RecordStops` says that what a recording needs is gone
before `Off` can be seen, and `start()` is accepted in `Off` only: `NoRecordingAcrossSessions`.

**LockFreeQueue.** The counters never differ by more than `Capacity`, and if the writer is
writing, by less; so their masks differ whenever the reader is reading. The facts about `%` at a wrap,
which the SMT solver does not find by itself, are the first lemmas of each module that needs
them. The refinement proof
maps `PushAdvance` to `Put`, `PopAdvance` to `Take`, the two refusals to `Refuse` and `FindEmpty`, and
every other step to a stutter: a write to a slot outside the window leaves the window alone.

**Recorder.** The invariant ties `counter` to the number of blocks made: block `b` always goes to the
slot `(b - 1) % Pool`, and what a slot holds is the last block sent there. From that, two blocks in
one slot are a multiple of `Pool` apart, which is `IntactUntilLapped`. `RecentInv` turns this around: the
block that a copy overwrites is at least a pool old, so the last `Pool` blocks are all there, which is
`NeverStale`. For `InOrder`, `OrderInv` says that the queue is sorted and behind what is being encoded, and
`LastInv` that until a buffer is lapped each holds its own block. `PathIsRecorder` needs no invariant: a step of
`RecordingPath` has a step of `Recorder` as a conjunct or leaves its variables alone. `PathDrivesQueue` needs
that what `process()` pushes is an item of the queue.

**MessageRing.** The ring can begin and end inside a message, so its content is not a sequence of
messages. `Coherent` describes it from byte to byte instead: each published byte is followed by the next one of
its message, or, if it was the last, by the first byte of another; `EndsBy` says that the message the
last byte belongs to is complete by the position the sender has promised. A write appends to such a
stream and a read takes from its front (`Appended`, `Taken`), and `PointerFacts` moves both across the
wrap of the pointers. `TailInv` is the point of the protocol: a receiver that sees a header without its
body sees too few bytes, and leaves it alone. With it `ReaderInv`, that the receiver is at the byte it takes
itself to be at, is kept, so what it reads is the body of what it peeked at. `SpaceInv` says that the one
test of the space covers both writes, hence `NoByteRace`. For the refinement, `ChannelInv` marks in the stream
the last byte of every waiting message (`Marks`); `PublishBody` maps to `Accept`, `ReadBody` to
`Deliver`, the header actions too when the body is empty, `NoSpace` to `Refuse`, and the rest stutters.

**PluginWorker.** `MutexInv` says who holds `pluginMutex` and ties the three reader counts to the threads'
positions; `SlotInv` that the plugin in the slot is live and that a pointer that is set has a ring
behind it; `WorkerInv` that the worker, which takes no mutex, is gone from the join to the next
creation; `ThreadInv` that a thread of the plugin's own lives as long as the instance, which is longer than
the request ring. That is enough for `PluginAlive`, whoever calls. The
request ring does not live as long as its callers: that is the run `worker_threads`.

**EffectChain.** `EngineInv` says who holds `pluginMutex`: the UI thread exactly where it edits, the
audio thread exactly from `AudioLock` to `AudioReturn`. So the graph does not change under a
callback, and `RanInv`, that the slots before `k` have run what they hold, is kept. `MailInv`
does the same for the mutex of each mailbox: the halves of a message differ only while the UI
thread is between its two assignments with that mutex in hand.

**PluginSlots.** `SlotTells` and `BypassAgrees` are inductive together with `PanelFits`: a plugin that is off was
switched off by a click, which wrote the label, and what clears the label empties the slot. `TroubleInv` ties the
stress test, and the box of a failed import, to the history variable; `ImportInv` is
`ImportRestores` for the slots an import has passed.

**RenderDrain.** `RoomInv`: what the device may be asked for shrinks only with `available`, and while
`DevicePlays` the padding only falls; the silence that would break it needs a target above
the threshold. `DriftInv`: the sum is at most `driftPackets * RenderBuf`, so the average is
at most `RenderBuf`. `OrderInv` and `GapInv` carry the order of samples through the cut and the
concatenation of sequences, with the frame and channel of the `k`-th sample written as `Q(k)` and
`R(k)`; the lemmas on quotients and remainders say what the two do under a shift by whole frames. `OrderInv` is stated for
a ring whose size is a multiple of the channel count, `GapInv` for any.

### What is only model-checked

`QueueIsFifo`, which ties the two halves of `RecordingPath`; `WaitsAtMailboxOnly`, which speaks of `ENABLED`;
and the liveness properties (fairness needs `ENABLED`), on the instances above: `StopReturns`,
`RenderLossLeavesRunning`, `ErrorTurnsPowerOff`, `RunningTurnsPowerOn`, `Drained`, `Arrives`, `PathArrives`,
`PluginHeard`, `EditGetsIn`, `EditReturns` and `RequestServed`. Every other invariant and action property of the
passing runs, and both refinements, are proved; `PanelFits` as a part of the invariant of `PluginSlotsProofs`.

## 5. Assumptions about what is not in the repository

* WASAPI endpoints signal an auto-reset event for each packet and fail every call once invalidated.
* `lilv_instance_free` ends the threads a plugin has started before it returns.
* A library call on a freed encoder is undefined; the model follows the outcome in which the
  process survives and nothing is written. `EncodeGated` already fails before that.
* Sequential consistency for atomics (the code uses acquire and release where two threads meet)
  and for the plain flag `FileWriter::recording`, except where a race is a property's subject.

## 6. What is not modelled, and what is left

Three quarters of the repository's lines are vendored: `json.hpp`, the headers under `include/`, and
the speex resampler in `resample.c`. They have no part in the application's state; the modules assume of
them what section 5 and the comments say. Of the application's own code, some 7700 lines, the
map names about 2900. Most of the rest is creation and layout of windows, enumeration and parsing, and
lilv queries that only read.

Not modelled:

* **Devices and settings** (`WasapiDeviceEnum`, `SettingsDialog`, `AppSettings`): calls that enumerate and a
  JSON file that is read once and written at the end. No state between calls, and nothing concurrent. To be
  seen in the source: a list of devices without the saved one makes `onDeviceListChanged()` overwrite
  the saved id with the default's.
* **Licence dialog**: a computation on a typed code. `PluginSlots` has its result, `isPro`.
* **Logging, utilities, console entry point**: output only.
* **Sizes of blocks**: a block above 4096 samples overruns a pool buffer, and `dspOutBuf` has the
  size of the larger device buffer whatever the resampler returns. Both follow from device
  parameters alone; `RenderDrain` assumes the second.
* The formats of files and samples, drawing, COM reference counts.

Left to do: the abstractions that one module makes of another are argued in comments, not proved, where
no refinement is named above: `RenderDrain` takes the ring as a sequence of samples, `EffectChain`
takes the closing of a plugin as one step, and `AudioEngine` a packet's second half.
