---------------------------- MODULE PluginWorker ----------------------------
(***************************************************************************)
(* One plugin slot of LiveEffectEngine and the LV2 worker of the plugin in *)
(* it (src/src/LiveEffectEngine.cpp, src/src/LV2Plugin.hpp): the audio     *)
(* thread in LiveEffectEngine::process(), which runs the plugin and hands  *)
(* it its worker's responses; the worker thread; the UI thread in          *)
(* addPlugin() and deletePlugin(), which close one plugin and load the     *)
(* next under pluginMutex.  The plugin asks for work with                  *)
(* host_schedule_work() from inside run(), or, if "thread" is a caller,    *)
(* from a thread of its own.                                               *)
(*                                                                         *)
(* The two ring buffers carry whole messages; only their number and the    *)
(* life time of the memory matter here.                                    *)
(***************************************************************************)
EXTENDS Integers

CONSTANTS
  Callers,   \* who calls host_schedule_work(): {"audio"} or {"audio", "thread"}
  RingSize   \* messages a ring buffer holds

ASSUME CallersAssumption == "audio" \in Callers /\ Callers \subseteq {"audio", "thread"}
ASSUME RingAssumption    == RingSize \in Nat \ {0}

VARIABLES
  bypass, mutex, slot,       \* LiveEffectEngine: bypass, pluginMutex, pluginN
  goal,                      \* what the UI thread calls: "add" or "delete"
  instance,                  \* "live" or "freed": the LV2 instance
  enabled, running,          \* LV2HostWorker flags: "yes" or "no"
  iface,                     \* "set" or "null": the plugin's worker interface
  reqPtr, respPtr,           \* "set" or "null": the atomic ring pointers
  reqRing, respRing,         \* "live" or "freed": the memory behind them
  requests, responses,       \* messages in the rings
  rtReaders, schedulerReaders, responderReaders,
  audioPc, schedPc, workerPc, uiPc

engineVars == <<bypass, mutex, slot, goal>>
flagVars   == <<enabled, running, iface, instance>>
ringVars   == <<reqPtr, respPtr, reqRing, respRing, requests, responses>>
countVars  == <<rtReaders, schedulerReaders, responderReaders>>
pcVars     == <<audioPc, schedPc, workerPc, uiPc>>
vars == <<engineVars, flagVars, ringVars, countVars, pcVars>>

Init ==
  /\ bypass = "off" /\ mutex = "free" /\ slot = "null" /\ goal = "add"
  /\ instance = "freed" /\ enabled = "no" /\ running = "no" /\ iface = "null"
  /\ reqPtr = "null" /\ respPtr = "null" /\ reqRing = "freed" /\ respRing = "freed"
  /\ requests = 0 /\ responses = 0
  /\ rtReaders = 0 /\ schedulerReaders = 0 /\ responderReaders = 0
  /\ audioPc = "idle" /\ schedPc = [c \in Callers |-> "out"]
  /\ workerPc = "none" /\ uiPc = "idle"

-----------------------------------------------------------------------------
(* Audio thread: LiveEffectEngine::process() and LV2Plugin::process().     *)

\* bypass is tested first; a callback that finds it set copies input to output.
AudioCall ==
  /\ audioPc = "idle" /\ bypass = "off"
  /\ audioPc' = "lock"
  /\ UNCHANGED <<engineVars, flagVars, ringVars, countVars, schedPc, workerPc, uiPc>>

\* try_lock; on failure, or with no plugin, the audio is passed through.
AudioTryLock ==
  /\ audioPc = "lock"
  /\ IF mutex = "free" /\ slot = "set"
     THEN mutex' = "audio" /\ audioPc' = "run"
     ELSE audioPc' = "idle" /\ UNCHANGED mutex
  /\ UNCHANGED <<bypass, slot, goal, flagVars, ringVars, countVars, schedPc, workerPc, uiPc>>

\* lilv_instance_run() returns, the ports' atom messages having been handed over
\* before it; then the first test of enabled.
AudioRan ==
  /\ audioPc = "run" /\ schedPc["audio"] = "out"
  /\ audioPc' = IF enabled = "yes" THEN "count" ELSE "unlock"
  /\ UNCHANGED <<engineVars, flagVars, ringVars, countVars, schedPc, workerPc, uiPc>>

AudioCount ==
  /\ audioPc = "count"
  /\ rtReaders' = rtReaders + 1 /\ audioPc' = "again"
  /\ UNCHANGED <<engineVars, flagVars, ringVars, schedulerReaders, responderReaders,
                 schedPc, workerPc, uiPc>>

\* enabled is tested again now that stop_worker() can see the reader.
AudioAgain ==
  /\ audioPc = "again"
  /\ audioPc' = IF enabled = "yes" /\ iface = "set" /\ respPtr = "set"
                THEN "deliver" ELSE "uncount"
  /\ UNCHANGED <<engineVars, flagVars, ringVars, countVars, schedPc, workerPc, uiPc>>

\* deliver_worker_responses(): one response after the other, then end_run().
AudioDeliver ==
  /\ audioPc = "deliver"
  /\ IF responses > 0
     THEN responses' = responses - 1 /\ UNCHANGED audioPc
     ELSE audioPc' = "uncount" /\ UNCHANGED responses
  /\ UNCHANGED <<engineVars, flagVars, reqPtr, respPtr, reqRing, respRing, requests,
                 countVars, schedPc, workerPc, uiPc>>

AudioUncount ==
  /\ audioPc = "uncount"
  /\ rtReaders' = rtReaders - 1 /\ audioPc' = "unlock"
  /\ UNCHANGED <<engineVars, flagVars, ringVars, schedulerReaders, responderReaders,
                 schedPc, workerPc, uiPc>>

AudioUnlock ==
  /\ audioPc = "unlock"
  /\ mutex' = "free" /\ audioPc' = "idle"
  /\ UNCHANGED <<bypass, slot, goal, flagVars, ringVars, countVars, schedPc, workerPc, uiPc>>

-----------------------------------------------------------------------------
(* host_schedule_work(), by the audio thread inside run() or by a thread   *)
(* of the plugin, which lives as long as the instance.                     *)

Calling(c) == IF c = "audio" THEN audioPc = "run" ELSE instance = "live"

ScheduleTest(c) ==
  /\ schedPc[c] = "out" /\ Calling(c) /\ enabled = "yes"
  /\ schedPc' = [schedPc EXCEPT ![c] = "count"]
  /\ UNCHANGED <<engineVars, flagVars, ringVars, countVars, audioPc, workerPc, uiPc>>

ScheduleCount(c) ==
  /\ schedPc[c] = "count"
  /\ schedulerReaders' = schedulerReaders + 1
  /\ schedPc' = [schedPc EXCEPT ![c] = "load"]
  /\ UNCHANGED <<engineVars, flagVars, ringVars, rtReaders, responderReaders,
                 audioPc, workerPc, uiPc>>

ScheduleLoad(c) ==
  /\ schedPc[c] = "load"
  /\ schedPc' = [schedPc EXCEPT ![c] = IF reqPtr = "set" THEN "write" ELSE "uncount"]
  /\ UNCHANGED <<engineVars, flagVars, ringVars, countVars, audioPc, workerPc, uiPc>>

\* The message is written whole or, when it does not fit, not at all.  A write into
\* a ring that has been freed is undefined; here nobody reads what it wrote.
ScheduleWrite(c) ==
  /\ schedPc[c] = "write"
  /\ requests' = IF reqRing = "live" /\ requests < RingSize THEN requests + 1 ELSE requests
  /\ schedPc' = [schedPc EXCEPT ![c] = "uncount"]
  /\ UNCHANGED <<engineVars, flagVars, reqPtr, respPtr, reqRing, respRing, responses,
                 countVars, audioPc, workerPc, uiPc>>

ScheduleUncount(c) ==
  /\ schedPc[c] = "uncount"
  /\ schedulerReaders' = schedulerReaders - 1
  /\ schedPc' = [schedPc EXCEPT ![c] = "out"]
  /\ UNCHANGED <<engineVars, flagVars, ringVars, rtReaders, responderReaders,
                 audioPc, workerPc, uiPc>>

-----------------------------------------------------------------------------
(* Worker thread: worker_thread_func() and host_respond().                 *)

\* The test of running; the ring is loaded only when it holds a message.
WorkerTop ==
  /\ workerPc = "top"
  /\ workerPc' = IF running = "no" THEN "ended"
                 ELSE IF reqPtr = "set" /\ iface = "set" THEN "look" ELSE "top"
  /\ UNCHANGED <<engineVars, flagVars, ringVars, countVars, audioPc, schedPc, uiPc>>

\* Seeded fault: the last request is taken for a header whose message is missing.
WorkerLook_LeavesOne ==
  /\ workerPc = "look"
  /\ IF requests > 1
     THEN requests' = requests - 1 /\ workerPc' = "work"
     ELSE workerPc' = "top" /\ UNCHANGED requests
  /\ UNCHANGED <<engineVars, flagVars, reqPtr, respPtr, reqRing, respRing, responses,
                 countVars, audioPc, schedPc, uiPc>>

WorkerLook ==
  /\ workerPc = "look"
  /\ IF requests > 0
     THEN requests' = requests - 1 /\ workerPc' = "work"
     ELSE workerPc' = "top" /\ UNCHANGED requests
  /\ UNCHANGED <<engineVars, flagVars, reqPtr, respPtr, reqRing, respRing, responses,
                 countVars, audioPc, schedPc, uiPc>>

\* The plugin's work() returns.
WorkDone ==
  /\ workerPc = "work"
  /\ workerPc' = "top"
  /\ UNCHANGED <<engineVars, flagVars, ringVars, countVars, audioPc, schedPc, uiPc>>

\* The plugin's work() calls host_respond().
RespondCount ==
  /\ workerPc = "work"
  /\ responderReaders' = responderReaders + 1 /\ workerPc' = "load"
  /\ UNCHANGED <<engineVars, flagVars, ringVars, rtReaders, schedulerReaders,
                 audioPc, schedPc, uiPc>>

RespondLoad ==
  /\ workerPc = "load"
  /\ workerPc' = IF respPtr = "set" THEN "write" ELSE "uncount"
  /\ UNCHANGED <<engineVars, flagVars, ringVars, countVars, audioPc, schedPc, uiPc>>

RespondWrite ==
  /\ workerPc = "write"
  /\ responses' = IF responses < RingSize THEN responses + 1 ELSE responses
  /\ workerPc' = "uncount"
  /\ UNCHANGED <<engineVars, flagVars, reqPtr, respPtr, reqRing, respRing, requests,
                 countVars, audioPc, schedPc, uiPc>>

RespondUncount ==
  /\ workerPc = "uncount"
  /\ responderReaders' = responderReaders - 1 /\ workerPc' = "work"
  /\ UNCHANGED <<engineVars, flagVars, ringVars, rtReaders, schedulerReaders,
                 audioPc, schedPc, uiPc>>

-----------------------------------------------------------------------------
(* UI thread: deletePlugin() and addPlugin().  pluginMutex is held from    *)
(* UiLock to UiUnlock.                                                     *)

Quiet == UNCHANGED <<countVars, audioPc, schedPc>>

UiBegin(op) ==
  /\ uiPc = "idle"
  /\ bypass' = "on" /\ goal' = op /\ uiPc' = "lock"
  /\ UNCHANGED <<mutex, slot, flagVars, ringVars, workerPc>> /\ Quiet

UiLock ==
  /\ uiPc = "lock" /\ mutex = "free"
  /\ mutex' = "ui"
  /\ slot' = IF goal = "add" THEN "null" ELSE slot
  /\ uiPc' = IF slot = "set" THEN "disable" ELSE IF goal = "add" THEN "create" ELSE "unlock"
  /\ UNCHANGED <<bypass, goal, flagVars, ringVars, workerPc>> /\ Quiet

\* closePlugin() calls stop_worker(): the gate first, ...
StopDisable ==
  /\ uiPc = "disable"
  /\ enabled' = "no" /\ uiPc' = "waitRt"
  /\ UNCHANGED <<engineVars, running, iface, instance, ringVars, workerPc>> /\ Quiet

\* ... then the callers that passed it.
StopWaitRt ==
  /\ uiPc = "waitRt" /\ rtReaders = 0
  /\ uiPc' = "waitScheduler"
  /\ UNCHANGED <<engineVars, flagVars, ringVars, workerPc>> /\ Quiet

StopWaitScheduler ==
  /\ uiPc = "waitScheduler" /\ schedulerReaders = 0
  /\ uiPc' = "halt"
  /\ UNCHANGED <<engineVars, flagVars, ringVars, workerPc>> /\ Quiet

\* Seeded fault: the worker is left running.
StopHalt_Forgotten ==
  /\ uiPc = "halt"
  /\ uiPc' = "join"
  /\ UNCHANGED <<engineVars, flagVars, ringVars, workerPc>> /\ Quiet

StopHalt ==
  /\ uiPc = "halt"
  /\ running' = "no" /\ uiPc' = "join"
  /\ UNCHANGED <<engineVars, enabled, iface, instance, ringVars, workerPc>> /\ Quiet

\* Seeded fault: the worker thread is not joined.
StopJoin_Detached ==
  /\ uiPc = "join"
  /\ uiPc' = "waitResponder"
  /\ UNCHANGED <<engineVars, flagVars, ringVars, workerPc>> /\ Quiet

StopJoin ==
  /\ uiPc = "join" /\ workerPc \in {"none", "ended"}
  /\ workerPc' = "none" /\ uiPc' = "waitResponder"
  /\ UNCHANGED <<engineVars, flagVars, ringVars>> /\ Quiet

StopWaitResponder ==
  /\ uiPc = "waitResponder" /\ responderReaders = 0
  /\ uiPc' = "nullRequests"
  /\ UNCHANGED <<engineVars, flagVars, ringVars, workerPc>> /\ Quiet

StopNullRequests ==
  /\ uiPc = "nullRequests"
  /\ reqPtr' = "null" /\ uiPc' = "freeRequests"
  /\ UNCHANGED <<engineVars, flagVars, respPtr, reqRing, respRing, requests, responses,
                 workerPc>>
  /\ Quiet

StopFreeRequests ==
  /\ uiPc = "freeRequests"
  /\ reqRing' = "freed" /\ requests' = 0 /\ uiPc' = "nullResponses"
  /\ UNCHANGED <<engineVars, flagVars, reqPtr, respPtr, respRing, responses, workerPc>>
  /\ Quiet

StopNullResponses ==
  /\ uiPc = "nullResponses"
  /\ respPtr' = "null" /\ uiPc' = "freeResponses"
  /\ UNCHANGED <<engineVars, flagVars, reqPtr, reqRing, respRing, requests, responses,
                 workerPc>>
  /\ Quiet

StopFreeResponses ==
  /\ uiPc = "freeResponses"
  /\ respRing' = "freed" /\ responses' = 0 /\ iface' = "null" /\ uiPc' = "freeInstance"
  /\ UNCHANGED <<engineVars, enabled, running, instance, reqPtr, respPtr, reqRing, requests,
                 workerPc>>
  /\ Quiet

\* lilv_instance_free() ends the plugin's own threads; the object is deleted and
\* its slot cleared.
CloseInstance ==
  /\ uiPc = "freeInstance"
  /\ \A c \in Callers \ {"audio"} : schedPc[c] = "out"
  /\ instance' = "freed" /\ slot' = "null"
  /\ uiPc' = IF goal = "add" THEN "create" ELSE "unlock"
  /\ UNCHANGED <<bypass, mutex, goal, enabled, running, iface, ringVars, workerPc>> /\ Quiet

\* A plugin with a worker: rings, thread, and only then the gate.
CreateWithWorker ==
  /\ uiPc = "create"
  /\ instance' = "live" /\ iface' = "set" /\ running' = "yes" /\ workerPc' = "top"
  /\ reqPtr' = "set" /\ respPtr' = "set" /\ reqRing' = "live" /\ respRing' = "live"
  /\ uiPc' = "enable"
  /\ UNCHANGED <<engineVars, enabled, requests, responses>> /\ Quiet

CreateEnable ==
  /\ uiPc = "enable"
  /\ enabled' = "yes" /\ uiPc' = "publish"
  /\ UNCHANGED <<engineVars, running, iface, instance, ringVars, workerPc>> /\ Quiet

CreateWithoutWorker ==
  /\ uiPc = "create"
  /\ instance' = "live" /\ uiPc' = "publish"
  /\ UNCHANGED <<engineVars, enabled, running, iface, ringVars, workerPc>> /\ Quiet

\* initialize() fails: addPlugin() returns -1 and the slot stays empty; bypass is
\* cleared before the mutex is released.
CreateFails ==
  /\ uiPc = "create"
  /\ bypass' = "off" /\ uiPc' = "unlock"
  /\ UNCHANGED <<mutex, slot, goal, flagVars, ringVars, workerPc>> /\ Quiet

Publish ==
  /\ uiPc = "publish"
  /\ slot' = "set" /\ uiPc' = "unlock"
  /\ UNCHANGED <<bypass, mutex, goal, flagVars, ringVars, workerPc>> /\ Quiet

UiUnlock ==
  /\ uiPc = "unlock"
  /\ mutex' = "free" /\ uiPc' = IF bypass = "on" THEN "clear" ELSE "idle"
  /\ UNCHANGED <<bypass, slot, goal, flagVars, ringVars, workerPc>> /\ Quiet

UiClear ==
  /\ uiPc = "clear"
  /\ bypass' = "off" /\ uiPc' = "idle"
  /\ UNCHANGED <<mutex, slot, goal, flagVars, ringVars, workerPc>> /\ Quiet

ScheduleNext(c) == \/ ScheduleTest(c) \/ ScheduleCount(c) \/ ScheduleLoad(c)
                   \/ ScheduleWrite(c) \/ ScheduleUncount(c)
ScheduleOn(c)   == \/ ScheduleCount(c) \/ ScheduleLoad(c)
                   \/ ScheduleWrite(c) \/ ScheduleUncount(c)
AudioStep  == \/ AudioTryLock \/ AudioRan \/ AudioCount \/ AudioAgain \/ AudioDeliver
              \/ AudioUncount \/ AudioUnlock
WorkerNext == \/ WorkerTop \/ WorkerLook \/ WorkDone
              \/ RespondCount \/ RespondLoad \/ RespondWrite \/ RespondUncount
UiStep     == \/ UiLock \/ StopDisable \/ StopWaitRt \/ StopWaitScheduler \/ StopHalt
              \/ StopJoin \/ StopWaitResponder \/ StopNullRequests \/ StopFreeRequests
              \/ StopNullResponses \/ StopFreeResponses \/ CloseInstance
              \/ CreateWithWorker \/ CreateEnable \/ CreateWithoutWorker \/ CreateFails
              \/ Publish \/ UiUnlock \/ UiClear

Next == \/ AudioCall \/ AudioStep \/ WorkerNext \/ UiStep
        \/ \E op \in {"add", "delete"} : UiBegin(op)
        \/ \E c \in Callers : ScheduleNext(c)

Spec == Init /\ [][Next]_vars

\* The threads are scheduled, and the plugin's run() and work() return.
FairSpec ==
  /\ Spec
  /\ WF_vars(AudioStep) /\ SF_vars(AudioRan) /\ \A c \in Callers : WF_vars(ScheduleOn(c))
  /\ WF_vars(WorkerNext) /\ SF_vars(WorkDone)
  /\ WF_vars(UiStep)

-----------------------------------------------------------------------------
(* Properties.                                                             *)

\* LV2Plugin.hpp:1379: scheduler calls are counted "to prevent use-after-free race".
\* Nobody writes a request into a ring that stop_worker() has freed.
RequestRingAlive == \A c \in Callers : schedPc[c] = "write" => reqRing = "live"

\* A ring is used by the worker and by the audio thread, which may schedule work inside
\* run(), only while it lives, and neither run(), work() nor work_response() is on the
\* stack of any thread when the LV2 instance is freed, whatever deletePlugin() and
\* addPlugin() interrupt and whoever else schedules work.  No worker outlives its plugin:
\* when the next one is created, and whenever the slot is empty with the mutex free, no
\* thread runs and nobody is counted as a reader.
PluginAlive ==
  /\ workerPc \in {"work", "load", "write", "uncount"} => instance = "live"
  /\ audioPc \in {"run", "count", "again", "deliver"} => instance = "live"
  /\ (workerPc = "look" \/ schedPc["audio"] = "write") => reqRing = "live"
  /\ (workerPc = "write" \/ audioPc = "deliver") => respRing = "live"
  /\ (uiPc = "create" \/ (slot = "null" /\ mutex = "free")) =>
       workerPc = "none" /\ rtReaders + schedulerReaders + responderReaders = 0

\* deliver_worker_responses() takes responses as long as there are any: the worker,
\* kept busy by a thread of the plugin, must not go on answering as fast as that.
DeliveryEnds == []<>(audioPc # "deliver")

\* addPlugin() and deletePlugin() return: bypass keeps the audio thread away from
\* pluginMutex, so a fair scheduler is enough to get it, and every reader that
\* stop_worker() waits for goes away.
EditReturns == DeliveryEnds => (uiPc # "idle" ~> uiPc = "idle")

\* A request accepted by host_schedule_work() is worked on unless the plugin is closed.
RequestServed == requests > 0 ~> (workerPc = "work" \/ running = "no")

=============================================================================
