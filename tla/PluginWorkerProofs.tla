------------------------- MODULE PluginWorkerProofs -------------------------
(***************************************************************************)
(* No use after free in PluginWorker, for rings of every size.             *)
(* pluginMutex keeps run(), and a scheduler inside it, apart from          *)
(* closePlugin() (MutexInv, SlotInv); the worker, which takes no mutex, is *)
(* gone from the join in stop_worker() until the next plugin is created    *)
(* (WorkerInv); and a thread of the plugin lives no longer than the        *)
(* instance (ThreadInv).  The last is too long for the request ring, which *)
(* is freed before the instance: PluginAlive promises nothing of it to a   *)
(* thread of the plugin, and RequestRingAlive has no theorem.              *)
(***************************************************************************)
EXTENDS PluginWorker, TLAPS

USE CallersAssumption

InChain == audioPc \in {"run", "count", "again", "deliver", "uncount", "unlock"}
Editing == uiPc \notin {"idle", "lock", "clear"}

\* What caller c adds to scheduler_readers.
Counted(c) == IF c \in Callers /\ schedPc[c] \in {"load", "write", "uncount"} THEN 1 ELSE 0

\* Who holds pluginMutex, and who is counted as a reader.
MutexInv ==
  /\ (mutex = "audio") <=> InChain
  /\ (mutex = "ui") <=> Editing
  /\ schedPc \in [Callers -> {"out", "count", "load", "write", "uncount"}]
  /\ schedPc["audio"] # "out" => audioPc = "run"
  /\ rtReaders = IF audioPc \in {"again", "deliver", "uncount"} THEN 1 ELSE 0
  /\ schedulerReaders = Counted("audio") + Counted("thread")
  /\ responderReaders = IF workerPc \in {"load", "write", "uncount"} THEN 1 ELSE 0

\* What a plugin that can be run has: its instance, and rings behind its pointers.
SlotInv ==
  /\ slot \in {"set", "null"}
  /\ InChain => slot = "set"
  /\ slot = "set" => instance = "live"
  /\ uiPc \in {"enable", "publish"} => instance = "live"
  /\ reqPtr = "set" => reqRing = "live"
  /\ respPtr = "set" => respRing = "live"
  /\ uiPc = "freeRequests" => reqPtr = "null"
  /\ uiPc = "freeResponses" => respPtr = "null"
  /\ schedPc["audio"] = "write" => reqRing = "live"
  /\ audioPc = "deliver" => respRing = "live"

\* stop_worker() after its join.
Joined == {"waitResponder", "nullRequests", "freeRequests", "nullResponses",
           "freeResponses", "freeInstance"}

\* A worker has its plugin and its rings; there is none after the join, and none
\* where the slot is empty and no plugin is being made or closed.
WorkerInv ==
  /\ workerPc # "none" => instance = "live" /\ reqRing = "live" /\ respRing = "live"
  /\ uiPc \in Joined \cup {"create"} => workerPc = "none"
  /\ slot = "null" /\ uiPc \in {"idle", "lock", "clear", "unlock"} => workerPc = "none"

\* closePlugin() before the instance is freed.
Unloading == {"disable", "waitRt", "waitScheduler", "halt", "join"} \cup Joined

\* A thread of the plugin is inside host_schedule_work() only while the instance lives,
\* and that is until closePlugin() frees it.
ThreadInv ==
  /\ "thread" \in Callers /\ schedPc["thread"] # "out" => instance = "live"
  /\ instance = "live" => slot = "set" \/ uiPc \in {"enable", "publish"} \cup Unloading
  /\ uiPc = "create" => slot = "null"

IInv == MutexInv /\ SlotInv /\ WorkerInv /\ ThreadInv

\* The invariant holds when no plugin has been loaded.
LEMMA InitInv == ASSUME Init PROVE IInv
  BY SMT DEF Init, IInv, MutexInv, SlotInv, WorkerInv, ThreadInv, Counted, InChain, Editing,
             Joined, Unloading

\* A step of the audio thread outside of run().
LEMMA AudioInv ==
  ASSUME IInv,
         AudioCall \/ AudioTryLock \/ AudioRan \/ AudioCount \/ AudioAgain \/ AudioDeliver
           \/ AudioUncount \/ AudioUnlock
  PROVE  IInv'
<1> USE DEF IInv, MutexInv, SlotInv, WorkerInv, ThreadInv, Counted, InChain, Editing, Joined,
        Unloading, engineVars, flagVars, ringVars, countVars
<1>1. CASE AudioCall    BY <1>1 DEF AudioCall
<1>2. CASE AudioTryLock BY <1>2 DEF AudioTryLock
<1>3. CASE AudioRan     BY <1>3 DEF AudioRan
<1>4. CASE AudioCount   BY <1>4 DEF AudioCount
<1>5. CASE AudioAgain   BY <1>5 DEF AudioAgain
<1>6. CASE AudioDeliver BY <1>6 DEF AudioDeliver
<1>7. CASE AudioUncount BY <1>7 DEF AudioUncount
<1>8. CASE AudioUnlock  BY <1>8 DEF AudioUnlock
<1> QED
  BY <1>1, <1>2, <1>3, <1>4, <1>5, <1>6, <1>7, <1>8

\* A step of the worker, which takes no mutex.
LEMMA WorkerStepInv ==
  ASSUME IInv, WorkerNext
  PROVE  IInv'
<1> USE DEF IInv, MutexInv, SlotInv, WorkerInv, ThreadInv, Counted, InChain, Editing, Joined,
        Unloading, engineVars, flagVars, ringVars, countVars
<1>1. CASE WorkerTop      BY <1>1 DEF WorkerTop
<1>2. CASE WorkerLook     BY <1>2 DEF WorkerLook
<1>3. CASE WorkDone       BY <1>3 DEF WorkDone
<1>4. CASE RespondCount   BY <1>4 DEF RespondCount
<1>5. CASE RespondLoad    BY <1>5 DEF RespondLoad
<1>6. CASE RespondWrite   BY <1>6 DEF RespondWrite
<1>7. CASE RespondUncount BY <1>7 DEF RespondUncount
<1> QED
  BY <1>1, <1>2, <1>3, <1>4, <1>5, <1>6, <1>7 DEF WorkerNext

\* host_schedule_work(), inside run() or by a thread of the plugin.
LEMMA ScheduleInv ==
  ASSUME NEW c \in Callers, IInv, ScheduleNext(c)
  PROVE  IInv'
<1> USE DEF IInv, MutexInv, SlotInv, WorkerInv, ThreadInv, Counted, InChain, Editing, Joined,
        Unloading, engineVars, flagVars, ringVars, countVars, Calling
<1>1. CASE ScheduleTest(c)    BY <1>1 DEF ScheduleTest
<1>2. CASE ScheduleCount(c)   BY <1>2 DEF ScheduleCount
<1>3. CASE ScheduleLoad(c)    BY <1>3 DEF ScheduleLoad
<1>4. CASE ScheduleWrite(c)   BY <1>4 DEF ScheduleWrite
<1>5. CASE ScheduleUncount(c) BY <1>5 DEF ScheduleUncount
<1> QED
  BY <1>1, <1>2, <1>3, <1>4, <1>5 DEF ScheduleNext

\* closePlugin(): stop_worker() and the end of the instance.
Closing ==
  \/ StopDisable \/ StopWaitRt \/ StopWaitScheduler \/ StopHalt \/ StopJoin
  \/ StopWaitResponder \/ StopNullRequests \/ StopFreeRequests \/ StopNullResponses
  \/ StopFreeResponses \/ CloseInstance

\* A step of closePlugin().
LEMMA CloseInv ==
  ASSUME IInv, Closing
  PROVE  IInv'
<1> USE DEF IInv, MutexInv, SlotInv, WorkerInv, ThreadInv, Counted, InChain, Editing, Joined,
        Unloading, engineVars, flagVars, ringVars, countVars, Quiet
<1>1. CASE StopDisable       BY <1>1 DEF StopDisable
<1>2. CASE StopWaitRt        BY <1>2 DEF StopWaitRt
<1>3. CASE StopWaitScheduler BY <1>3 DEF StopWaitScheduler
<1>4. CASE StopHalt          BY <1>4 DEF StopHalt
<1>5. CASE StopJoin          BY <1>5 DEF StopJoin
<1>6. CASE StopWaitResponder BY <1>6 DEF StopWaitResponder
<1>7. CASE StopNullRequests  BY <1>7 DEF StopNullRequests
<1>8. CASE StopFreeRequests  BY <1>8 DEF StopFreeRequests
<1>9. CASE StopNullResponses BY <1>9 DEF StopNullResponses
<1>10. CASE StopFreeResponses BY <1>10 DEF StopFreeResponses
<1>11. CASE CloseInstance     BY <1>11 DEF CloseInstance
<1> QED
  BY <1>1, <1>2, <1>3, <1>4, <1>5, <1>6, <1>7, <1>8, <1>9, <1>10, <1>11 DEF Closing

\* The rest of addPlugin() and deletePlugin().
LEMMA EditInv ==
  ASSUME IInv, UiStep \/ (\E op \in {"add", "delete"} : UiBegin(op)), ~Closing
  PROVE  IInv'
<1> USE DEF IInv, MutexInv, SlotInv, WorkerInv, ThreadInv, Counted, InChain, Editing, Joined,
        Unloading, engineVars, flagVars, ringVars, countVars, Quiet
<1>1. CASE UiLock              BY <1>1 DEF UiLock
<1>2. CASE CreateWithWorker    BY <1>2 DEF CreateWithWorker
<1>3. CASE CreateEnable        BY <1>3 DEF CreateEnable
<1>4. CASE CreateWithoutWorker BY <1>4 DEF CreateWithoutWorker
<1>5. CASE CreateFails         BY <1>5 DEF CreateFails
<1>6. CASE Publish             BY <1>6 DEF Publish
<1>7. CASE UiUnlock            BY <1>7 DEF UiUnlock
<1>8. CASE UiClear             BY <1>8 DEF UiClear
<1>9. CASE \E op \in {"add", "delete"} : UiBegin(op) BY <1>9 DEF UiBegin
<1> QED
  BY <1>1, <1>2, <1>3, <1>4, <1>5, <1>6, <1>7, <1>8, <1>9 DEF UiStep, Closing

\* Every step keeps the invariant.
LEMMA StepInv == ASSUME IInv, [Next]_vars PROVE IInv'
<1>1. CASE UNCHANGED vars
  BY <1>1 DEF vars, engineVars, flagVars, ringVars, countVars, pcVars, IInv, MutexInv, SlotInv,
              WorkerInv, ThreadInv, Counted, InChain, Editing, Joined, Unloading
<1>2. CASE AudioCall \/ AudioStep
  BY <1>2, AudioInv DEF AudioStep
<1>3. CASE UiStep \/ (\E op \in {"add", "delete"} : UiBegin(op))
  BY <1>3, CloseInv, EditInv
<1>4. CASE \E c \in Callers : ScheduleNext(c)
  BY <1>4, ScheduleInv
<1> QED
  BY <1>1, <1>2, <1>3, <1>4, WorkerStepInv DEF Next

\* The invariant always holds.
LEMMA Invariance == Spec => []IInv
<1>1. Init => IInv
  BY InitInv
<1>2. IInv /\ [Next]_vars => IInv'
  BY StepInv
<1> QED
  BY <1>1, <1>2, PTL DEF Spec

\* A plugin whose functions run is live, and nothing is left of the one before it.
LEMMA InvPluginAlive == ASSUME IInv PROVE PluginAlive
<1> USE DEF IInv, MutexInv, SlotInv, WorkerInv, ThreadInv, InChain, Editing, Joined, Unloading
<1>1. ASSUME uiPc = "create" \/ (slot = "null" /\ mutex = "free")
      PROVE  workerPc = "none" /\ rtReaders + schedulerReaders + responderReaders = 0
  <2>1. instance # "live" /\ workerPc = "none" /\ rtReaders = 0 /\ responderReaders = 0
    BY <1>1
  <2>2. Counted("audio") = 0 /\ Counted("thread") = 0
    BY <1>1, <2>1 DEF Counted
  <2> QED  BY <1>1, <2>1, <2>2
<1> QED  BY <1>1 DEF PluginAlive

\* No function of a plugin is on a stack when the plugin is freed, and no worker or
\* reader of it is left for the next one in its slot, whoever schedules its work.
THEOREM PluginSafe == Spec => []PluginAlive
  BY InvPluginAlive, Invariance, PTL
=============================================================================
