----------------------------- MODULE EffectChain -----------------------------
(***************************************************************************)
(* The chain of plugins (src/src/LiveEffectEngine.cpp) and the way of a    *)
(* file path from the UI to a plugin (src/src/LV2Plugin.hpp): the audio    *)
(* callback LiveEffectEngine::process(), which runs the enabled plugins in *)
(* slot order, against the UI thread, which loads, deletes, enables and    *)
(* sets plugins and leaves messages for them.  What one plugin's own       *)
(* worker thread does is in PluginWorker.                                  *)
(*                                                                         *)
(* Loaded plugins are numbered, so that the next one in a slot is another. *)
(* A path is a number, kept as two halves: copied without its mutex it     *)
(* could be half of one message and half of another.                       *)
(***************************************************************************)
EXTENDS Integers

CONSTANTS
  N,          \* slots, 4 in the code
  MaxEdits,   \* bound: calls that take pluginMutex
  MaxPaths,   \* bound: calls of setFilePath()
  Oversized   \* paths that do not fit the atom buffer of the port

ASSUME SlotsAssumption  == N \in Nat \ {0}
ASSUME BoundsAssumption == MaxEdits \in Nat /\ MaxPaths \in Nat
ASSUME SizesAssumption  == Oversized \subseteq 1 .. MaxPaths

VARIABLES
  slot, enabled,        \* per slot: the plugin in it, 0 if none; LV2Plugin::enabled
  bypass, mutex,        \* LiveEffectEngine::bypass, pluginMutex and who holds it
  head, tail,           \* AtomState::ui_to_dsp, per slot
  pending, mailLock,    \* ui_to_dsp_pending, and who holds ui_to_dsp_mutex
  gotHead, gotTail,     \* the last message the plugin was given
  audioPc, k, ran,      \* the callback: its step, its slot, what it ran per slot
  uiPc, op, pos,        \* the UI thread: its step, its call and the slot
  edits, paths          \* calls made so far

graphVars == <<slot, enabled>>
mailVars  == <<head, tail, pending, mailLock, gotHead, gotTail>>
audioVars == <<audioPc, k, ran>>
uiVars    == <<uiPc, op, pos, edits, paths>>
vars == <<graphVars, bypass, mutex, mailVars, audioVars, uiVars>>

Slots == 1 .. N

Init ==
  /\ slot = [i \in Slots |-> 0] /\ enabled = [i \in Slots |-> "off"]
  /\ bypass = "off" /\ mutex = "free"
  /\ head = [i \in Slots |-> 0] /\ tail = [i \in Slots |-> 0]
  /\ pending = [i \in Slots |-> "no"] /\ mailLock = [i \in Slots |-> "free"]
  /\ gotHead = [i \in Slots |-> 0] /\ gotTail = [i \in Slots |-> 0]
  /\ audioPc = "idle" /\ k = 1 /\ ran = [i \in Slots |-> 0]
  /\ uiPc = "idle" /\ op = "add" /\ pos = 1 /\ edits = 0 /\ paths = 0

-----------------------------------------------------------------------------
(* The UI thread.                                                          *)

\* addPlugin() and deletePlugin() set bypass before they ask for the mutex.
Rebuilding == {"add", "delete"}
\* setPluginEnabled() and setValue() only take the mutex.
Tweaking == {"enable", "disable", "value"}

\* Seeded fault: the audio thread is not kept off the mutex.
UiBegin_NoBypass(o, i) ==
  /\ uiPc = "idle" /\ edits < MaxEdits
  /\ uiPc' = "wait" /\ op' = o /\ pos' = i /\ edits' = edits + 1
  /\ UNCHANGED <<graphVars, bypass, mutex, mailVars, audioVars, paths>>

UiBegin(o, i) ==
  /\ uiPc = "idle" /\ edits < MaxEdits
  /\ uiPc' = "wait" /\ op' = o /\ pos' = i /\ edits' = edits + 1
  /\ bypass' = IF o \in Rebuilding THEN "on" ELSE bypass
  /\ UNCHANGED <<graphVars, mutex, mailVars, audioVars, paths>>

UiLock ==
  /\ uiPc = "wait" /\ mutex = "free"
  /\ mutex' = "ui"
  /\ uiPc' = IF op \in Rebuilding THEN "remove" ELSE "write"
  /\ UNCHANGED <<graphVars, bypass, mailVars, audioVars, op, pos, edits, paths>>

\* The plugin that was in the slot, if any, is closed and deleted.
UiRemove ==
  /\ uiPc = "remove"
  /\ slot' = [slot EXCEPT ![pos] = 0] /\ enabled' = [enabled EXCEPT ![pos] = "off"]
  /\ uiPc' = IF op = "add" THEN "load" ELSE "unlock"
  /\ UNCHANGED <<bypass, mutex, mailVars, audioVars, op, pos, edits, paths>>

\* A new plugin starts enabled, with a mailbox of its own.
UiLoad ==
  /\ uiPc = "load"
  /\ slot' = [slot EXCEPT ![pos] = edits] /\ enabled' = [enabled EXCEPT ![pos] = "on"]
  /\ head' = [head EXCEPT ![pos] = 0] /\ tail' = [tail EXCEPT ![pos] = 0]
  /\ pending' = [pending EXCEPT ![pos] = "no"]
  /\ gotHead' = [gotHead EXCEPT ![pos] = 0] /\ gotTail' = [gotTail EXCEPT ![pos] = 0]
  /\ uiPc' = "unlock"
  /\ UNCHANGED <<bypass, mutex, mailLock, audioVars, op, pos, edits, paths>>

\* Seeded fault: the early return leaves bypass set.
UiLoadFails_KeepsBypass ==
  /\ uiPc = "load"
  /\ uiPc' = "leave"
  /\ UNCHANGED <<graphVars, bypass, mutex, mailVars, audioVars, op, pos, edits, paths>>

\* initialize() fails: bypass is cleared inside the mutex, the slot stays empty.
UiLoadFails ==
  /\ uiPc = "load"
  /\ bypass' = "off" /\ uiPc' = "leave"
  /\ UNCHANGED <<graphVars, mutex, mailVars, audioVars, op, pos, edits, paths>>

\* setPluginEnabled() and setValue() of an empty slot change nothing.
UiWrite ==
  /\ uiPc = "write"
  /\ enabled' = IF op = "value" \/ slot[pos] = 0 THEN enabled
                ELSE [enabled EXCEPT ![pos] = IF op = "enable" THEN "on" ELSE "off"]
  /\ uiPc' = "leave"
  /\ UNCHANGED <<slot, bypass, mutex, mailVars, audioVars, op, pos, edits, paths>>

UiUnlock ==
  /\ uiPc \in {"unlock", "leave"}
  /\ mutex' = "free"
  /\ uiPc' = IF uiPc = "unlock" THEN "resume" ELSE "idle"
  /\ UNCHANGED <<graphVars, bypass, mailVars, audioVars, op, pos, edits, paths>>

UiResume ==
  /\ uiPc = "resume"
  /\ bypass' = "off" /\ uiPc' = "idle"
  /\ UNCHANGED <<graphVars, mutex, mailVars, audioVars, op, pos, edits, paths>>

\* setFilePath() takes no lock of the engine; send_path_parameter() those of the mailbox.
UiPath(i) ==
  /\ uiPc = "idle" /\ paths < MaxPaths /\ slot[i] # 0 /\ mailLock[i] = "free"
  /\ op' = "path" /\ pos' = i /\ paths' = paths + 1
  /\ mailLock' = [mailLock EXCEPT ![i] = "ui"]
  /\ uiPc' = "assign"
  /\ UNCHANGED <<graphVars, bypass, mutex, head, tail, pending, gotHead, gotTail,
                 audioVars, edits>>

UiAssign ==
  /\ uiPc = "assign"
  /\ head' = [head EXCEPT ![pos] = paths] /\ uiPc' = "assigned"
  /\ UNCHANGED <<graphVars, bypass, mutex, tail, pending, mailLock, gotHead, gotTail,
                 audioVars, op, pos, edits, paths>>

UiAssigned ==
  /\ uiPc = "assigned"
  /\ tail' = [tail EXCEPT ![pos] = paths] /\ uiPc' = "flag"
  /\ mailLock' = [mailLock EXCEPT ![pos] = "free"]
  /\ UNCHANGED <<graphVars, bypass, mutex, head, pending, gotHead, gotTail,
                 audioVars, op, pos, edits, paths>>

UiFlag ==
  /\ uiPc = "flag"
  /\ pending' = [pending EXCEPT ![pos] = "yes"] /\ uiPc' = "idle"
  /\ UNCHANGED <<graphVars, bypass, mutex, head, tail, mailLock, gotHead, gotTail,
                 audioVars, op, pos, edits, paths>>

-----------------------------------------------------------------------------
(* The audio thread.                                                       *)

AudioCall ==
  /\ audioPc = "idle"
  /\ audioPc' = "bypass" /\ k' = 1 /\ ran' = [i \in Slots |-> 0]
  /\ UNCHANGED <<graphVars, bypass, mutex, mailVars, uiVars>>

\* The input is copied to the output.
AudioBypassed ==
  /\ audioPc = "bypass" /\ bypass = "on"
  /\ audioPc' = "idle"
  /\ UNCHANGED <<graphVars, bypass, mutex, mailVars, k, ran, uiVars>>

AudioNotBypassed ==
  /\ audioPc = "bypass" /\ bypass = "off"
  /\ audioPc' = "lock"
  /\ UNCHANGED <<graphVars, bypass, mutex, mailVars, k, ran, uiVars>>

\* Seeded fault: lock() instead of try_lock().
AudioRefused_Waits ==
  /\ audioPc = "lock" /\ mutex # "free"
  /\ UNCHANGED vars

\* try_lock() fails: the input is copied to the output.
AudioRefused ==
  /\ audioPc = "lock" /\ mutex # "free"
  /\ audioPc' = "idle"
  /\ UNCHANGED <<graphVars, bypass, mutex, mailVars, k, ran, uiVars>>

\* Seeded fault: the callback goes on, locked out or not.
AudioLock_Ignored ==
  /\ audioPc = "lock"
  /\ audioPc' = "slot"
  /\ UNCHANGED <<graphVars, bypass, mutex, mailVars, k, ran, uiVars>>

AudioLock ==
  /\ audioPc = "lock" /\ mutex = "free"
  /\ mutex' = "audio" /\ audioPc' = "slot"
  /\ UNCHANGED <<graphVars, bypass, mailVars, k, ran, uiVars>>

AudioSkip ==
  /\ audioPc = "slot" /\ k <= N /\ (slot[k] = 0 \/ enabled[k] = "off")
  /\ k' = k + 1
  /\ UNCHANGED <<graphVars, bypass, mutex, mailVars, audioPc, ran, uiVars>>

\* A plugin to run: the pending flag is exchanged for false.
AudioTakeFlag ==
  /\ audioPc = "slot" /\ k <= N /\ slot[k] # 0 /\ enabled[k] = "on"
  /\ pending' = [pending EXCEPT ![k] = "no"]
  /\ audioPc' = IF pending[k] = "yes" THEN "mail" ELSE "run"
  /\ UNCHANGED <<graphVars, bypass, mutex, head, tail, mailLock, gotHead, gotTail,
                 k, ran, uiVars>>

\* Seeded fault: the payload is copied without its mutex.
AudioMailLock_None ==
  /\ audioPc = "mail"
  /\ audioPc' = "copy"
  /\ UNCHANGED <<graphVars, bypass, mutex, mailVars, k, ran, uiVars>>

AudioMailLock ==
  /\ audioPc = "mail" /\ mailLock[k] = "free"
  /\ mailLock' = [mailLock EXCEPT ![k] = "audio"]
  /\ audioPc' = "copy"
  /\ UNCHANGED <<graphVars, bypass, mutex, head, tail, pending, gotHead, gotTail,
                 k, ran, uiVars>>

\* A message that does not fit is dropped, the flag being cleared already.
AudioCopy ==
  /\ audioPc = "copy"
  /\ IF head[k] \in Oversized THEN UNCHANGED <<gotHead, gotTail>>
     ELSE /\ gotHead' = [gotHead EXCEPT ![k] = head[k]]
          /\ gotTail' = [gotTail EXCEPT ![k] = tail[k]]
  /\ mailLock' = [mailLock EXCEPT ![k] = "free"]
  /\ audioPc' = "run"
  /\ UNCHANGED <<graphVars, bypass, mutex, head, tail, pending, k, ran, uiVars>>

\* Seeded fault: the flag is cleared when the plugin has run.
AudioRun_ClearsFlag ==
  /\ audioPc = "run"
  /\ ran' = [ran EXCEPT ![k] = slot[k]]
  /\ pending' = [pending EXCEPT ![k] = "no"]
  /\ k' = k + 1 /\ audioPc' = "slot"
  /\ UNCHANGED <<graphVars, bypass, mutex, head, tail, mailLock, gotHead, gotTail, uiVars>>

AudioRun ==
  /\ audioPc = "run"
  /\ ran' = [ran EXCEPT ![k] = slot[k]]
  /\ k' = k + 1 /\ audioPc' = "slot"
  /\ UNCHANGED <<graphVars, bypass, mutex, mailVars, uiVars>>

\* After the last slot: with no plugin run the input is copied to the output; the
\* gain works in place; the mutex is released.
AudioReturn ==
  /\ audioPc = "slot" /\ k > N
  /\ mutex' = "free" /\ audioPc' = "idle"
  /\ UNCHANGED <<graphVars, bypass, mailVars, k, ran, uiVars>>

-----------------------------------------------------------------------------
UiStep ==
  \/ UiLock \/ UiRemove \/ UiLoad \/ UiLoadFails \/ UiWrite \/ UiUnlock \/ UiResume
  \/ UiAssign \/ UiAssigned \/ UiFlag

AudioStep ==
  \/ AudioCall \/ AudioBypassed \/ AudioNotBypassed \/ AudioRefused \/ AudioLock
  \/ AudioSkip \/ AudioTakeFlag \/ AudioMailLock \/ AudioCopy \/ AudioRun \/ AudioReturn

Next ==
  \/ \E i \in Slots : (\E o \in Rebuilding \cup Tweaking : UiBegin(o, i)) \/ UiPath(i)
  \/ UiStep \/ AudioStep

\* The engine runs: callbacks come for ever and the audio thread goes on; a call of
\* the UI thread goes on unless a mutex stops it.  Neither mutex is fair.
Spec == Init /\ [][Next]_vars /\ WF_vars(AudioStep) /\ WF_vars(UiStep)

-----------------------------------------------------------------------------
(* Properties.                                                             *)

\* The types of the variables.
GraphTypes ==
  /\ slot \in [Slots -> 0 .. MaxEdits] /\ enabled \in [Slots -> {"on", "off"}]
  /\ bypass \in {"on", "off"} /\ mutex \in {"free", "ui", "audio"}
MailTypes ==
  /\ head \in [Slots -> 0 .. MaxPaths] /\ tail \in [Slots -> 0 .. MaxPaths]
  /\ pending \in [Slots -> {"yes", "no"}] /\ mailLock \in [Slots -> {"free", "ui", "audio"}]
  /\ gotHead \in [Slots -> 0 .. MaxPaths] /\ gotTail \in [Slots -> 0 .. MaxPaths]
AudioTypes ==
  /\ audioPc \in {"idle", "bypass", "lock", "slot", "mail", "copy", "run"}
  /\ k \in 1 .. N + 1 /\ ran \in [Slots -> 0 .. MaxEdits]
UiTypes ==
  /\ uiPc \in {"idle", "wait", "remove", "load", "write", "unlock", "leave", "resume",
               "assign", "assigned", "flag"}
  /\ op \in Rebuilding \cup Tweaking \cup {"path"} /\ pos \in Slots
  /\ edits \in 0 .. MaxEdits /\ paths \in 0 .. MaxPaths
TypeOK == GraphTypes /\ MailTypes /\ AudioTypes /\ UiTypes

\* A callback that reaches the end of the chain has run the plugins of one moment:
\* exactly those that are loaded and enabled now, however the UI has edited meanwhile.
WholeChain ==
  audioPc = "slot" /\ k > N =>
    \A i \in Slots : ran[i] = IF enabled[i] = "on" THEN slot[i] ELSE 0

\* A plugin is never given half of one path and half of another.
WholeMessage == \A i \in Slots : gotHead[i] = gotTail[i]

\* The last path sent to a plugin reaches it, unless it is too long or the plugin
\* is disabled or gone: no path is lost between the flag and the payload.
PathArrives ==
  \A i \in Slots :
    []<>(slot[i] = 0 \/ enabled[i] = "off" \/ head[i] \in Oversized \/ gotHead[i] = head[i])

\* A plugin that is loaded and enabled is heard: no way out of the UI's calls leaves
\* the bypass on or the mutex taken.
PluginHeard ==
  \A i \in Slots : \A p \in 1 .. MaxEdits :
    (slot[i] = p /\ enabled[i] = "on") ~> (slot[i] # p \/ enabled[i] = "off" \/ ran[i] = p)

\* The audio thread waits for nothing but a mailbox: pluginMutex never holds it up,
\* whatever the UI does, and ui_to_dsp_mutex (LV2Plugin.hpp:604) only that of the
\* plugin it is at, while the UI is between the two assignments of one path to it.
WaitsAtMailboxOnly ==
  \/ audioPc = "idle"
  \/ ENABLED <<AudioStep>>_vars
  \/ audioPc = "mail" /\ uiPc \in {"assign", "assigned"} /\ pos = k

\* addPlugin() and deletePlugin() get the mutex, although the audio thread takes it
\* in every callback and nothing makes the mutex fair: bypass keeps callbacks off it.
\* (setValue() and setPluginEnabled() have no such help.)
EditGetsIn == (uiPc = "wait" /\ op \in Rebuilding) ~> uiPc = "idle"
=============================================================================
