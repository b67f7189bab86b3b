----------------------------- MODULE PluginSlots -----------------------------
(***************************************************************************)
(* What a plugin slot shows against what the engine holds: the handlers of *)
(* MainWindow for Add, Bypass, Delete, preset import, the stress test and  *)
(* a change of DPI (src/src/win32/MainWindow.cpp), with PluginSlot,        *)
(* PluginDialog, ParameterPanel and the calls of LiveEffectEngine they     *)
(* make.  All of it runs on the UI thread; a handler is interrupted only   *)
(* where it opens a modal window, whose message loop goes on dispatching   *)
(* the stress timer and WM_DPICHANGED while the main window is disabled.   *)
(*                                                                         *)
(* What the audio thread makes of these calls is in EffectChain.           *)
(***************************************************************************)
EXTENDS Integers

CONSTANTS
  N,           \* slots, 4 in the code
  None,        \* no plugin
  Plugins,     \* installed plugins
  Missing,     \* plugins that a preset may name and that are not installed
  NoUri,       \* what a preset has for a slot when it names no plugin for it
  WithParams,  \* plugins with something to show on the panel
  WithPath     \* those of them with a file path among it

ASSUME SlotsAssumption   == N \in Nat \ {0}
ASSUME NoneAssumption    == None # NoUri /\ {None, NoUri} \cap (Plugins \cup Missing) = {}
ASSUME PluginsAssumption ==
  WithPath \subseteq WithParams /\ WithParams \subseteq Plugins /\ Plugins \cap Missing = {}

Slots == 1 .. N

VARIABLES
  engine, on,     \* per slot: LiveEffectEngine's plugin, and LV2Plugin::enabled
  shown,          \* the name in the slot; Bypass and Delete are enabled with it
  label,          \* what the Bypass button says: "Bypass" or "Enable"
  slotEnabled,    \* MainWindow::slotEnabled_
  panel,          \* the plugin whose controls are on the panel
  isPro,
  modal, at,      \* the modal window that is open, and the slot it is about
  preset,         \* the file being imported
  dangling,       \* the entry a file dialog was opened from is destroyed
  stressActive, stressAdded,
  troubled,       \* history: a load has failed, the stress test was used, or the DPI
                  \* changed under a file dialog
  fault           \* "none", or how the process has ended

engineVars == <<engine, on>>
slotVars   == <<shown, label, slotEnabled, panel>>
modalVars  == <<modal, at, preset, dangling>>
stressVars == <<stressActive, stressAdded>>
vars == <<engineVars, slotVars, isPro, modalVars, stressVars, troubled, fault>>

Init ==
  /\ engine = [i \in Slots |-> None] /\ on = [i \in Slots |-> "off"]
  /\ shown = [i \in Slots |-> None] /\ slotEnabled = [i \in Slots |-> "on"]
  /\ label = [i \in Slots |-> "Bypass"]
  /\ panel = [i \in Slots |-> None]
  /\ isPro \in BOOLEAN
  /\ modal = "none" /\ at = 1 /\ preset = [i \in Slots |-> None] /\ dangling = FALSE
  /\ stressActive = FALSE /\ stressAdded = FALSE
  /\ troubled = FALSE /\ fault = "none"

-----------------------------------------------------------------------------
(* LiveEffectEngine, PluginSlot and ParameterPanel, as the handlers use    *)
(* them.                                                                   *)

\* addPlugin() has taken away the old plugin; a new one starts enabled.
Loaded(i, p) == engine' = [engine EXCEPT ![i] = p] /\ on' = [on EXCEPT ![i] = "on"]
\* addPlugin() failed, or deletePlugin(): the slot is empty either way.
Emptied(i)   == engine' = [engine EXCEPT ![i] = None] /\ on' = [on EXCEPT ![i] = "off"]

\* setPlugin() leaves the text of the Bypass button alone; clearPlugin() resets it.
Shows(i, p) ==
  /\ shown' = [shown EXCEPT ![i] = p]
  /\ label' = IF p = None THEN [label EXCEPT ![i] = "Bypass"] ELSE label

\* buildParameterPanel() returns early when there is nothing to show, and leaves the
\* controls there are.
BuildPanel(i, p) ==
  /\ panel' = IF p \in WithParams THEN [panel EXCEPT ![i] = p] ELSE panel
  /\ dangling' = (dangling \/ (modal = "browse" /\ at = i /\ p \in WithParams))

ClearPanel(i) ==
  /\ panel' = [panel EXCEPT ![i] = None]
  /\ dangling' = (dangling \/ (modal = "browse" /\ at = i))

\* The main window takes clicks.
Ready == fault = "none" /\ modal = "none"
\* Some message loop is running.
Pumping == fault = "none" /\ modal # "import"

-----------------------------------------------------------------------------
(* Add, Bypass, Delete.                                                    *)

\* Slots after the first are for the Pro version; the upgrade dialog may make it one.
UpgradeClick(i) ==
  /\ Ready /\ i > 1 /\ ~isPro
  /\ isPro' = TRUE
  /\ UNCHANGED <<engineVars, slotVars, modalVars, stressVars, troubled, fault>>

AddClick(i) ==
  /\ Ready /\ (i = 1 \/ isPro)
  /\ modal' = "add" /\ at' = i
  /\ UNCHANGED <<engineVars, slotVars, isPro, preset, dangling, stressVars, troubled, fault>>

AddCancel ==
  /\ fault = "none" /\ modal = "add"
  /\ modal' = "none"
  /\ UNCHANGED <<engineVars, slotVars, isPro, at, preset, dangling, stressVars, troubled, fault>>

\* Seeded fault: the panel is built before the plugin is there to be asked.
AddOk_PanelFirst(p) ==
  /\ fault = "none" /\ modal = "add"
  /\ modal' = "none"
  /\ Loaded(at, p) /\ BuildPanel(at, engine[at]) /\ Shows(at, p)
  /\ slotEnabled' = [slotEnabled EXCEPT ![at] = "on"]
  /\ UNCHANGED <<isPro, at, preset, stressVars, troubled, fault>>

AddOk(p) ==
  /\ fault = "none" /\ modal = "add"
  /\ modal' = "none"
  /\ Loaded(at, p) /\ BuildPanel(at, p) /\ Shows(at, p)
  /\ slotEnabled' = [slotEnabled EXCEPT ![at] = "on"]
  /\ UNCHANGED <<isPro, at, preset, stressVars, troubled, fault>>

\* The answer of addPlugin() is not looked at; there is nothing to build a panel from.
AddOkFails(p) ==
  /\ fault = "none" /\ modal = "add"
  /\ modal' = "none" /\ troubled' = TRUE
  /\ Emptied(at) /\ BuildPanel(at, None) /\ Shows(at, p)
  /\ slotEnabled' = [slotEnabled EXCEPT ![at] = "on"]
  /\ UNCHANGED <<isPro, at, preset, stressVars, fault>>

Opposite(state) == IF state = "on" THEN "off" ELSE "on"

BypassClick(i) ==
  /\ Ready /\ shown[i] # None
  /\ slotEnabled' = [slotEnabled EXCEPT ![i] = Opposite(slotEnabled[i])]
  /\ on' = IF engine[i] = None THEN on ELSE [on EXCEPT ![i] = Opposite(slotEnabled[i])]
  /\ label' = [label EXCEPT ![i] = IF slotEnabled[i] = "on" THEN "Enable" ELSE "Bypass"]
  /\ UNCHANGED <<engine, shown, panel, isPro, modalVars, stressVars, troubled, fault>>

DeleteClick(i) ==
  /\ Ready /\ shown[i] # None
  /\ Emptied(i) /\ ClearPanel(i) /\ Shows(i, None)
  /\ slotEnabled' = [slotEnabled EXCEPT ![i] = "on"]
  /\ UNCHANGED <<isPro, modal, at, preset, stressVars, troubled, fault>>

-----------------------------------------------------------------------------
(* Preset import, slot after slot.  A preset as export writes it names a   *)
(* plugin per slot; for an empty slot it holds no object and is skipped.   *)
(* One written by hand may have an object without a "uri".                 *)

ImportBegin(f) ==
  /\ Ready
  /\ modal' = "import" /\ at' = 1 /\ preset' = f
  /\ UNCHANGED <<engineVars, slotVars, isPro, dangling, stressVars, troubled, fault>>

\* A file that does not parse: the catch (...) shows a message box.
ImportCorrupt ==
  /\ Ready
  /\ modal' = "corruptBox"
  /\ UNCHANGED <<engineVars, slotVars, isPro, at, preset, dangling, stressVars, troubled, fault>>

CorruptBoxClosed ==
  /\ fault = "none" /\ modal = "corruptBox"
  /\ modal' = "none"
  /\ UNCHANGED <<engineVars, slotVars, isPro, at, preset, dangling, stressVars, troubled, fault>>

ImportSkip ==
  /\ fault = "none" /\ modal = "import" /\ at <= N /\ preset[at] = None
  /\ at' = at + 1
  /\ UNCHANGED <<engineVars, slotVars, isPro, modal, preset, dangling, stressVars, troubled, fault>>

\* Seeded fault: the flag behind the Bypass button is left alone.
ImportLoad_KeepsFlag ==
  /\ fault = "none" /\ modal = "import" /\ at <= N /\ preset[at] \in Plugins
  /\ at' = at + 1
  /\ Loaded(at, preset[at]) /\ Shows(at, preset[at])
  /\ panel' = [panel EXCEPT ![at] = IF preset[at] \in WithParams THEN preset[at] ELSE None]
  /\ UNCHANGED <<slotEnabled, isPro, modal, preset, dangling, stressVars, troubled, fault>>

\* Seeded fault: the panel is built, then cleared.
ImportLoad_ClearsAfter ==
  /\ fault = "none" /\ modal = "import" /\ at <= N /\ preset[at] \in Plugins
  /\ at' = at + 1
  /\ Loaded(at, preset[at]) /\ Shows(at, preset[at])
  /\ slotEnabled' = [slotEnabled EXCEPT ![at] = "on"]
  /\ panel' = [panel EXCEPT ![at] = None]
  /\ UNCHANGED <<isPro, modal, preset, dangling, stressVars, troubled, fault>>

\* addPlugin(), setPlugin(), applyPreset(), and the panel cleared and built again.
ImportLoad ==
  /\ fault = "none" /\ modal = "import" /\ at <= N /\ preset[at] \in Plugins
  /\ at' = at + 1
  /\ Loaded(at, preset[at]) /\ Shows(at, preset[at])
  /\ slotEnabled' = [slotEnabled EXCEPT ![at] = "on"]
  /\ panel' = [panel EXCEPT ![at] = IF preset[at] \in WithParams THEN preset[at] ELSE None]
  /\ UNCHANGED <<isPro, modal, preset, dangling, stressVars, troubled, fault>>

\* Without a "uri" nothing is loaded: the values are for the plugin that is there,
\* and its panel is cleared and built again.
ImportValues ==
  /\ fault = "none" /\ modal = "import" /\ at <= N /\ preset[at] = NoUri
  /\ at' = at + 1
  /\ panel' = [panel EXCEPT ![at] = IF engine[at] \in WithParams THEN engine[at] ELSE None]
  /\ UNCHANGED <<engineVars, shown, label, slotEnabled, isPro, modal, preset, dangling,
                 stressVars, troubled, fault>>

\* A plugin that does not initialise: a message box, and the slot keeps its looks.
ImportFails ==
  /\ fault = "none" /\ modal = "import" /\ at <= N /\ preset[at] \in Plugins
  /\ modal' = "importBox" /\ troubled' = TRUE
  /\ Emptied(at)
  /\ UNCHANGED <<slotVars, isPro, at, preset, dangling, stressVars, fault>>

\* A plugin that is not installed: addPlugin() logs the library of a null plugin
\* before it asks whether there is one.
ImportMissing ==
  /\ fault = "none" /\ modal = "import" /\ at <= N /\ preset[at] \in Missing
  /\ fault' = "missing"
  /\ UNCHANGED <<engineVars, slotVars, isPro, modalVars, stressVars, troubled>>

ImportBoxClosed ==
  /\ fault = "none" /\ modal = "importBox"
  /\ modal' = "import" /\ at' = at + 1
  /\ UNCHANGED <<engineVars, slotVars, isPro, preset, dangling, stressVars, troubled, fault>>

ImportEnd ==
  /\ fault = "none" /\ modal = "import" /\ at > N
  /\ modal' = "none" /\ at' = 1 /\ preset' = [i \in Slots |-> None]
  /\ UNCHANGED <<engineVars, slotVars, isPro, dangling, stressVars, troubled, fault>>

-----------------------------------------------------------------------------
(* The controls on a panel.                                                *)

\* setValue() indexes the ports of the plugin in the slot with a port of the plugin
\* the panel was built for, and throws when there is no such port.
UseControl(i) ==
  /\ Ready /\ panel[i] # None
  /\ engine[i] \notin {None, panel[i]} /\ fault' = "range"
  /\ UNCHANGED <<engineVars, slotVars, isPro, modalVars, stressVars, troubled>>

BrowseClick(i) ==
  /\ Ready /\ panel[i] \in WithPath
  /\ modal' = "browse" /\ at' = i /\ dangling' = FALSE
  /\ UNCHANGED <<engineVars, slotVars, isPro, preset, stressVars, troubled, fault>>

\* The dialog was cancelled, or setFilePath() leaves a message for the plugin.
BrowseDone ==
  /\ fault = "none" /\ modal = "browse"
  /\ modal' = "none" /\ dangling' = FALSE
  /\ UNCHANGED <<engineVars, slotVars, isPro, at, preset, stressVars, troubled, fault>>

\* setFilePath() through a null plugin, or from an entry that is gone.
BrowseFaults ==
  /\ fault = "none" /\ modal = "browse" /\ (dangling \/ engine[at] = None)
  /\ fault' = "path"
  /\ UNCHANGED <<engineVars, slotVars, isPro, modalVars, stressVars, troubled>>

-----------------------------------------------------------------------------
(* The stress test, which works on the first slot, and WM_DPICHANGED.      *)

StressStart ==
  /\ Ready /\ ~stressActive
  /\ stressActive' = TRUE /\ stressAdded' = FALSE /\ troubled' = TRUE
  /\ UNCHANGED <<engineVars, slotVars, isPro, modalVars, fault>>

StressAdd(p) ==
  /\ Pumping /\ stressActive /\ ~stressAdded
  /\ Loaded(1, p) /\ Shows(1, p) /\ BuildPanel(1, p)
  /\ stressAdded' = TRUE
  /\ UNCHANGED <<slotEnabled, isPro, modal, at, preset, stressActive, troubled, fault>>

\* addPlugin() fails: the next plugin is tried, the slot keeps its looks.
StressAddFails ==
  /\ Pumping /\ stressActive /\ ~stressAdded
  /\ Emptied(1)
  /\ UNCHANGED <<slotVars, isPro, modalVars, stressVars, troubled, fault>>

StressDelete ==
  /\ Pumping /\ stressActive /\ stressAdded
  /\ Emptied(1) /\ ClearPanel(1) /\ Shows(1, None)
  /\ stressAdded' = FALSE
  /\ UNCHANGED <<slotEnabled, isPro, modal, at, preset, stressActive, troubled, fault>>

\* Seeded fault: the slot is cleared, the engine's plugin forgotten.
StressStop_KeepsPlugin ==
  /\ Ready /\ stressActive
  /\ stressActive' = FALSE /\ stressAdded' = FALSE
  /\ IF stressAdded THEN ClearPanel(1) /\ Shows(1, None)
     ELSE UNCHANGED <<panel, dangling, shown, label>>
  /\ UNCHANGED <<engineVars, slotEnabled, isPro, modal, at, preset, troubled, fault>>

StressStop ==
  /\ Ready /\ stressActive
  /\ stressActive' = FALSE /\ stressAdded' = FALSE
  /\ IF stressAdded THEN Emptied(1) /\ ClearPanel(1) /\ Shows(1, None)
     ELSE UNCHANGED <<engineVars, panel, dangling, shown, label>>
  /\ UNCHANGED <<slotEnabled, isPro, modal, at, preset, troubled, fault>>

\* Every slot that shows a plugin has its panel built again.
Rescale ==
  LET rebuilt == {i \in Slots : shown[i] # None /\ engine[i] \in WithParams}
      hit     == modal = "browse" /\ at \in rebuilt
  IN  /\ Pumping
      /\ panel' = [i \in Slots |-> IF i \in rebuilt THEN engine[i] ELSE panel[i]]
      /\ dangling' = (dangling \/ hit) /\ troubled' = (troubled \/ hit)
      /\ UNCHANGED <<engineVars, shown, label, slotEnabled, isPro, modal, at, preset,
                     stressVars, fault>>

-----------------------------------------------------------------------------
Presets == [Slots -> Plugins \cup Missing \cup {None, NoUri}]

Next ==
  \/ \E i \in Slots :
       UpgradeClick(i) \/ AddClick(i) \/ BypassClick(i) \/ DeleteClick(i)
         \/ UseControl(i) \/ BrowseClick(i)
  \/ \E p \in Plugins : AddOk(p) \/ AddOkFails(p) \/ StressAdd(p)
  \/ \E f \in Presets : ImportBegin(f)
  \/ AddCancel
  \/ ImportSkip \/ ImportLoad \/ ImportValues \/ ImportFails \/ ImportMissing
  \/ ImportBoxClosed \/ ImportEnd \/ ImportCorrupt \/ CorruptBoxClosed
  \/ BrowseDone \/ BrowseFaults
  \/ StressStart \/ StressAddFails \/ StressDelete \/ StressStop \/ Rescale

\* A fault ends a behaviour.
Spec == Init /\ [][Next]_vars

-----------------------------------------------------------------------------
(* Properties.                                                             *)

\* The types of the variables.
EngineTypes ==
  engine \in [Slots -> Plugins \cup {None}] /\ on \in [Slots -> {"on", "off"}]
SlotTypes ==
  /\ shown \in [Slots -> Plugins \cup {None}] /\ slotEnabled \in [Slots -> {"on", "off"}]
  /\ label \in [Slots -> {"Bypass", "Enable"}] /\ panel \in [Slots -> WithParams \cup {None}]
ModalTypes ==
  /\ modal \in {"none", "add", "import", "importBox", "corruptBox", "browse"}
  /\ at \in 1 .. N + 1
  /\ modal \in {"add", "importBox", "browse"} => at \in Slots
  /\ preset \in Presets /\ dangling \in BOOLEAN
FlagTypes ==
  /\ isPro \in BOOLEAN /\ stressActive \in BOOLEAN /\ stressAdded \in BOOLEAN
  /\ troubled \in BOOLEAN /\ fault \in {"none", "missing", "range", "path"}
TypeOK == EngineTypes /\ SlotTypes /\ ModalTypes /\ FlagTypes

\* What is heard is seen: a plugin in the engine is named in its slot, with Bypass and
\* Delete enabled, after any mixture of edits, imports and stress test ticks.  (The
\* converse fails: after a failed load the slot shows a plugin that is not there.)
SlotTells == \A i \in Slots : engine[i] # None => shown[i] = engine[i]

\* A plugin with parameters has its own controls on the panel, not those of one that
\* was in the slot before; and a slot that shows nothing has no controls.  (One without
\* parameters that Add puts in their place inherits them: PluginSlot.cpp:147.)
PanelFits ==
  \A i \in Slots :
    /\ engine[i] \in WithParams => panel[i] = engine[i]
    /\ panel[i] # None => shown[i] # None

\* A plugin that is off can be told from one that is on, and turned on again: its
\* button says "Enable", and the flag that the next click inverts is the one the engine
\* has; only the stress test, which works on the first slot, leaves the flags apart.
\* (The converse fails: Add and import turn a bypassed slot on and leave "Enable".)
BypassAgrees ==
  \A i \in Slots : engine[i] # None =>
    /\ on[i] = "off" => label[i] = "Enable"
    /\ ~(i = 1 /\ troubled) => on[i] = slotEnabled[i]

\* An import that met no trouble has restored the preset: every slot it names holds
\* its plugin, enabled, with its controls (docs/milestone-12.md:12).
ImportRestores ==
  modal = "import" /\ at > N /\ ~troubled =>
    \A i \in Slots : preset[i] \in Plugins =>
      /\ engine[i] = preset[i] /\ on[i] = "on"
      /\ preset[i] \in WithParams => panel[i] = preset[i]
=============================================================================
