-------------------------- MODULE PluginSlotsProofs --------------------------
(***************************************************************************)
(* The slots of PluginSlots for every number of slots and every set of     *)
(* plugins.  Nothing is taken from the engine without the panel and the    *)
(* slot being brought along in the same handler, or `troubled' being set.  *)
(***************************************************************************)
EXTENDS PluginSlots, TLAPS

USE SlotsAssumption, NoneAssumption, PluginsAssumption

\* Only a stress test that was started ticks; the box after a failed load is trouble.
TroubleInv == (stressActive \/ modal = "importBox") => troubled

\* What an import has restored so far.
ImportInv ==
  modal = "import" /\ ~troubled =>
    \A i \in Slots : i < at /\ preset[i] \in Plugins =>
      /\ engine[i] = preset[i] /\ on[i] = "on"
      /\ preset[i] \in WithParams => panel[i] = preset[i]

SlotInv == SlotTells /\ PanelFits /\ BypassAgrees
IInv == TypeOK /\ SlotInv /\ TroubleInv /\ ImportInv

\* The invariant holds when the window opens with empty slots.
LEMMA InitInv == Init => IInv
<1> SUFFICES ASSUME Init PROVE IInv
  OBVIOUS
<1> USE DEF Init, Slots
<1>1. EngineTypes /\ SlotTypes
  BY SMT DEF EngineTypes, SlotTypes
<1>4. ModalTypes
  <2>1. preset \in Presets
    BY SMT DEF Presets
  <2>2. at \in 1 .. N + 1
    BY SMT
  <2> QED
    BY <2>1, <2>2, Zenon DEF ModalTypes
<1>5. FlagTypes
  BY Zenon DEF FlagTypes
<1>2. SlotInv
  BY SMT DEF SlotInv, SlotTells, PanelFits, BypassAgrees
<1>3. TroubleInv /\ ImportInv
  BY SMT DEF TroubleInv, ImportInv
<1> QED
  BY <1>1, <1>2, <1>3, <1>4, <1>5 DEF IInv, TypeOK

-----------------------------------------------------------------------------
(* The types.                                                              *)

\* A function updated with a value of its range keeps its type.
LEMMA Put == ASSUME NEW S, NEW T, NEW g \in [S -> T], NEW i, NEW v \in T
             PROVE  [g EXCEPT ![i] = v] \in [S -> T]
  BY Zenon

\* The slots before the next one.
LEMMA Inside == \A a \in 1 .. N + 1 : a <= N => a \in Slots
  BY SMT DEF Slots
\* A slot before the next one is this one or before it.
LEMMA Before == \A a \in 1 .. N + 1, i \in Slots : i < a + 1 => i < a \/ i = a
  BY SMT DEF Slots

\* The types of the engine's side.
LEMMA NextEngineTypes == IInv /\ [Next]_vars => EngineTypes'
<1> SUFFICES ASSUME IInv, [Next]_vars PROVE EngineTypes'
  OBVIOUS
<1> USE DEF IInv, TypeOK, EngineTypes, ModalTypes, Slots, Presets, engineVars, slotVars,
            modalVars, stressVars, Ready, Pumping
<1>1. ASSUME NEW i \in Slots, UpgradeClick(i) PROVE EngineTypes'
  BY <1>1, SMT DEF UpgradeClick
<1>2. ASSUME NEW i \in Slots, AddClick(i) PROVE EngineTypes'
  BY <1>2, SMT DEF AddClick
<1>3. ASSUME NEW i \in Slots, BypassClick(i) PROVE EngineTypes'
  BY <1>3, SMT DEF BypassClick, Opposite
<1>4. ASSUME NEW i \in Slots, DeleteClick(i) PROVE EngineTypes'
  BY <1>4, SMT DEF DeleteClick, Emptied, ClearPanel, Shows
<1>5. ASSUME NEW i \in Slots, UseControl(i) PROVE EngineTypes'
  BY <1>5, SMT DEF UseControl
<1>6. ASSUME NEW i \in Slots, BrowseClick(i) PROVE EngineTypes'
  BY <1>6, SMT DEF BrowseClick
<1>7. ASSUME NEW p \in Plugins, AddOk(p) PROVE EngineTypes'
  <2>1. engine \in [Slots -> Plugins \cup {None}] /\ on \in [Slots -> {"on", "off"}]
    OBVIOUS
  <2>2. engine' \in [Slots -> Plugins \cup {None}]
    BY <1>7, <2>1, Put, Zenon DEF AddOk, Loaded
  <2>3. on' \in [Slots -> {"on", "off"}]
    BY <1>7, <2>1, Put, Zenon DEF AddOk, Loaded
  <2> QED
    BY <2>2, <2>3
<1>8. ASSUME NEW p \in Plugins, AddOkFails(p) PROVE EngineTypes'
  <2>1. engine \in [Slots -> Plugins \cup {None}] /\ on \in [Slots -> {"on", "off"}]
    OBVIOUS
  <2>2. engine' \in [Slots -> Plugins \cup {None}]
    BY <1>8, <2>1, Put, Zenon DEF AddOkFails, Emptied
  <2>3. on' \in [Slots -> {"on", "off"}]
    BY <1>8, <2>1, Put, Zenon DEF AddOkFails, Emptied
  <2> QED
    BY <2>2, <2>3
<1>9. ASSUME NEW p \in Plugins, StressAdd(p) PROVE EngineTypes'
  BY <1>9, SMT DEF StressAdd, Loaded, BuildPanel, Shows
<1>10. ASSUME NEW f \in Presets, ImportBegin(f) PROVE EngineTypes'
  BY <1>10, SMT DEF ImportBegin
<1>11. CASE AddCancel
  BY <1>11, SMT DEF AddCancel
<1>12. CASE ImportSkip
  BY <1>12, SMT DEF ImportSkip
<1>13. CASE ImportLoad
  <2>1. engine \in [Slots -> Plugins \cup {None}] /\ on \in [Slots -> {"on", "off"}]
    OBVIOUS
  <2>2. engine' \in [Slots -> Plugins \cup {None}]
    BY <1>13, <2>1, Put, Zenon DEF ImportLoad, Loaded
  <2>3. on' \in [Slots -> {"on", "off"}]
    BY <1>13, <2>1, Put, Zenon DEF ImportLoad, Loaded
  <2> QED
    BY <2>2, <2>3
<1>14. CASE ImportFails
  <2>1. engine \in [Slots -> Plugins \cup {None}] /\ on \in [Slots -> {"on", "off"}]
    OBVIOUS
  <2>2. engine' \in [Slots -> Plugins \cup {None}]
    BY <1>14, <2>1, Put, Zenon DEF ImportFails, Emptied
  <2>3. on' \in [Slots -> {"on", "off"}]
    BY <1>14, <2>1, Put, Zenon DEF ImportFails, Emptied
  <2> QED
    BY <2>2, <2>3
<1>15. CASE ImportMissing
  BY <1>15, SMT DEF ImportMissing
<1>16. CASE ImportBoxClosed
  BY <1>16, SMT DEF ImportBoxClosed
<1>17. CASE ImportEnd
  BY <1>17, SMT DEF ImportEnd
<1>18. CASE BrowseDone
  BY <1>18, SMT DEF BrowseDone
<1>19. CASE BrowseFaults
  BY <1>19, SMT DEF BrowseFaults
<1>20. CASE StressStart
  BY <1>20, SMT DEF StressStart
<1>21. CASE StressAddFails
  BY <1>21, SMT DEF StressAddFails, Emptied
<1>22. CASE StressDelete
  BY <1>22, SMT DEF StressDelete, Emptied, ClearPanel, Shows
<1>23. CASE StressStop
  <2>1. CASE Emptied(1)
    BY <1>23, <2>1, SMT DEF StressStop, Emptied
  <2>2. CASE UNCHANGED engineVars
    BY <2>2, SMT
  <2> QED
    BY <1>23, <2>1, <2>2, Zenon DEF StressStop
<1>24. CASE Rescale
  BY <1>24, SMT DEF Rescale
<1>25. CASE UNCHANGED vars
  BY <1>25, SMT DEF vars
<1>26. CASE ImportValues
  BY <1>26, SMT DEF ImportValues
<1>27. CASE ImportCorrupt
  BY <1>27, SMT DEF ImportCorrupt
<1>28. CASE CorruptBoxClosed
  BY <1>28, SMT DEF CorruptBoxClosed
<1> QED
  BY <1>1, <1>2, <1>3, <1>4, <1>5, <1>6, <1>7, <1>8, <1>9, <1>10, <1>11, <1>12, <1>13,
     <1>14, <1>15, <1>16, <1>17, <1>18, <1>19, <1>20, <1>21, <1>22, <1>23, <1>24, <1>25, <1>26,
     <1>27, <1>28, Zenon DEF Next

\* The types of what a slot shows.
LEMMA NextSlotTypes == IInv /\ [Next]_vars => SlotTypes'
<1> SUFFICES ASSUME IInv, [Next]_vars PROVE SlotTypes'
  OBVIOUS
<1> USE DEF IInv, TypeOK, EngineTypes, SlotTypes, ModalTypes, Slots, Presets, engineVars,
            slotVars, modalVars, stressVars, Ready, Pumping
<1>1. ASSUME NEW i \in Slots, UpgradeClick(i) PROVE SlotTypes'
  BY <1>1, SMT DEF UpgradeClick
<1>2. ASSUME NEW i \in Slots, AddClick(i) PROVE SlotTypes'
  BY <1>2, SMT DEF AddClick
<1>3. ASSUME NEW i \in Slots, BypassClick(i) PROVE SlotTypes'
  BY <1>3, SMT DEF BypassClick, Opposite
<1>4. ASSUME NEW i \in Slots, DeleteClick(i) PROVE SlotTypes'
  BY <1>4, SMT DEF DeleteClick, Emptied, ClearPanel, Shows
<1>5. ASSUME NEW i \in Slots, UseControl(i) PROVE SlotTypes'
  BY <1>5, SMT DEF UseControl
<1>6. ASSUME NEW i \in Slots, BrowseClick(i) PROVE SlotTypes'
  BY <1>6, SMT DEF BrowseClick
<1>7. ASSUME NEW p \in Plugins, AddOk(p) PROVE SlotTypes'
  <2>1. /\ shown \in [Slots -> Plugins \cup {None}] /\ slotEnabled \in [Slots -> {"on", "off"}]
        /\ label \in [Slots -> {"Bypass", "Enable"}] /\ panel \in [Slots -> WithParams \cup {None}]
    OBVIOUS
  <2>2. shown' \in [Slots -> Plugins \cup {None}]
    BY <1>7, <2>1, Put, Zenon DEF AddOk, Shows
  <2>3. slotEnabled' \in [Slots -> {"on", "off"}]
    BY <1>7, <2>1, Put, Zenon DEF AddOk
  <2>4. panel' \in [Slots -> WithParams \cup {None}]
    <3>1. CASE p \in WithParams
      BY <1>7, <2>1, <3>1, Put, Zenon DEF AddOk, BuildPanel
    <3>2. CASE p \notin WithParams
      BY <1>7, <2>1, <3>2, Zenon DEF AddOk, BuildPanel
    <3> QED
      BY <3>1, <3>2
  <2>5. label' \in [Slots -> {"Bypass", "Enable"}]
    BY <1>7, <2>1, Put, Zenon DEF AddOk, Shows
  <2> QED
    BY <2>2, <2>3, <2>4, <2>5
<1>8. ASSUME NEW p \in Plugins, AddOkFails(p) PROVE SlotTypes'
  <2>1. /\ shown \in [Slots -> Plugins \cup {None}] /\ slotEnabled \in [Slots -> {"on", "off"}]
        /\ label \in [Slots -> {"Bypass", "Enable"}] /\ panel \in [Slots -> WithParams \cup {None}]
    OBVIOUS
  <2>2. shown' \in [Slots -> Plugins \cup {None}]
    BY <1>8, <2>1, Put, Zenon DEF AddOkFails, Shows
  <2>3. slotEnabled' \in [Slots -> {"on", "off"}]
    BY <1>8, <2>1, Put, Zenon DEF AddOkFails
  <2>4. panel' \in [Slots -> WithParams \cup {None}]
    BY <1>8, <2>1, Put, SMT DEF AddOkFails, BuildPanel
  <2>5. label' \in [Slots -> {"Bypass", "Enable"}]
    BY <1>8, <2>1, Put, Zenon DEF AddOkFails, Shows
  <2> QED
    BY <2>2, <2>3, <2>4, <2>5
<1>9. ASSUME NEW p \in Plugins, StressAdd(p) PROVE SlotTypes'
  BY <1>9, SMT DEF StressAdd, Loaded, BuildPanel, Shows
<1>10. ASSUME NEW f \in Presets, ImportBegin(f) PROVE SlotTypes'
  BY <1>10, SMT DEF ImportBegin
<1>11. CASE AddCancel
  BY <1>11, SMT DEF AddCancel
<1>12. CASE ImportSkip
  BY <1>12, SMT DEF ImportSkip
<1>13. CASE ImportLoad
  <2>1. /\ shown \in [Slots -> Plugins \cup {None}] /\ slotEnabled \in [Slots -> {"on", "off"}]
        /\ label \in [Slots -> {"Bypass", "Enable"}] /\ panel \in [Slots -> WithParams \cup {None}]
    OBVIOUS
  <2>2. shown' \in [Slots -> Plugins \cup {None}]
    BY <1>13, <2>1, Put, Zenon DEF ImportLoad, Shows
  <2>3. slotEnabled' \in [Slots -> {"on", "off"}]
    BY <1>13, <2>1, Put, Zenon DEF ImportLoad
  <2>4. panel' \in [Slots -> WithParams \cup {None}]
    <3>1. (IF preset[at] \in WithParams THEN preset[at] ELSE None) \in WithParams \cup {None}
      BY Zenon
    <3> QED
      BY <1>13, <2>1, <3>1, Put, Zenon DEF ImportLoad
  <2>5. label' \in [Slots -> {"Bypass", "Enable"}]
    BY <1>13, <2>1, Put, Zenon DEF ImportLoad, Shows
  <2> QED
    BY <2>2, <2>3, <2>4, <2>5
<1>14. CASE ImportFails
  BY <1>14, SMT DEF ImportFails, Emptied
<1>15. CASE ImportMissing
  BY <1>15, SMT DEF ImportMissing
<1>16. CASE ImportBoxClosed
  BY <1>16, SMT DEF ImportBoxClosed
<1>17. CASE ImportEnd
  BY <1>17, SMT DEF ImportEnd
<1>18. CASE BrowseDone
  BY <1>18, SMT DEF BrowseDone
<1>19. CASE BrowseFaults
  BY <1>19, SMT DEF BrowseFaults
<1>20. CASE StressStart
  BY <1>20, SMT DEF StressStart
<1>21. CASE StressAddFails
  BY <1>21, SMT DEF StressAddFails, Emptied
<1>22. CASE StressDelete
  BY <1>22, SMT DEF StressDelete, Emptied, ClearPanel, Shows
<1>23. CASE StressStop
  <2>1. CASE Shows(1, None) /\ ClearPanel(1)
    <3>1. /\ shown \in [Slots -> Plugins \cup {None}] /\ slotEnabled \in [Slots -> {"on", "off"}]
          /\ label \in [Slots -> {"Bypass", "Enable"}]
          /\ panel \in [Slots -> WithParams \cup {None}]
      OBVIOUS
    <3>2. shown' \in [Slots -> Plugins \cup {None}]
      BY <1>23, <2>1, <3>1, Put, Zenon DEF StressStop, Shows
    <3>3. slotEnabled' \in [Slots -> {"on", "off"}]
      BY <1>23, <2>1, <3>1, Put, Zenon DEF StressStop
    <3>4. panel' \in [Slots -> WithParams \cup {None}]
      BY <1>23, <2>1, <3>1, Put, SMT DEF StressStop, ClearPanel
    <3>5. label' \in [Slots -> {"Bypass", "Enable"}]
      BY <1>23, <2>1, <3>1, Put, Zenon DEF StressStop, Shows
    <3> QED
      BY <3>2, <3>3, <3>4, <3>5
  <2>2. CASE UNCHANGED <<panel, shown, label>>
    BY <1>23, <2>2, Zenon DEF StressStop
  <2> QED
    BY <1>23, <2>1, <2>2, Zenon DEF StressStop
<1>24. CASE Rescale
  BY <1>24, SMT DEF Rescale
<1>25. CASE UNCHANGED vars
  BY <1>25, SMT DEF vars
<1>26. CASE ImportValues
  BY <1>26, SMT DEF ImportValues
<1>27. CASE ImportCorrupt
  BY <1>27, SMT DEF ImportCorrupt
<1>28. CASE CorruptBoxClosed
  BY <1>28, SMT DEF CorruptBoxClosed
<1> QED
  BY <1>1, <1>2, <1>3, <1>4, <1>5, <1>6, <1>7, <1>8, <1>9, <1>10, <1>11, <1>12, <1>13,
     <1>14, <1>15, <1>16, <1>17, <1>18, <1>19, <1>20, <1>21, <1>22, <1>23, <1>24, <1>25, <1>26,
     <1>27, <1>28, Zenon DEF Next

\* The types of the modal windows.
LEMMA NextModalTypes == IInv /\ [Next]_vars => ModalTypes'
<1> SUFFICES ASSUME IInv, [Next]_vars PROVE ModalTypes'
  OBVIOUS
<1> USE DEF IInv, TypeOK, EngineTypes, SlotTypes, ModalTypes, FlagTypes, Slots, engineVars,
            slotVars, modalVars, stressVars, Ready, Pumping
<1>1. ASSUME NEW i \in Slots, UpgradeClick(i) PROVE ModalTypes'
  BY <1>1, SMT DEF UpgradeClick
<1>2. ASSUME NEW i \in Slots, AddClick(i) PROVE ModalTypes'
  BY <1>2, SMT DEF AddClick
<1>3. ASSUME NEW i \in Slots, BypassClick(i) PROVE ModalTypes'
  BY <1>3, SMT DEF BypassClick, Opposite
<1>4. ASSUME NEW i \in Slots, DeleteClick(i) PROVE ModalTypes'
  BY <1>4, SMT DEF DeleteClick, Emptied, ClearPanel, Shows
<1>5. ASSUME NEW i \in Slots, UseControl(i) PROVE ModalTypes'
  BY <1>5, SMT DEF UseControl
<1>6. ASSUME NEW i \in Slots, BrowseClick(i) PROVE ModalTypes'
  <2>1. dangling' \in BOOLEAN
    BY <1>6, Zenon DEF BrowseClick
  <2> QED
    BY <1>6, <2>1, SMT DEF BrowseClick
<1>7. ASSUME NEW p \in Plugins, AddOk(p) PROVE ModalTypes'
  BY <1>7, SMT DEF AddOk, Loaded, BuildPanel, Shows
<1>8. ASSUME NEW p \in Plugins, AddOkFails(p) PROVE ModalTypes'
  BY <1>8, SMT DEF AddOkFails, Emptied, BuildPanel, Shows
<1>9. ASSUME NEW p \in Plugins, StressAdd(p) PROVE ModalTypes'
  BY <1>9, SMT DEF StressAdd, Loaded, BuildPanel, Shows
<1>10. ASSUME NEW f \in Presets, ImportBegin(f) PROVE ModalTypes'
  BY <1>10, SMT DEF ImportBegin
<1>11. CASE AddCancel
  BY <1>11, SMT DEF AddCancel
<1>12. CASE ImportSkip
  BY <1>12, SMT DEF ImportSkip
<1>13. CASE ImportLoad
  BY <1>13, SMT DEF ImportLoad, Loaded, Shows
<1>14. CASE ImportFails
  BY <1>14, SMT DEF ImportFails, Emptied
<1>15. CASE ImportMissing
  BY <1>15, SMT DEF ImportMissing
<1>16. CASE ImportBoxClosed
  BY <1>16, SMT DEF ImportBoxClosed
<1>17. CASE ImportEnd
  <2>1. preset' \in Presets
    BY <1>17, SMT DEF ImportEnd, Presets
  <2>2. modal' = "none" /\ at' \in 1 .. N + 1
    BY <1>17, SMT DEF ImportEnd
  <2>3. dangling' \in BOOLEAN
    BY <1>17, Zenon DEF ImportEnd
  <2>4. /\ modal' \in {"none", "add", "import", "importBox", "corruptBox", "browse"}
        /\ modal' \notin {"add", "importBox", "browse"}
    BY <2>2, Zenon
  <2> QED
    BY <2>1, <2>2, <2>3, <2>4, Zenon
<1>18. CASE BrowseDone
  <2>1. dangling' \in BOOLEAN
    BY <1>18, Zenon DEF BrowseDone
  <2> QED
    BY <1>18, <2>1, SMT DEF BrowseDone
<1>19. CASE BrowseFaults
  BY <1>19, SMT DEF BrowseFaults
<1>20. CASE StressStart
  BY <1>20, SMT DEF StressStart
<1>21. CASE StressAddFails
  BY <1>21, SMT DEF StressAddFails, Emptied
<1>22. CASE StressDelete
  BY <1>22, SMT DEF StressDelete, Emptied, ClearPanel, Shows
<1>23. CASE StressStop
  BY <1>23, SMT DEF StressStop, Emptied, ClearPanel, Shows
<1>24. CASE Rescale
  BY <1>24, SMT DEF Rescale
<1>25. CASE UNCHANGED vars
  BY <1>25, SMT DEF vars
<1>26. CASE ImportValues
  BY <1>26, SMT DEF ImportValues
<1>27. CASE ImportCorrupt
  BY <1>27, SMT DEF ImportCorrupt
<1>28. CASE CorruptBoxClosed
  BY <1>28, SMT DEF CorruptBoxClosed
<1> QED
  BY <1>1, <1>2, <1>3, <1>4, <1>5, <1>6, <1>7, <1>8, <1>9, <1>10, <1>11, <1>12, <1>13,
     <1>14, <1>15, <1>16, <1>17, <1>18, <1>19, <1>20, <1>21, <1>22, <1>23, <1>24, <1>25, <1>26,
     <1>27, <1>28, Zenon DEF Next

\* The types of the rest.
LEMMA NextFlagTypes == IInv /\ [Next]_vars => FlagTypes'
<1> SUFFICES ASSUME IInv, [Next]_vars PROVE FlagTypes'
  OBVIOUS
<1> USE DEF IInv, TypeOK, FlagTypes, engineVars, slotVars, modalVars, stressVars, Ready, Pumping
<1>1. ASSUME NEW i \in Slots, UpgradeClick(i) PROVE FlagTypes'
  BY <1>1, SMT DEF UpgradeClick
<1>2. ASSUME NEW i \in Slots, AddClick(i) PROVE FlagTypes'
  BY <1>2, SMT DEF AddClick
<1>3. ASSUME NEW i \in Slots, BypassClick(i) PROVE FlagTypes'
  BY <1>3, SMT DEF BypassClick, Opposite
<1>4. ASSUME NEW i \in Slots, DeleteClick(i) PROVE FlagTypes'
  BY <1>4, SMT DEF DeleteClick, Emptied, ClearPanel, Shows
<1>5. ASSUME NEW i \in Slots, UseControl(i) PROVE FlagTypes'
  BY <1>5, SMT DEF UseControl
<1>6. ASSUME NEW i \in Slots, BrowseClick(i) PROVE FlagTypes'
  BY <1>6, SMT DEF BrowseClick
<1>7. ASSUME NEW p \in Plugins, AddOk(p) PROVE FlagTypes'
  BY <1>7, SMT DEF AddOk, Loaded, BuildPanel, Shows
<1>8. ASSUME NEW p \in Plugins, AddOkFails(p) PROVE FlagTypes'
  BY <1>8, SMT DEF AddOkFails, Emptied, BuildPanel, Shows
<1>9. ASSUME NEW p \in Plugins, StressAdd(p) PROVE FlagTypes'
  BY <1>9, SMT DEF StressAdd, Loaded, BuildPanel, Shows
<1>10. ASSUME NEW f \in Presets, ImportBegin(f) PROVE FlagTypes'
  BY <1>10, SMT DEF ImportBegin
<1>11. CASE AddCancel
  BY <1>11, SMT DEF AddCancel
<1>12. CASE ImportSkip
  BY <1>12, SMT DEF ImportSkip
<1>13. CASE ImportLoad
  BY <1>13, SMT DEF ImportLoad, Loaded, Shows
<1>14. CASE ImportFails
  BY <1>14, SMT DEF ImportFails, Emptied
<1>15. CASE ImportMissing
  BY <1>15, SMT DEF ImportMissing
<1>16. CASE ImportBoxClosed
  BY <1>16, SMT DEF ImportBoxClosed
<1>17. CASE ImportEnd
  BY <1>17, SMT DEF ImportEnd
<1>18. CASE BrowseDone
  BY <1>18, SMT DEF BrowseDone
<1>19. CASE BrowseFaults
  BY <1>19, SMT DEF BrowseFaults
<1>20. CASE StressStart
  <2>1. stressActive' \in BOOLEAN /\ stressAdded' \in BOOLEAN /\ troubled' \in BOOLEAN
    BY <1>20, Zenon DEF StressStart
  <2> QED
    BY <1>20, <2>1, SMT DEF StressStart
<1>21. CASE StressAddFails
  BY <1>21, SMT DEF StressAddFails, Emptied
<1>22. CASE StressDelete
  <2>1. stressAdded' \in BOOLEAN
    BY <1>22, Zenon DEF StressDelete
  <2> QED
    BY <1>22, <2>1, SMT DEF StressDelete
<1>23. CASE StressStop
  <2>1. stressActive' \in BOOLEAN /\ stressAdded' \in BOOLEAN
    BY <1>23, Zenon DEF StressStop
  <2> QED
    BY <1>23, <2>1, SMT DEF StressStop
<1>24. CASE Rescale
  BY <1>24, SMT DEF Rescale
<1>25. CASE UNCHANGED vars
  BY <1>25, SMT DEF vars
<1>26. CASE ImportValues
  BY <1>26, SMT DEF ImportValues
<1>27. CASE ImportCorrupt
  BY <1>27, SMT DEF ImportCorrupt
<1>28. CASE CorruptBoxClosed
  BY <1>28, SMT DEF CorruptBoxClosed
<1> QED
  BY <1>1, <1>2, <1>3, <1>4, <1>5, <1>6, <1>7, <1>8, <1>9, <1>10, <1>11, <1>12, <1>13,
     <1>14, <1>15, <1>16, <1>17, <1>18, <1>19, <1>20, <1>21, <1>22, <1>23, <1>24, <1>25, <1>26,
     <1>27, <1>28, Zenon DEF Next

-----------------------------------------------------------------------------
(* Engine and slot.                                                        *)

\* Every step keeps slot, panel and Bypass button with the engine.
LEMMA NextSlot == IInv /\ [Next]_vars => SlotInv'
<1> SUFFICES ASSUME IInv, [Next]_vars PROVE SlotInv'
  OBVIOUS
<1> USE DEF IInv, TypeOK, EngineTypes, SlotTypes, ModalTypes, FlagTypes, SlotInv, SlotTells,
            PanelFits, BypassAgrees, TroubleInv, Slots, Presets, engineVars, slotVars,
            modalVars, stressVars, Ready, Pumping
<1>1. ASSUME NEW i \in Slots, UpgradeClick(i) PROVE SlotInv'
  BY <1>1, SMT DEF UpgradeClick
<1>2. ASSUME NEW i \in Slots, AddClick(i) PROVE SlotInv'
  BY <1>2, SMT DEF AddClick
<1>3. ASSUME NEW i \in Slots, BypassClick(i) PROVE SlotInv'
  BY <1>3, SMT DEF BypassClick, Opposite
<1>4. ASSUME NEW i \in Slots, DeleteClick(i) PROVE SlotInv'
  BY <1>4, SMT DEF DeleteClick, Emptied, ClearPanel, Shows
<1>5. ASSUME NEW i \in Slots, UseControl(i) PROVE SlotInv'
  BY <1>5, SMT DEF UseControl
<1>6. ASSUME NEW i \in Slots, BrowseClick(i) PROVE SlotInv'
  BY <1>6, SMT DEF BrowseClick
<1>7. ASSUME NEW p \in Plugins, AddOk(p) PROVE SlotInv'
  BY <1>7, SMT DEF AddOk, Loaded, BuildPanel, Shows
<1>8. ASSUME NEW p \in Plugins, AddOkFails(p) PROVE SlotInv'
  BY <1>8, SMT DEF AddOkFails, Emptied, BuildPanel, Shows
<1>9. ASSUME NEW p \in Plugins, StressAdd(p) PROVE SlotInv'
  BY <1>9, SMT DEF StressAdd, Loaded, BuildPanel, Shows
<1>10. ASSUME NEW f \in Presets, ImportBegin(f) PROVE SlotInv'
  BY <1>10, SMT DEF ImportBegin
<1>11. CASE AddCancel
  BY <1>11, SMT DEF AddCancel
<1>12. CASE ImportSkip
  BY <1>12, SMT DEF ImportSkip
<1>13. CASE ImportLoad
  BY <1>13, SMT DEF ImportLoad, Loaded, Shows
<1>14. CASE ImportFails
  BY <1>14, SMT DEF ImportFails, Emptied
<1>15. CASE ImportMissing
  BY <1>15, SMT DEF ImportMissing
<1>16. CASE ImportBoxClosed
  BY <1>16, SMT DEF ImportBoxClosed
<1>17. CASE ImportEnd
  BY <1>17, SMT DEF ImportEnd
<1>18. CASE BrowseDone
  BY <1>18, SMT DEF BrowseDone
<1>19. CASE BrowseFaults
  BY <1>19, SMT DEF BrowseFaults
<1>20. CASE StressStart
  BY <1>20, SMT DEF StressStart
<1>21. CASE StressAddFails
  BY <1>21, SMT DEF StressAddFails, Emptied
<1>22. CASE StressDelete
  BY <1>22, SMT DEF StressDelete, Emptied, ClearPanel, Shows
<1>23. CASE StressStop
  <2>1. CASE Emptied(1) /\ ClearPanel(1) /\ Shows(1, None)
    BY <1>23, <2>1, SMT DEF StressStop, Emptied, ClearPanel, Shows
  <2>2. CASE UNCHANGED <<engineVars, panel, dangling, shown, label>>
    BY <1>23, <2>2, SMT DEF StressStop
  <2> QED
    BY <1>23, <2>1, <2>2, Zenon DEF StressStop
<1>24. CASE Rescale
  BY <1>24, SMT DEF Rescale
<1>25. CASE UNCHANGED vars
  BY <1>25, SMT DEF vars
<1>26. CASE ImportValues
  BY <1>26, SMT DEF ImportValues
<1>27. CASE ImportCorrupt
  BY <1>27, SMT DEF ImportCorrupt
<1>28. CASE CorruptBoxClosed
  BY <1>28, SMT DEF CorruptBoxClosed
<1> QED
  BY <1>1, <1>2, <1>3, <1>4, <1>5, <1>6, <1>7, <1>8, <1>9, <1>10, <1>11, <1>12, <1>13,
     <1>14, <1>15, <1>16, <1>17, <1>18, <1>19, <1>20, <1>21, <1>22, <1>23, <1>24, <1>25, <1>26,
     <1>27, <1>28, Zenon DEF Next

\* A stress test and a failed load are trouble.
LEMMA NextTrouble == IInv /\ [Next]_vars => TroubleInv'
<1> SUFFICES ASSUME IInv, [Next]_vars PROVE TroubleInv'
  OBVIOUS
<1> USE DEF IInv, TypeOK, EngineTypes, SlotTypes, ModalTypes, FlagTypes, SlotInv, SlotTells,
            TroubleInv, Slots, Presets, engineVars, slotVars, modalVars, stressVars, Ready,
            Pumping
<1>1. ASSUME NEW i \in Slots, UpgradeClick(i) PROVE TroubleInv'
  BY <1>1, SMT DEF UpgradeClick
<1>2. ASSUME NEW i \in Slots, AddClick(i) PROVE TroubleInv'
  BY <1>2, SMT DEF AddClick
<1>3. ASSUME NEW i \in Slots, BypassClick(i) PROVE TroubleInv'
  BY <1>3, SMT DEF BypassClick, Opposite
<1>4. ASSUME NEW i \in Slots, DeleteClick(i) PROVE TroubleInv'
  BY <1>4, SMT DEF DeleteClick, Emptied, ClearPanel, Shows
<1>5. ASSUME NEW i \in Slots, UseControl(i) PROVE TroubleInv'
  BY <1>5, SMT DEF UseControl
<1>6. ASSUME NEW i \in Slots, BrowseClick(i) PROVE TroubleInv'
  BY <1>6, SMT DEF BrowseClick
<1>7. ASSUME NEW p \in Plugins, AddOk(p) PROVE TroubleInv'
  BY <1>7, SMT DEF AddOk, Loaded, BuildPanel, Shows
<1>8. ASSUME NEW p \in Plugins, AddOkFails(p) PROVE TroubleInv'
  BY <1>8, SMT DEF AddOkFails, Emptied, BuildPanel, Shows
<1>9. ASSUME NEW p \in Plugins, StressAdd(p) PROVE TroubleInv'
  BY <1>9, SMT DEF StressAdd, Loaded, BuildPanel, Shows
<1>10. ASSUME NEW f \in Presets, ImportBegin(f) PROVE TroubleInv'
  BY <1>10, SMT DEF ImportBegin
<1>11. CASE AddCancel
  BY <1>11, SMT DEF AddCancel
<1>12. CASE ImportSkip
  BY <1>12, SMT DEF ImportSkip
<1>13. CASE ImportLoad
  BY <1>13, SMT DEF ImportLoad, Loaded, Shows
<1>14. CASE ImportFails
  BY <1>14, SMT DEF ImportFails, Emptied
<1>15. CASE ImportMissing
  BY <1>15, SMT DEF ImportMissing
<1>16. CASE ImportBoxClosed
  BY <1>16, SMT DEF ImportBoxClosed
<1>17. CASE ImportEnd
  BY <1>17, SMT DEF ImportEnd
<1>18. CASE BrowseDone
  BY <1>18, SMT DEF BrowseDone
<1>19. CASE BrowseFaults
  BY <1>19, SMT DEF BrowseFaults
<1>20. CASE StressStart
  BY <1>20, SMT DEF StressStart
<1>21. CASE StressAddFails
  BY <1>21, SMT DEF StressAddFails, Emptied
<1>22. CASE StressDelete
  BY <1>22, SMT DEF StressDelete, Emptied, ClearPanel, Shows
<1>23. CASE StressStop
  BY <1>23, SMT DEF StressStop, Emptied, ClearPanel, Shows
<1>24. CASE Rescale
  BY <1>24, SMT DEF Rescale
<1>25. CASE UNCHANGED vars
  BY <1>25, SMT DEF vars
<1>26. CASE ImportValues
  BY <1>26, SMT DEF ImportValues
<1>27. CASE ImportCorrupt
  BY <1>27, SMT DEF ImportCorrupt
<1>28. CASE CorruptBoxClosed
  BY <1>28, SMT DEF CorruptBoxClosed
<1> QED
  BY <1>1, <1>2, <1>3, <1>4, <1>5, <1>6, <1>7, <1>8, <1>9, <1>10, <1>11, <1>12, <1>13,
     <1>14, <1>15, <1>16, <1>17, <1>18, <1>19, <1>20, <1>21, <1>22, <1>23, <1>24, <1>25, <1>26,
     <1>27, <1>28, Zenon DEF Next

\* Every step of an import keeps what it has restored.
LEMMA NextImport == IInv /\ [Next]_vars => ImportInv'
<1> SUFFICES ASSUME IInv, [Next]_vars PROVE ImportInv'
  OBVIOUS
<1> USE DEF IInv, TypeOK, EngineTypes, SlotTypes, ModalTypes, FlagTypes, TroubleInv,
            ImportInv, Slots, Presets, engineVars, slotVars, modalVars, stressVars, Ready,
            Pumping
<1>1. ASSUME NEW i \in Slots, UpgradeClick(i) PROVE ImportInv'
  BY <1>1, SMT DEF UpgradeClick
<1>2. ASSUME NEW i \in Slots, AddClick(i) PROVE ImportInv'
  BY <1>2, SMT DEF AddClick
<1>3. ASSUME NEW i \in Slots, BypassClick(i) PROVE ImportInv'
  BY <1>3, SMT DEF BypassClick, Opposite
<1>4. ASSUME NEW i \in Slots, DeleteClick(i) PROVE ImportInv'
  BY <1>4, SMT DEF DeleteClick, Emptied, ClearPanel, Shows
<1>5. ASSUME NEW i \in Slots, UseControl(i) PROVE ImportInv'
  BY <1>5, SMT DEF UseControl
<1>6. ASSUME NEW i \in Slots, BrowseClick(i) PROVE ImportInv'
  BY <1>6, SMT DEF BrowseClick
<1>7. ASSUME NEW p \in Plugins, AddOk(p) PROVE ImportInv'
  BY <1>7, SMT DEF AddOk, Loaded, BuildPanel, Shows
<1>8. ASSUME NEW p \in Plugins, AddOkFails(p) PROVE ImportInv'
  BY <1>8, SMT DEF AddOkFails, Emptied, BuildPanel, Shows
<1>9. ASSUME NEW p \in Plugins, StressAdd(p) PROVE ImportInv'
  BY <1>9, SMT DEF StressAdd, Loaded, BuildPanel, Shows
<1>10. ASSUME NEW f \in Presets, ImportBegin(f) PROVE ImportInv'
  BY <1>10, SMT DEF ImportBegin
<1>11. CASE AddCancel
  BY <1>11, SMT DEF AddCancel
<1>12. CASE ImportSkip
  <2>1. /\ modal = "import" /\ preset[at] = None /\ at' = at + 1
        /\ UNCHANGED <<engine, on, panel, preset, troubled>>
    BY <1>12 DEF ImportSkip
  <2>2. \A i \in Slots : i < at + 1 /\ preset[i] \in Plugins => i < at
    BY <2>1, Before, Zenon
  <2> QED
    BY <2>1, <2>2, SMT
<1>13. CASE ImportLoad
  <2>1. at \in Slots /\ modal = "import" /\ at' = at + 1 /\ UNCHANGED <<preset, troubled>>
    BY <1>13, Inside, Zenon DEF ImportLoad
  <2>2. /\ engine' = [engine EXCEPT ![at] = preset[at]] /\ on' = [on EXCEPT ![at] = "on"]
        /\ panel' = [panel EXCEPT ![at] = IF preset[at] \in WithParams THEN preset[at] ELSE None]
    BY <1>13 DEF ImportLoad, Loaded
  <2>3. SUFFICES ASSUME ~troubled, NEW i \in Slots, i < at + 1, preset[i] \in Plugins
                 PROVE  /\ engine'[i] = preset[i] /\ on'[i] = "on"
                        /\ preset[i] \in WithParams => panel'[i] = preset[i]
    BY <2>1
  <2>4. CASE i = at
    BY <2>2, <2>4, SMT
  <2>5. CASE i < at
    BY <2>1, <2>2, <2>3, <2>5, SMT
  <2> QED
    BY <2>1, <2>3, <2>4, <2>5, SMT
<1>14. CASE ImportFails
  BY <1>14, SMT DEF ImportFails, Emptied
<1>15. CASE ImportMissing
  BY <1>15, SMT DEF ImportMissing
<1>16. CASE ImportBoxClosed
  <2>1. troubled'
    BY <1>16 DEF ImportBoxClosed
  <2> QED
    BY <2>1, Zenon
<1>17. CASE ImportEnd
  BY <1>17, SMT DEF ImportEnd
<1>18. CASE BrowseDone
  BY <1>18, SMT DEF BrowseDone
<1>19. CASE BrowseFaults
  BY <1>19, SMT DEF BrowseFaults
<1>20. CASE StressStart
  BY <1>20, SMT DEF StressStart
<1>21. CASE StressAddFails
  BY <1>21, SMT DEF StressAddFails, Emptied
<1>22. CASE StressDelete
  BY <1>22, SMT DEF StressDelete, Emptied, ClearPanel, Shows
<1>23. CASE StressStop
  BY <1>23, SMT DEF StressStop, Emptied, ClearPanel, Shows
<1>24. CASE Rescale
  BY <1>24, SMT DEF Rescale
<1>25. CASE UNCHANGED vars
  BY <1>25, SMT DEF vars
<1>26. CASE ImportValues
  BY <1>26, SMT DEF ImportValues
<1>27. CASE ImportCorrupt
  BY <1>27, SMT DEF ImportCorrupt
<1>28. CASE CorruptBoxClosed
  BY <1>28, SMT DEF CorruptBoxClosed
<1> QED
  BY <1>1, <1>2, <1>3, <1>4, <1>5, <1>6, <1>7, <1>8, <1>9, <1>10, <1>11, <1>12, <1>13,
     <1>14, <1>15, <1>16, <1>17, <1>18, <1>19, <1>20, <1>21, <1>22, <1>23, <1>24, <1>25, <1>26,
     <1>27, <1>28, Zenon DEF Next

-----------------------------------------------------------------------------
(* The theorems.                                                           *)

\* The inductive invariant holds in every reachable state.
LEMMA Inductive == Spec => []IInv
<1>1. IInv /\ [Next]_vars => IInv'
  BY NextEngineTypes, NextSlotTypes, NextModalTypes, NextFlagTypes, NextSlot, NextTrouble,
     NextImport, Zenon DEF IInv, TypeOK
<1> QED
  BY InitInv, <1>1, PTL DEF Spec

\* The variables keep their types, for every number of slots and set of plugins.
THEOREM TypeCorrect == Spec => []TypeOK
<1>1. IInv => TypeOK
  BY DEF IInv
<1> QED
  BY Inductive, <1>1, PTL

\* The handlers of MainWindow never leave a plugin in the engine that its slot does
\* not name.
THEOREM SlotsTell == Spec => []SlotTells
<1>1. IInv => SlotTells
  BY DEF IInv, SlotInv
<1> QED
  BY Inductive, <1>1, PTL

\* Nor one that is off beside a button that does not offer to enable it, or, but for the
\* stress test on the first slot, beside a flag that says it is on.
THEOREM BypassesAgree == Spec => []BypassAgrees
<1>1. IInv => BypassAgrees
  BY DEF IInv, SlotInv
<1> QED
  BY Inductive, <1>1, PTL

\* An import without trouble has restored every slot of the preset.
THEOREM ImportsRestore == Spec => []ImportRestores
<1>1. IInv => ImportRestores
  BY SMT DEF IInv, TypeOK, ModalTypes, ImportInv, ImportRestores, Slots
<1> QED
  BY Inductive, <1>1, PTL
=============================================================================
