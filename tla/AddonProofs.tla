---------------------------- MODULE AddonProofs -----------------------------
(***************************************************************************)
(* Theorems of the addon, for any layout files, overrides, preedits and    *)
(* input contexts:                                                         *)
(*   LoadedIsSound      what the loader lets through is sound;             *)
(*   TypeCorrect        every field keeps its type;                        *)
(*   RunsSoundLayouts   so is what the engine runs, whatever way it came;  *)
(*   UpdatesArrive      no saved file is forgotten by hot reload;          *)
(*   SettingsAreApplied configtool's overrides are in effect from the      *)
(*                      first selection that succeeds;                     *)
(*   TimerRuns          a composition has its timer;                       *)
(*   FocusShowsComposition  the panel with the focus shows the composition *)
(*                      or will.                                           *)
(***************************************************************************)
EXTENDS Addon, TLAPS

(* Any layout the loader lets through: every function key in it has an     *)
(* encoding for Mozc (the two tables of names agree, aliases included) and *)
(* a kanji sequence has one meaning.                                       *)
THEOREM LoadedIsSound ==
  ASSUME NEW doc, Loads(doc)
  PROVE  Sound(Compiled(doc))
<1> DEFINE layout == Compiled(doc)
<1>1. \A w : w.bang /\ w.name \in VALID_FUNCTION_KEYS => Sendable(w)
  BY DEF Sendable, VALID_FUNCTION_KEYS, SpecialKeys
<1>2. ASSUME NEW raw \in Outputs(layout), NEW w \in Range(Resolve(layout, raw))
      PROVE  Sendable(w)
  <2>1. Range(layout.aliases) \subseteq Outputs(layout)
    BY DEF Outputs
  <2>2. Resolve(layout, raw) \in Outputs(layout)
    BY <2>1 DEF Resolve, Range
  <2>3. w.bang => w.name \in VALID_FUNCTION_KEYS
    BY <2>2 DEF Loads, FunctionKeysKnown
  <2> QED BY <1>1, <2>3 DEF Sendable
<1>3. layout.directs = doc.directs /\ layout.modifiers = doc.modifiers
  BY DEF Compiled
<1>4. \A i, j \in DOMAIN layout.directs :
        layout.directs[i].sequence = layout.directs[j].sequence
          => layout.directs[i].output = layout.directs[j].output
  BY <1>3 DEF Loads, DirectsAgree
<1>5. \A m \in Range(layout.modifiers) : m.tapAction = "Output" => m.tapOutput # NoOutput
  BY <1>3 DEF Loads, TapOutputsFit
<1> QED BY <1>2, <1>4, <1>5 DEF Sound

-----------------------------------------------------------------------------
(* Every field keeps its type.                                             *)

Engines == [path : Paths, layout : Loadable, options : Options \cup {Follow}, shows : Results]
Panels  == [Ics -> [preedit : Texts \cup {None}, window : Windows \cup {None}]]

LEMMA EmptyResult == Empty \in Results
BY DEF Empty, Results

LEMMA ShownTypes ==
  ASSUME NEW ic \in Ics, NEW window \in Windows \cup {None}, panel \in Panels
  PROVE  /\ Visible(window) \in Windows \cup {None}
         /\ ShownWindow(ic, window) \in Windows \cup {None}
BY DEF Visible, ShownWindow, Panels

LEMMA ApplyTypes ==
  ASSUME AddonTypeOK, NEW ic \in Ics, NEW r \in Results, ApplyResult(ic, r)
  PROVE  /\ panel' \in Panels
         /\ lastPreedit' \in Texts \cup {None} /\ lastCandidates' \in Windows \cup {None}
         /\ timer' \in BOOLEAN /\ tickIc' \in Ics \cup {NoIc}
<1>1. r.preedit \in Texts \cup {None} /\ r.window \in Windows \cup {None}
  BY DEF Results
<1>2. panel \in Panels
  BY DEF AddonTypeOK, Panels
<1>3. Visible(r.window) \in Windows \cup {None}
  BY <1>1, <1>2, ShownTypes
<1>4. ShownWindow(ic, Visible(r.window)) \in Windows \cup {None}
  BY <1>2, <1>3, ShownTypes
<1>5. panel' \in Panels
  BY <1>1, <1>2, <1>4 DEF ApplyResult, Panels
<1> QED BY <1>1, <1>3, <1>5 DEF ApplyResult, AddonTypeOK

LEMMA ClearTypes ==
  ASSUME AddonTypeOK, NEW ic \in Ics, ClearPreedit(ic)
  PROVE  /\ panel' \in Panels
         /\ lastPreedit' \in Texts \cup {None} /\ lastCandidates' \in Windows \cup {None}
         /\ timer' \in BOOLEAN /\ tickIc' \in Ics \cup {NoIc}
BY DEF ClearPreedit, AddonTypeOK, Panels, Empty

LEMMA NewEngineType ==
  ASSUME AddonTypeOK, NEW path \in Paths, NEW options \in Options \cup {Follow},
         files[path] \in Loadable
  PROVE  NewEngine(path, options) \in Engines /\ NewEngine(path, options) # NoEngine
BY EmptyResult DEF NewEngine, Engines, NoEngine

LEMMA EngineKeepsType ==
  ASSUME AddonTypeOK, engine # NoEngine
  PROVE  /\ engine \in Engines
         /\ \A r \in Results : [engine EXCEPT !.shows = r] \in Engines
         /\ \A o \in Options : [engine EXCEPT !.options = o] \in Engines
BY DEF AddonTypeOK, Engines

LEMMA NoEngineIsNone == NoEngine \notin Engines
BY DEF NoEngine, Engines

(* The steps, by what they change of engine. *)

LEMMA LayoutSteps ==
  ASSUME AddonTypeOK, NEW c \in Configs,
         SelectLayout(c) \/ CannotSelect(c)
  PROVE  /\ engine' \in Engines \cup {NoEngine}
         /\ phase' \in {"create", "idle"}
         /\ lastLayoutPath' \in Paths \cup {Absent}
         /\ engine' = NoEngine => lastLayoutPath' = Absent /\ phase' # "create"
         /\ missed' \in BOOLEAN
<1>1. c.layout \in Paths /\ c.options \in Options /\ c.options \in Options \cup {Follow}
  BY DEF Configs
<1>2. lastLayoutPath \in Paths \cup {Absent} /\ missed \in BOOLEAN
      /\ engine \in Engines \cup {NoEngine}
      /\ (engine = NoEngine => lastLayoutPath = Absent)
  BY DEF AddonTypeOK, Engines
<1>3. CASE KeepLayout(c) /\ lastLayoutPath' = c.layout
  <2>1. engine' \in Engines
    BY <1>1, <1>3, EngineKeepsType DEF KeepLayout
  <2> QED BY <1>1, <1>2, <1>3, <2>1, NoEngineIsNone DEF KeepLayout
<1>4. CASE SwapLayout(c) /\ lastLayoutPath' = c.layout
  <2>1. engine' \in Engines /\ engine' # NoEngine
    BY <1>1, <1>4, NewEngineType DEF SwapLayout
  <2> QED BY <1>1, <1>2, <1>4, <2>1 DEF SwapLayout
<1>5. CASE Create(c.layout, c.options) /\ lastLayoutPath' = c.layout
  <2>1. engine' \in Engines /\ engine' # NoEngine
    BY <1>1, <1>5, NewEngineType DEF Create
  <2> QED BY <1>1, <1>2, <1>5, <2>1 DEF Create
<1>6. CASE CannotSelect(c)
  BY <1>2, <1>6 DEF CannotSelect
<1> QED BY <1>3, <1>4, <1>5, <1>6 DEF SelectLayout

LEMMA TryInitStep ==
  ASSUME AddonTypeOK, TryInit, phase = "idle"
  PROVE  /\ engine' \in Engines \cup {NoEngine}
         /\ phase' \in {"create", "idle"}
         /\ engine' = NoEngine => engine = NoEngine /\ phase' = "idle"
         /\ missed' \in BOOLEAN
<1>1. config.layout \in Paths /\ Follow \in Options \cup {Follow}
  BY DEF AddonTypeOK, Configs
<1>2. CASE Create(config.layout, Follow)
  BY <1>1, <1>2, NewEngineType DEF Create
<1>3. CASE UNCHANGED <<engine, phase, missed>>
  BY <1>3 DEF AddonTypeOK, Engines
<1> QED BY <1>2, <1>3 DEF TryInit

LEMMA ResetStep ==
  ASSUME AddonTypeOK, engine # NoEngine, ResetEngine
  PROVE  engine' \in Engines /\ engine' # NoEngine
BY EngineKeepsType, EmptyResult, NoEngineIsNone DEF ResetEngine

LEMMA TypeInit == AddonInit => AddonTypeOK
<1> SUFFICES ASSUME AddonInit PROVE AddonTypeOK
  OBVIOUS
<1>1. /\ raised \in BOOLEAN /\ notified \in BOOLEAN /\ timer \in BOOLEAN
      /\ missed \in BOOLEAN /\ carried \in BOOLEAN
  BY DEF AddonInit
<1>2. panel \in [Ics -> [preedit : Texts \cup {None}, window : Windows \cup {None}]]
  BY DEF AddonInit, Empty
<1> QED BY <1>1, <1>2 DEF AddonInit, AddonTypeOK

LEMMA TypeStep == AddonTypeOK /\ [AddonNext]_avars => AddonTypeOK'
<1> SUFFICES ASSUME AddonTypeOK, [AddonNext]_avars
             PROVE  AddonTypeOK'
  OBVIOUS
<1> USE DEF disk, cache, setting, hist
<1>t. /\ AddonTypeOK
      /\ engine \in Engines \cup {NoEngine} /\ panel \in Panels
  BY DEF AddonTypeOK, Engines, Panels
<1>1. CASE Watch
  BY <1>t, <1>1 DEF Watch, AddonTypeOK
<1>2. CASE CheckReload
  <2>1. engine # NoEngine /\ focus \in Ics \cup {NoIc} /\ engine.path \in Paths
        /\ engine.options \in Options \cup {Follow} /\ focus # NoIc
    BY <1>t, <1>2 DEF CheckReload, AddonTypeOK, Engines
  <2>2. CASE ClearPreedit(focus) /\ files[engine.path] \in Loadable
             /\ engine' = NewEngine(engine.path, engine.options) /\ missed' = FALSE
    <3>1. engine' \in Engines /\ engine' # NoEngine
      BY <2>1, <2>2, NewEngineType
    <3>2. /\ panel' \in Panels
          /\ lastPreedit' \in Texts \cup {None} /\ lastCandidates' \in Windows \cup {None}
          /\ timer' \in BOOLEAN /\ tickIc' \in Ics \cup {NoIc}
      BY <2>1, <2>2, ClearTypes
    <3> QED BY <1>t, <1>2, <2>2, <3>1, <3>2 DEF CheckReload, AddonTypeOK, Engines, Panels
  <2>3. CASE UNCHANGED <<engine, cache, panel, missed>>
    BY <1>t, <1>2, <2>1, <2>3 DEF CheckReload, AddonTypeOK
  <2> QED BY <1>2, <2>2, <2>3 DEF CheckReload
<1>3. ASSUME NEW c \in Configs, SetConfig(c) \/ ReloadConfig(c)
      PROVE  AddonTypeOK'
  <2>1. SelectLayout(c) \/ CannotSelect(c)
    BY <1>3 DEF SetConfig, ReloadConfig
  <2>2. /\ engine' \in Engines \cup {NoEngine}
        /\ phase' \in {"create", "idle"}
        /\ lastLayoutPath' \in Paths \cup {Absent}
        /\ engine' = NoEngine => lastLayoutPath' = Absent /\ phase' # "create"
        /\ missed' \in BOOLEAN
    BY <2>1, LayoutSteps
  <2>3. config' \in Configs /\ UNCHANGED <<disk, cache, panel, focus, carried>>
    BY <1>3 DEF SetConfig, ReloadConfig, AddonTypeOK
  <2> QED BY <2>2, <2>3 DEF AddonTypeOK, Engines
<1>4. ASSUME NEW r \in Results, KeyEvent(r)
      PROVE  AddonTypeOK'
  <2>1. focus \in Ics /\ engine # NoEngine
    BY <1>4 DEF KeyEvent, AddonTypeOK
  <2>2. engine' \in Engines /\ engine' # NoEngine
    BY <1>4, <2>1, EngineKeepsType, NoEngineIsNone DEF KeyEvent
  <2>3. /\ panel' \in Panels
        /\ lastPreedit' \in Texts \cup {None} /\ lastCandidates' \in Windows \cup {None}
        /\ timer' \in BOOLEAN /\ tickIc' \in Ics \cup {NoIc}
    BY <1>4, <2>1, ApplyTypes DEF KeyEvent
  <2>4. phase' \in {"idle", "reload"} /\ notified' = FALSE
    BY <1>4 DEF KeyEvent, Drain
  <2> QED BY <1>4, <2>1, <2>2, <2>3, <2>4 DEF KeyEvent, AddonTypeOK, Engines, Panels
<1>5. ASSUME NEW r \in Results, Tick(r)
      PROVE  AddonTypeOK'
  <2>1. CASE UNCHANGED <<engine, lastPreedit, lastCandidates, tickIc, panel>> /\ timer' = FALSE
    BY <1>5, <2>1 DEF Tick, AddonTypeOK
  <2>2. CASE tickIc # NoIc /\ engine' = [engine EXCEPT !.shows = r] /\ ApplyResult(tickIc, r)
    <3>1. tickIc \in Ics
      BY <2>2 DEF AddonTypeOK
    <3>2. /\ panel' \in Panels
          /\ lastPreedit' \in Texts \cup {None} /\ lastCandidates' \in Windows \cup {None}
          /\ timer' \in BOOLEAN /\ tickIc' \in Ics \cup {NoIc}
      BY <2>2, <3>1, ApplyTypes
    <3>3. engine' \in Engines /\ engine' # NoEngine
      BY <1>5, <2>2, EngineKeepsType, NoEngineIsNone DEF Tick
    <3> QED BY <1>5, <3>2, <3>3 DEF Tick, AddonTypeOK, Engines, Panels
  <2> QED BY <1>5, <2>1, <2>2 DEF Tick
<1>6. ASSUME NEW hasId \in BOOLEAN, SelectCandidate(hasId)
      PROVE  AddonTypeOK'
  <2>1. focus \in Ics
    BY <1>6 DEF SelectCandidate, AddonTypeOK
  <2>2. CASE ResetEngine /\ ClearPreedit(focus)
    BY <1>6, <2>1, <2>2, ClearTypes, ResetStep
            DEF SelectCandidate, AddonTypeOK, Engines, Panels
  <2>3. CASE UNCHANGED <<engine, cache, panel>>
    BY <1>6, <2>3 DEF SelectCandidate, AddonTypeOK
  <2> QED BY <1>6, <2>2, <2>3 DEF SelectCandidate
<1>7. ASSUME NEW ic \in Ics, Activate(ic)
      PROVE  AddonTypeOK'
  <2>1. TryInit /\ phase = "idle"
    BY <1>7 DEF Activate
  <2> QED BY <1>7, <2>1, TryInitStep DEF Activate, AddonTypeOK, Engines
<1>8. ASSUME NEW ic \in Ics, CloseContext(ic)
      PROVE  AddonTypeOK'
  BY <1>8 DEF CloseContext, AddonTypeOK, Empty
<1>9. CASE RetryInit
  <2>1. TryInit /\ phase = "idle"
    BY <1>9 DEF RetryInit
  <2> QED BY <1>9, <2>1, TryInitStep DEF RetryInit, AddonTypeOK, Engines
<1>10. CASE Deactivate
  <2>1. focus \in Ics
    BY <1>10 DEF Deactivate, AddonTypeOK
  <2>2. CASE UNCHANGED <<engine, cache, panel>> /\ carried' = (carried \/ lastPreedit # None)
    BY <1>10, <2>2 DEF Deactivate, AddonTypeOK
  <2>3. CASE ResetEngine /\ ClearPreedit(focus) /\ UNCHANGED carried
    BY <1>10, <2>1, <2>3, ClearTypes, ResetStep DEF Deactivate, AddonTypeOK, Engines, Panels
  <2>4. CASE ClearPreedit(focus) /\ UNCHANGED <<engine, carried>>
    BY <1>10, <2>1, <2>4, ClearTypes DEF Deactivate, AddonTypeOK, Panels
  <2> QED BY <1>10, <2>2, <2>3, <2>4 DEF Deactivate
<1>11. CASE ResetContext
  <2>1. focus \in Ics
    BY <1>11 DEF ResetContext, AddonTypeOK
  <2>2. engine' \in Engines \cup {NoEngine} /\ (engine' = NoEngine <=> engine = NoEngine)
    BY <1>t, <1>11, ResetStep DEF ResetContext
  <2> QED BY <1>11, <2>1, <2>2, ClearTypes DEF ResetContext, AddonTypeOK, Engines, Panels
<1>12. ASSUME NEW path \in Paths, NEW name \in DOMAIN Contents, EditFile(path, name)
       PROVE  AddonTypeOK'
  BY <1>12 DEF EditFile, AddonTypeOK
<1>13. CASE Notify
  <2>1. raised' \in BOOLEAN /\ notified' \in BOOLEAN
    BY <1>13 DEF Notify
  <2>2. UNCHANGED <<files, setting, engine, phase, cache, panel, focus, hist>>
    BY <1>13 DEF Notify
  <2> QED BY <1>t, <2>1, <2>2 DEF AddonTypeOK
<1>14. CASE UNCHANGED avars
  BY <1>14 DEF avars, AddonTypeOK
<1> QED
  BY <1>1, <1>2, <1>3, <1>4, <1>5, <1>6, <1>7, <1>8, <1>9, <1>10, <1>11, <1>12, <1>13, <1>14
  DEF AddonNext, TickSome

(* Every field of the addon keeps its type, and the engine a layout that   *)
(* loaded, whatever the files, the configuration and the threads do.       *)
THEOREM TypeCorrect == AddonSpec => []AddonTypeOK
BY TypeInit, TypeStep, PTL DEF AddonSpec

-----------------------------------------------------------------------------
(* What the engine runs.                                                   *)

(* Only layouts that load are ever running, so every word of the running   *)
(* layout can be sent to Mozc and every kanji sequence has one meaning.    *)
THEOREM RunsSoundLayouts == AddonSpec => []RunningLayoutSound
<1>1. ASSUME NEW name \in Loadable
      PROVE  name \in SoundLayouts
  BY <1>1, LoadedIsSound DEF SoundLayouts, LayoutOf, Loadable
<1>2. AddonTypeOK => RunningLayoutSound
  BY <1>1 DEF AddonTypeOK, RunningLayoutSound
<1> QED BY <1>2, TypeCorrect, PTL

LEMMA UpdateStep ==
  ASSUME AddonTypeOK, NoUpdateLost, [AddonNext]_avars
  PROVE  NoUpdateLost'
<1> USE DEF disk, cache, setting, hist, NoUpdateLost, Outdated
<1>1. CASE Watch
  BY <1>1 DEF Watch
<1>2. CASE CheckReload
  BY <1>2 DEF CheckReload, NewEngine
<1>3. ASSUME NEW c \in Configs, SelectLayout(c) \/ CannotSelect(c),
             phase # "reload", UNCHANGED disk
      PROVE  NoUpdateLost'
  <2>1. CASE KeepLayout(c)
    BY <1>3, <2>1 DEF KeepLayout, AddonTypeOK
  <2>2. CASE SwapLayout(c) \/ Create(c.layout, c.options)
    BY <1>3, <2>2 DEF SwapLayout, Create, NewEngine
  <2>3. CASE CannotSelect(c)
    BY <1>3, <2>3 DEF CannotSelect
  <2> QED BY <1>3, <2>1, <2>2, <2>3 DEF SelectLayout
<1>4. ASSUME NEW c \in Configs, SetConfig(c) \/ ReloadConfig(c)
      PROVE  NoUpdateLost'
  BY <1>3, <1>4 DEF SetConfig, ReloadConfig
<1>5. ASSUME NEW r \in Results, KeyEvent(r)
      PROVE  NoUpdateLost'
  BY <1>5 DEF KeyEvent, Drain, AddonTypeOK
<1>6. ASSUME NEW r \in Results, Tick(r)
      PROVE  NoUpdateLost'
  BY <1>6 DEF Tick, AddonTypeOK
<1>7. ASSUME ResetEngine, engine # NoEngine, UNCHANGED <<disk, phase, missed>>
      PROVE  NoUpdateLost'
  BY <1>7 DEF ResetEngine, AddonTypeOK
<1>8. ASSUME UNCHANGED <<disk, engine, phase, missed>>
      PROVE  NoUpdateLost'
  BY <1>8
<1>9. ASSUME TryInit, UNCHANGED disk, phase # "reload"
      PROVE  NoUpdateLost'
  BY <1>9 DEF TryInit, Create, NewEngine
<1>10. ASSUME NEW path \in Paths, NEW name \in DOMAIN Contents, EditFile(path, name)
       PROVE  NoUpdateLost'
  BY <1>10 DEF EditFile, AddonTypeOK
<1>11. CASE Notify
  BY <1>11 DEF Notify
<1>12. ASSUME NEW hasId \in BOOLEAN, SelectCandidate(hasId)
       PROVE  NoUpdateLost'
  BY <1>7, <1>8, <1>12 DEF SelectCandidate
<1>13. ASSUME NEW ic \in Ics, Activate(ic) \/ CloseContext(ic)
       PROVE  NoUpdateLost'
  BY <1>8, <1>9, <1>13 DEF Activate, CloseContext
<1>14. CASE RetryInit
  BY <1>9, <1>14 DEF RetryInit
<1>15. CASE Deactivate
  BY <1>7, <1>8, <1>15 DEF Deactivate
<1>16. CASE ResetContext
  BY <1>7, <1>8, <1>16 DEF ResetContext
<1>17. CASE UNCHANGED avars
  BY <1>8, <1>17 DEF avars
<1> QED
  BY <1>1, <1>2, <1>4, <1>5, <1>6, <1>10, <1>11, <1>12, <1>13, <1>14, <1>15, <1>16, <1>17
  DEF AddonNext, TickSome

(* Hot reload: a layout file that differs from the running layout has been *)
(* or will be announced, however saves, events and key events interleave,  *)
(* unless it was saved while the engine was being created.                 *)
THEOREM UpdatesArrive == AddonSpec => []NoUpdateLost
<1>1. AddonInit => NoUpdateLost
  BY DEF AddonInit, NoUpdateLost, Outdated
<1> QED BY <1>1, UpdateStep, TypeCorrect, PTL DEF AddonSpec

-----------------------------------------------------------------------------
(* The settings.  OptionsInEffect is inductive because it says which file  *)
(* an engine runs, not only its overrides, and what tryInitEngine's has:   *)
(* configtool's choice may differ from the running file for a while, and   *)
(* come back to it.                                                        *)

LEMMA SelectStep ==
  ASSUME AddonTypeOK, OptionsInEffect, NEW c \in Configs, SetConfig(c) \/ ReloadConfig(c)
  PROVE  OptionsInEffect'
<1> USE DEF OptionsInEffect
<1>1. c.layout \in Paths /\ c.layout # Absent
  BY AddonAssumption DEF Configs
<1>2. CASE KeepLayout(c) /\ lastLayoutPath' = c.layout /\ config' = c
  <2>1. engine' = [engine EXCEPT !.options = c.options] /\ engine.path = c.layout
    BY <1>1, <1>2 DEF KeepLayout
  <2>2. engine'.path = c.layout /\ engine'.options = c.options
    BY <1>2, <2>1 DEF KeepLayout, AddonTypeOK
  <2> QED BY <1>1, <1>2, <2>2
<1>3. CASE (SwapLayout(c) \/ Create(c.layout, c.options)) /\ lastLayoutPath' = c.layout
           /\ config' = c
  BY <1>1, <1>3 DEF SwapLayout, Create, NewEngine
<1>4. CASE CannotSelect(c) /\ config' = c
  BY <1>4 DEF CannotSelect
<1>5. CASE CannotSelect(c) /\ config' = config
  BY <1>5 DEF CannotSelect
<1> QED BY <1>2, <1>3, <1>4, <1>5 DEF SetConfig, ReloadConfig, SelectLayout

LEMMA SettingsStep ==
  ASSUME AddonTypeOK, OptionsInEffect, [AddonNext]_avars
  PROVE  OptionsInEffect'
<1> USE DEF disk, cache, setting, hist, OptionsInEffect
<1>1. ASSUME UNCHANGED setting,
             \/ engine' = engine
             \/ /\ engine # NoEngine
                /\ engine'.path = engine.path /\ engine'.options = engine.options
      PROVE  OptionsInEffect'
  BY <1>1
<1>2. ASSUME ResetEngine, engine # NoEngine, UNCHANGED setting
      PROVE  OptionsInEffect'
  BY <1>1, <1>2 DEF ResetEngine, AddonTypeOK
<1>3. ASSUME TryInit, UNCHANGED setting
      PROVE  OptionsInEffect'
  <2>1. CASE Create(config.layout, Follow)
    <3>1. lastLayoutPath = Absent
      BY <2>1 DEF Create, AddonTypeOK
    <3>2. engine'.options = Follow
      BY <2>1 DEF Create, NewEngine
    <3> QED BY <1>3, <3>1, <3>2
  <2> QED BY <1>1, <1>3, <2>1 DEF TryInit
<1>4. CASE Watch
  BY <1>1, <1>4 DEF Watch
<1>5. CASE CheckReload
  BY <1>1, <1>5 DEF CheckReload, NewEngine, AddonTypeOK
<1>6. ASSUME NEW c \in Configs, SetConfig(c) \/ ReloadConfig(c)
      PROVE  OptionsInEffect'
  BY <1>6, SelectStep
<1>7. ASSUME NEW r \in Results, KeyEvent(r)
      PROVE  OptionsInEffect'
  BY <1>1, <1>7 DEF KeyEvent, AddonTypeOK
<1>8. ASSUME NEW r \in Results, Tick(r)
      PROVE  OptionsInEffect'
  BY <1>1, <1>8 DEF Tick, AddonTypeOK
<1>9. ASSUME NEW hasId \in BOOLEAN, SelectCandidate(hasId)
      PROVE  OptionsInEffect'
  BY <1>1, <1>2, <1>9 DEF SelectCandidate
<1>10. ASSUME NEW ic \in Ics, Activate(ic) \/ CloseContext(ic)
       PROVE  OptionsInEffect'
  BY <1>1, <1>3, <1>10 DEF Activate, CloseContext
<1>11. CASE RetryInit
  BY <1>3, <1>11 DEF RetryInit
<1>12. CASE Deactivate
  BY <1>1, <1>2, <1>12 DEF Deactivate
<1>13. CASE ResetContext
  BY <1>1, <1>2, <1>13 DEF ResetContext
<1>14. ASSUME NEW path \in Paths, NEW name \in DOMAIN Contents, EditFile(path, name)
       PROVE  OptionsInEffect'
  BY <1>1, <1>14 DEF EditFile
<1>15. CASE Notify
  BY <1>1, <1>15 DEF Notify
<1>16. CASE UNCHANGED avars
  BY <1>1, <1>16 DEF avars
<1> QED
  BY <1>4, <1>5, <1>6, <1>7, <1>8, <1>9, <1>10, <1>11, <1>12, <1>13, <1>14, <1>15, <1>16
  DEF AddonNext, TickSome

(* After the first selection that succeeded, an engine that runs the file  *)
(* config_ names has config_'s overrides, whichever of the ways to select  *)
(* a layout brought it there and whatever was reloaded, failed or reset    *)
(* since.  An engine of tryInitEngine's, created before that, has none.    *)
THEOREM SettingsAreApplied == AddonSpec => []OptionsInEffect
<1>1. AddonInit => OptionsInEffect
  BY DEF AddonInit, OptionsInEffect
<1> QED BY <1>1, SettingsStep, TypeCorrect, PTL DEF AddonSpec

-----------------------------------------------------------------------------
(* The timer. *)

LEMMA TimerStep ==
  ASSUME AddonTypeOK, TimerCovers, [AddonNext]_avars
  PROVE  TimerCovers'
<1> USE DEF disk, cache, setting, hist, TimerCovers
<1>1. ASSUME engine'.shows.preedit = None \/ engine' = NoEngine
      PROVE  TimerCovers'
  BY <1>1
<1>2. ASSUME UNCHANGED cache,
             \/ engine' = engine
             \/ engine # NoEngine /\ engine'.shows = engine.shows
      PROVE  TimerCovers'
  BY <1>2
<1>3. ASSUME NEW path, NEW options, engine' = NewEngine(path, options)
      PROVE  TimerCovers'
  BY <1>1, <1>3 DEF NewEngine, Empty
<1>4. ASSUME ResetEngine, engine # NoEngine
      PROVE  TimerCovers'
  BY <1>1, <1>4 DEF ResetEngine, Empty, AddonTypeOK
<1>5. ASSUME NEW ic, NEW r, ApplyResult(ic, r), engine # NoEngine,
             engine' = [engine EXCEPT !.shows = r]
      PROVE  TimerCovers'
  BY <1>5 DEF ApplyResult, AddonTypeOK
<1>6. CASE Watch
  BY <1>2, <1>6 DEF Watch
<1>7. CASE CheckReload
  BY <1>2, <1>3, <1>7 DEF CheckReload
<1>8. ASSUME NEW c \in Configs, SetConfig(c) \/ ReloadConfig(c)
      PROVE  TimerCovers'
  <2>1. SelectLayout(c) \/ CannotSelect(c)
    BY <1>8 DEF SetConfig, ReloadConfig
  <2>2. UNCHANGED cache
    BY <1>8 DEF SetConfig, ReloadConfig
  <2>3. CASE KeepLayout(c)
    BY <1>2, <2>2, <2>3 DEF KeepLayout, AddonTypeOK
  <2>4. CASE SwapLayout(c) \/ Create(c.layout, c.options)
    BY <1>3, <2>4 DEF SwapLayout, Create
  <2>5. CASE CannotSelect(c)
    BY <1>2, <2>2, <2>5 DEF CannotSelect
  <2> QED BY <2>1, <2>3, <2>4, <2>5 DEF SelectLayout
<1>9. ASSUME NEW r \in Results, KeyEvent(r)
      PROVE  TimerCovers'
  BY <1>5, <1>9 DEF KeyEvent
<1>10. ASSUME NEW r \in Results, Tick(r)
       PROVE  TimerCovers'
  BY <1>5, <1>10 DEF Tick
<1>11. ASSUME NEW hasId \in BOOLEAN, SelectCandidate(hasId)
       PROVE  TimerCovers'
  BY <1>2, <1>4, <1>11 DEF SelectCandidate
<1>12. ASSUME TryInit, UNCHANGED cache
       PROVE  TimerCovers'
  BY <1>2, <1>3, <1>12 DEF TryInit, Create
<1>13. ASSUME NEW ic \in Ics, Activate(ic)
       PROVE  TimerCovers'
  BY <1>12, <1>13 DEF Activate
<1>14. ASSUME NEW ic \in Ics, CloseContext(ic)
       PROVE  TimerCovers'
  BY <1>14 DEF CloseContext, AddonTypeOK
<1>15. CASE RetryInit
  BY <1>12, <1>15 DEF RetryInit
<1>16. CASE Deactivate
  <2>1. CASE engine = NoEngine
    BY <1>1, <1>16, <2>1 DEF Deactivate
  <2>2. CASE engine # NoEngine
    BY <1>2, <1>4, <1>16, <2>2 DEF Deactivate
  <2> QED BY <2>1, <2>2
<1>17. CASE ResetContext
  BY <1>1, <1>4, <1>17 DEF ResetContext
<1>18. ASSUME NEW path \in Paths, NEW name \in DOMAIN Contents, EditFile(path, name)
       PROVE  TimerCovers'
  BY <1>2, <1>18 DEF EditFile
<1>19. CASE Notify
  BY <1>2, <1>19 DEF Notify
<1>20. CASE UNCHANGED avars
  BY <1>2, <1>20 DEF avars
<1> QED
  BY <1>6, <1>7, <1>8, <1>9, <1>10, <1>11, <1>13, <1>14, <1>15, <1>16, <1>17, <1>18, <1>19,
     <1>20
  DEF AddonNext, TickSome

(* While the engine holds a composition the timer runs, through focus      *)
(* changes, reloads and resets, as long as the context it is for exists.   *)
THEOREM TimerRuns == AddonSpec => []TimerCovers
<1>1. AddonInit => TimerCovers
  BY DEF AddonInit, TimerCovers
<1> QED BY <1>1, TimerStep, TypeCorrect, PTL DEF AddonSpec

-----------------------------------------------------------------------------
(* What the application sees.  FocusIsCurrent looks at one context and one *)
(* moment; it lasts because, until a composition is taken over from        *)
(* another context, the other panels are empty, the cache lastPreedit_ is  *)
(* the truth about the panel with the focus, and the timer runs for it.    *)

OthersEmpty   == \A ic \in Ics : ic # focus => panel[ic] = Empty
CacheIsPanel  == focus # NoIc => panel[focus].preedit = lastPreedit
TimerForFocus == lastPreedit # None => timer /\ focus # NoIc /\ tickIc = focus
NothingShown  == lastPreedit = None => ~timer /\ (focus # NoIc => panel[focus] = Empty)
ShowsCached   == engine # NoEngine => engine.shows.preedit \in {None, lastPreedit}

FocusInv ==
  ~carried => OthersEmpty /\ CacheIsPanel /\ TimerForFocus /\ NothingShown /\ ShowsCached

LEMMA AppliedShows ==
  ASSUME AddonTypeOK, FocusInv, NEW r \in Results, focus # NoIc, engine # NoEngine,
         engine' = [engine EXCEPT !.shows = r], ApplyResult(focus, r),
         UNCHANGED <<focus, carried>>
  PROVE  FocusInv'
<1>1. SUFFICES ASSUME ~carried PROVE FocusInv'
  BY DEF FocusInv
<1>2. OthersEmpty /\ CacheIsPanel /\ panel \in Panels /\ focus \in Ics
  BY <1>1 DEF FocusInv, AddonTypeOK, Panels
<1>3. engine'.shows = r
  BY DEF AddonTypeOK
<1>4. \A ic \in Ics : ic # focus => panel'[ic] = panel[ic]
  BY <1>2 DEF ApplyResult, Panels
<1>5. panel'[focus].preedit = r.preedit
  BY <1>2 DEF ApplyResult, Panels, CacheIsPanel
<1>6. r.preedit = None => panel'[focus] = Empty
  <2>1. SUFFICES ASSUME r.preedit = None PROVE panel'[focus] = Empty
    OBVIOUS
  <2>2. Visible(r.window) = None
    BY <2>1 DEF Results, Visible
  <2>3. panel'[focus].window = None
    BY <1>2, <2>2 DEF ApplyResult, Panels, ShownWindow
  <2>4. panel'[focus] \in [preedit : Texts \cup {None}, window : Windows \cup {None}]
    BY ApplyTypes, <1>2 DEF Panels
  <2> QED BY <1>5, <2>1, <2>3, <2>4 DEF Empty
<1>7. lastPreedit' = r.preedit /\ timer' = (r.preedit # None)
      /\ (r.preedit # None => tickIc' = focus)
  BY DEF ApplyResult
<1> QED
  BY <1>2, <1>3, <1>4, <1>5, <1>6, <1>7
  DEF FocusInv, OthersEmpty, CacheIsPanel, TimerForFocus, NothingShown, ShowsCached

(* A panel that is cleared with the composition; the focus may go with it. *)
LEMMA ClearedShows ==
  ASSUME AddonTypeOK, FocusInv, focus # NoIc, ClearPreedit(focus), UNCHANGED carried,
         focus' \in {focus, NoIc},
         engine' = NoEngine \/ engine'.shows = Empty
  PROVE  FocusInv'
<1>1. SUFFICES ASSUME ~carried PROVE FocusInv'
  BY DEF FocusInv
<1>2. OthersEmpty /\ panel \in Panels /\ focus \in Ics
  BY <1>1 DEF FocusInv, AddonTypeOK, Panels
<1>3. \A ic \in Ics : panel'[ic] = Empty
  BY <1>2 DEF ClearPreedit, Panels, OthersEmpty
<1>4. focus' \in Ics \cup {NoIc}
  BY <1>2
<1> QED
  BY <1>3, <1>4 DEF FocusInv, OthersEmpty, CacheIsPanel, TimerForFocus, NothingShown, ShowsCached,
      ClearPreedit, Empty

LEMMA FocusStep ==
  ASSUME AddonTypeOK, FocusInv, [AddonNext]_avars
  PROVE  FocusInv'
<1> USE DEF disk, cache, setting, hist
<1>1. ASSUME UNCHANGED <<cache, panel, focus, carried>>,
             \/ engine' = engine
             \/ engine' = NoEngine
             \/ engine'.shows = Empty
             \/ engine # NoEngine /\ engine'.shows = engine.shows
      PROVE  FocusInv'
  BY <1>1
  DEF FocusInv, OthersEmpty, CacheIsPanel, TimerForFocus, NothingShown, ShowsCached, Empty
<1>2. ASSUME NEW path, NEW options, engine' = NewEngine(path, options)
      PROVE  engine'.shows = Empty
  BY <1>2 DEF NewEngine
<1>3. ASSUME ResetEngine, engine # NoEngine
      PROVE  engine'.shows = Empty
  BY <1>3 DEF ResetEngine, AddonTypeOK
<1>4. ASSUME TryInit
      PROVE  engine' = engine \/ engine'.shows = Empty
  BY <1>2, <1>4 DEF TryInit, Create
<1>5. CASE Watch
  BY <1>1, <1>5 DEF Watch
<1>6. CASE CheckReload
  <2>1. focus # NoIc
    BY <1>6 DEF CheckReload, AddonTypeOK
  <2>2. CASE engine' = NewEngine(engine.path, engine.options) /\ ClearPreedit(focus)
    BY <1>2, <1>6, <2>1, <2>2, ClearedShows DEF CheckReload
  <2>3. CASE UNCHANGED <<engine, cache, panel>>
    BY <1>1, <1>6, <2>3 DEF CheckReload
  <2> QED BY <1>6, <2>2, <2>3 DEF CheckReload
<1>7. ASSUME NEW c \in Configs, SetConfig(c) \/ ReloadConfig(c)
      PROVE  FocusInv'
  <2>1. SelectLayout(c) \/ CannotSelect(c)
    BY <1>7 DEF SetConfig, ReloadConfig
  <2>2. UNCHANGED <<cache, panel, focus, carried>>
    BY <1>7 DEF SetConfig, ReloadConfig
  <2>3. CASE KeepLayout(c)
    BY <1>1, <2>2, <2>3 DEF KeepLayout, AddonTypeOK
  <2>4. CASE SwapLayout(c) \/ Create(c.layout, c.options)
    BY <1>1, <1>2, <2>2, <2>4 DEF SwapLayout, Create
  <2>5. CASE CannotSelect(c)
    BY <1>1, <2>2, <2>5 DEF CannotSelect
  <2> QED BY <2>1, <2>3, <2>4, <2>5 DEF SelectLayout
<1>8. ASSUME NEW r \in Results, KeyEvent(r)
      PROVE  FocusInv'
  BY <1>8, AppliedShows DEF KeyEvent
<1>9. ASSUME NEW r \in Results, Tick(r)
      PROVE  FocusInv'
  <2>1. CASE carried
    BY <1>9, <2>1 DEF Tick, FocusInv
  <2>2. CASE ~carried
    <3>1. lastPreedit # None /\ tickIc = focus /\ focus # NoIc
      BY <1>9, <2>2 DEF Tick, FocusInv, NothingShown, TimerForFocus
    <3> QED BY <1>9, <3>1, AppliedShows DEF Tick
  <2> QED BY <2>1, <2>2
<1>10. ASSUME NEW hasId \in BOOLEAN, SelectCandidate(hasId)
       PROVE  FocusInv'
  BY <1>1, <1>3, <1>10, ClearedShows DEF SelectCandidate
<1>11. ASSUME NEW ic \in Ics, Activate(ic)
       PROVE  FocusInv'
  <2>1. engine' = engine \/ engine'.shows = Empty
    BY <1>4, <1>11 DEF Activate
  <2> QED
    BY <1>11, <2>1, AddonAssumption
    DEF Activate, FocusInv, OthersEmpty, CacheIsPanel, TimerForFocus, NothingShown, ShowsCached,
        Empty
<1>12. ASSUME NEW ic \in Ics, CloseContext(ic)
       PROVE  FocusInv'
  BY <1>12
  DEF CloseContext, FocusInv, OthersEmpty, CacheIsPanel, TimerForFocus, NothingShown,
      ShowsCached, Empty, AddonTypeOK
<1>13. CASE RetryInit
  BY <1>1, <1>4, <1>13 DEF RetryInit
<1>14. CASE Deactivate
  <2>1. CASE engine # NoEngine /\ Preserves
    BY <1>14, <2>1
    DEF Deactivate, FocusInv, OthersEmpty, CacheIsPanel, TimerForFocus, NothingShown, ShowsCached
  <2>2. CASE engine # NoEngine /\ ~Preserves
    BY <1>3, <1>14, <2>2, ClearedShows DEF Deactivate
  <2>3. CASE engine = NoEngine
    BY <1>14, <2>3, ClearedShows DEF Deactivate
  <2> QED BY <2>1, <2>2, <2>3
<1>15. CASE ResetContext
  BY <1>3, <1>15, ClearedShows DEF ResetContext
<1>16. ASSUME NEW path \in Paths, NEW name \in DOMAIN Contents, EditFile(path, name)
       PROVE  FocusInv'
  BY <1>1, <1>16 DEF EditFile
<1>17. CASE Notify
  BY <1>1, <1>17 DEF Notify
<1>18. CASE UNCHANGED avars
  BY <1>1, <1>18 DEF avars
<1> QED
  BY <1>5, <1>6, <1>7, <1>8, <1>9, <1>10, <1>11, <1>12, <1>13, <1>14, <1>15, <1>16, <1>17,
     <1>18
  DEF AddonNext, TickSome

(* The context with the focus shows the composition of the engine, or the  *)
(* timer runs for that context and will see the difference: through hot    *)
(* reload and configtool's changes (the panel keeps what a replaced engine *)
(* had), the preedit and candidate caches, focus changes and closed        *)
(* contexts; unless a composition was kept over a change of focus.         *)
THEOREM FocusShowsComposition == AddonSpec => []FocusIsCurrent
<1>1. AddonInit => FocusInv
  BY DEF AddonInit, FocusInv, OthersEmpty, CacheIsPanel, TimerForFocus, NothingShown, ShowsCached
<1>2. AddonTypeOK /\ FocusInv => FocusIsCurrent
  <2>1. SUFFICES ASSUME AddonTypeOK, FocusInv, engine # NoEngine, focus # NoIc, ~carried
                 PROVE  /\ Lags(focus, "preedit", engine.shows.preedit, lastPreedit)
                        /\ panel[focus].window \in {None, Visible(engine.shows.window)} \/ timer
    BY DEF FocusIsCurrent
  <2> QED
    BY <2>1
    DEF FocusInv, CacheIsPanel, TimerForFocus, NothingShown, ShowsCached, Lags, Empty
<1> QED BY <1>1, <1>2, FocusStep, TypeCorrect, PTL DEF AddonSpec
=============================================================================
