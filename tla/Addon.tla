------------------------------- MODULE Addon --------------------------------
(***************************************************************************)
(* The fcitx5 addon (fcitx5-addon/src/engine.cpp) with what it calls in    *)
(* mzkana-ffi: focus, the input panels and their caches, the tick timer,   *)
(* the configuration and the layout files, with hot reload.                *)
(*                                                                         *)
(* Two threads and the outside run: fcitx5's event loop, where a handler   *)
(* runs to its end except where it waits for something others can change   *)
(* (phase), notify's watcher thread, and the editor of the layout files.   *)
(*                                                                         *)
(* The composition is what a key event returns: any preedit and any        *)
(* candidate window (Engine models which).  Keys that fcitx5 keeps from    *)
(* the engine, password fields and input contexts that show no preedit are *)
(* not modelled.                                                           *)
(***************************************************************************)
EXTENDS LayoutLoader

CONSTANTS
  Paths,      \* the layout files of the dropdown
  Contents,   \* what can be in one: by a name, the document or NoLayout
  Options,    \* configtool's overrides: [focus, prediction]
  Texts,      \* preedits
  Windows,    \* candidate windows: "suggestion" (none focused), "conversion"
  Ics,        \* input contexts
  NoIc        \* no input context

ASSUME AddonAssumption == NoIc \notin Ics /\ Absent \notin Paths

VARIABLES
  files,           \* external: what is in the layout files
  raised,          \* external: a file event has not reached the watcher
  notified,        \* reload_rx holds an event
  config,          \* config_, which conf/mzkana.conf always agrees with
  engine,          \* engine_
  phase,           \* what the event loop is in the middle of
  lastLayoutPath,  \* lastLayoutPath_
  lastPreedit,     \* lastPreedit_
  lastCandidates,  \* lastCandidateSig_
  timer,           \* tickTimer_ is enabled
  tickIc,          \* tickIc_
  panel,           \* external: the input panel of each context
  focus,           \* external: the context that has the focus
  missed,          \* history: the running file was saved before it was watched
  carried          \* history: a preedit outlived the focus of its context

disk    == <<files, raised, notified>>
cache   == <<lastPreedit, lastCandidates, timer, tickIc>>
setting == <<config, lastLayoutPath>>
hist    == <<missed, carried>>
avars == <<disk, setting, engine, phase, cache, panel, focus, hist>>

Configs  == [layout : Paths, options : Options]
Follow   == [focus |-> "FollowLayout", prediction |-> "FollowLayout"]
None     == "none"
Empty    == [preedit |-> None, window |-> None]
NoEngine == [path |-> Absent]

Results == {r \in [preedit : Texts \cup {None}, window : Windows \cup {None}] :
              r.preedit = None => r.window = None}

(* A layout is known by the contents it was compiled from.                 *)
Loadable == {name \in DOMAIN Contents : Loads(Contents[name])}
LayoutOf == [name \in Loadable |-> Compiled(Contents[name])]

NewEngine(path, options) ==
  [path |-> path, layout |-> files[path], options |-> options, shows |-> Empty]

AddonInit ==
  /\ files \in [Paths -> DOMAIN Contents]
  /\ raised = FALSE /\ notified = FALSE
  /\ config \in Configs
  /\ engine = NoEngine
  /\ phase = "start"
  /\ lastLayoutPath = Absent
  /\ lastPreedit = None /\ lastCandidates = None
  /\ timer = FALSE /\ tickIc = NoIc
  /\ panel = [ic \in Ics |-> Empty]
  /\ focus = NoIc
  /\ missed = FALSE /\ carried = FALSE

-----------------------------------------------------------------------------
(* The panel. *)

(* The settings of the layout, unless configtool overrides them.           *)
Preserves == IF engine.options.focus = "FollowLayout"
             THEN LayoutOf[engine.layout].settings.preserve ELSE engine.options.focus = "Preserve"
Predicts == IF engine.options.prediction = "FollowLayout"
            THEN LayoutOf[engine.layout].settings.prediction ELSE engine.options.prediction = "Show"

(* Suggestions are not shown if the setting says so.                       *)
Visible(window) == IF window = "suggestion" /\ ~Predicts THEN None ELSE window

(* applyCandidates: what replaces the window of the panel, if anything.    *)
ShownWindow(ic, window) ==
  IF window # None /\ window = lastCandidates THEN panel[ic].window ELSE window

(* Mutant of ApplyResult: an unchanged preedit returns before the timer is *)
(* armed again.                                                            *)
ApplyChangedResult(ic, r) ==
  LET window == Visible(r.window)
  IN  /\ panel' = [panel EXCEPT
                   ![ic].preedit = IF r.preedit = lastPreedit THEN @ ELSE r.preedit,
                   ![ic].window = ShownWindow(ic, window)]
      /\ lastPreedit' = r.preedit
      /\ lastCandidates' = window
      /\ timer' = (r.preedit \notin {None, lastPreedit})
      /\ tickIc' = IF r.preedit = None THEN tickIc ELSE ic

(* applyResult, with updateTickTimer.                                      *)
ApplyResult(ic, r) ==
  LET window == Visible(r.window)
  IN  /\ panel' = [panel EXCEPT
                   ![ic].preedit = IF r.preedit = lastPreedit THEN @ ELSE r.preedit,
                   ![ic].window = ShownWindow(ic, window)]
      /\ lastPreedit' = r.preedit
      /\ lastCandidates' = window
      /\ timer' = (r.preedit # None)
      /\ tickIc' = IF r.preedit = None THEN tickIc ELSE ic

(* Mutant of ClearPreedit: the cache still has what was shown. *)
ClearPanelOnly(ic) ==
  /\ panel' = [panel EXCEPT ![ic] = Empty]
  /\ timer' = FALSE
  /\ UNCHANGED <<lastPreedit, lastCandidates, tickIc>>

ClearPreedit(ic) ==
  /\ panel' = [panel EXCEPT ![ic] = Empty]
  /\ lastPreedit' = None
  /\ lastCandidates' = None
  /\ timer' = FALSE
  /\ UNCHANGED tickIc

-----------------------------------------------------------------------------
(* Creating the engine, and choosing its layout. *)

(* Engine::new reads the file, then connects to Mozc, then watches.        *)
Create(path, options) ==
  /\ engine = NoEngine
  /\ files[path] \in Loadable
  /\ engine' = NewEngine(path, options)
  /\ phase' = "create"
  /\ missed' = FALSE

(* tryInitEngine: without overrides, and lastLayoutPath_ stays as it is.   *)
TryInit ==
  \/ Create(config.layout, Follow)
  \/ /\ engine # NoEngine \/ files[config.layout] \notin Loadable
     /\ UNCHANGED <<engine, phase, missed>>

Watch ==
  /\ phase = "create"
  /\ phase' = "idle"
  /\ UNCHANGED <<disk, setting, engine, cache, panel, focus, hist>>

(* reloadSelectedLayout: the engine runs that file already, is given it,   *)
(* or is created with it; then applyConfigOverrides.                       *)
KeepLayout(c) ==
  /\ engine # NoEngine /\ c.layout = lastLayoutPath
  /\ engine' = [engine EXCEPT !.options = c.options]
  /\ phase' = "idle"
  /\ UNCHANGED missed

(* Mutant of SwapLayout: config_path still names the old file. *)
SwapKeepingPath(c) ==
  /\ engine # NoEngine /\ c.layout # lastLayoutPath
  /\ files[c.layout] \in Loadable
  /\ engine' = [NewEngine(c.layout, c.options) EXCEPT !.path = engine.path]
  /\ phase' = "idle"
  /\ missed' = FALSE

(* Mutant of SwapLayout: a layout that is refused is installed. *)
SwapUnchecked(c) ==
  /\ engine # NoEngine /\ c.layout # lastLayoutPath
  /\ engine' = NewEngine(c.layout, c.options)
  /\ phase' = "idle"
  /\ missed' = FALSE

SwapLayout(c) ==
  /\ engine # NoEngine /\ c.layout # lastLayoutPath
  /\ files[c.layout] \in Loadable
  /\ engine' = NewEngine(c.layout, c.options)
  /\ phase' = "idle"
  /\ missed' = FALSE

(* Mutant of SelectLayout: overrides only go with a new layout. *)
SelectNewLayout(c) ==
  /\ \/ /\ engine # NoEngine /\ c.layout = lastLayoutPath
        /\ phase' = "idle"
        /\ UNCHANGED <<engine, missed>>
     \/ SwapLayout(c)
     \/ Create(c.layout, c.options)
  /\ lastLayoutPath' = c.layout

SelectLayout(c) ==
  /\ KeepLayout(c) \/ SwapLayout(c) \/ Create(c.layout, c.options)
  /\ lastLayoutPath' = c.layout

CannotSelect(c) ==
  /\ engine = NoEngine \/ c.layout # lastLayoutPath
  /\ files[c.layout] \notin Loadable
  /\ phase' = "idle"
  /\ UNCHANGED <<engine, lastLayoutPath, missed>>

(* Apply in configtool: all of it, or nothing if the layout does not load. *)
SetConfig(c) ==
  /\ phase = "idle"
  /\ \/ SelectLayout(c) /\ config' = c
     \/ CannotSelect(c) /\ UNCHANGED config
  /\ UNCHANGED <<disk, cache, panel, focus, carried>>

(* reloadConfig, after somebody has written mzkana.conf; at the start, the *)
(* constructor.                                                            *)
ReloadConfig(c) ==
  /\ phase \in {"start", "idle"}
  /\ phase = "start" => c = config
  /\ config' = c
  /\ SelectLayout(c) \/ CannotSelect(c)
  /\ UNCHANGED <<disk, cache, panel, focus, carried>>

-----------------------------------------------------------------------------
(* Key events, ticks and candidates. *)

(* check_reload drains the events, and goes on to read the file if there   *)
(* was one.                                                                *)
Drain == /\ notified' = FALSE
         /\ phase' = IF notified THEN "reload" ELSE "idle"

KeyEvent(r) ==
  /\ phase = "idle" /\ focus # NoIc /\ engine # NoEngine
  /\ engine' = [engine EXCEPT !.shows = r]
  /\ ApplyResult(focus, r)
  /\ Drain
  /\ UNCHANGED <<files, raised, setting, focus, hist>>

CheckReload ==
  /\ phase = "reload" /\ phase' = "idle"
  /\ \/ /\ files[engine.path] \in Loadable
        /\ engine' = NewEngine(engine.path, engine.options)
        /\ ClearPreedit(focus) /\ missed' = FALSE
     \/ files[engine.path] \notin Loadable /\ UNCHANGED <<engine, cache, panel, missed>>
  /\ UNCHANGED <<disk, setting, focus, carried>>

ResetEngine == engine' = [engine EXCEPT !.shows = Empty]

(* A number key or a click on the candidate list of the panel.  An entry   *)
(* without an id ends the event and does nothing.                          *)
SelectCandidate(hasId) ==
  /\ phase = "idle" /\ focus # NoIc /\ engine # NoEngine
  /\ panel[focus].window # None
  /\ \/ hasId /\ ResetEngine /\ ClearPreedit(focus)
     \/ ~hasId /\ UNCHANGED <<engine, cache, panel>>
  /\ UNCHANGED <<disk, setting, phase, focus, hist>>

(* onTick; a context that is gone stops the timer.  The engine's tick can  *)
(* end a composition or change it, and begins none.                        *)
Tick(r) ==
  /\ phase = "idle" /\ timer /\ engine # NoEngine
  /\ engine.shows.preedit = None => r.preedit = None
  /\ \/ /\ tickIc = NoIc
        /\ timer' = FALSE
        /\ UNCHANGED <<engine, lastPreedit, lastCandidates, tickIc, panel>>
     \/ /\ tickIc # NoIc
        /\ engine' = [engine EXCEPT !.shows = r]
        /\ ApplyResult(tickIc, r)
  /\ UNCHANGED <<disk, setting, phase, focus, hist>>

-----------------------------------------------------------------------------
(* Focus. *)

Activate(ic) ==
  /\ phase = "idle" /\ focus = NoIc
  /\ focus' = ic
  /\ TryInit
  /\ UNCHANGED <<disk, setting, cache, panel, carried>>

(* A key event while there is no engine. *)
RetryInit ==
  /\ phase = "idle" /\ focus # NoIc /\ engine = NoEngine
  /\ TryInit
  /\ UNCHANGED <<disk, setting, cache, panel, focus, carried>>

(* Mutant of Deactivate: the timer stops although the composition stays. *)
DeactivateStopping ==
  /\ phase = "idle" /\ focus # NoIc
  /\ focus' = NoIc
  /\ \/ /\ engine # NoEngine /\ Preserves
        /\ carried' = (carried \/ lastPreedit # None)
        /\ timer' = FALSE
        /\ UNCHANGED <<engine, lastPreedit, lastCandidates, tickIc, panel>>
     \/ /\ engine # NoEngine /\ ~Preserves
        /\ ResetEngine /\ ClearPreedit(focus)
        /\ UNCHANGED carried
     \/ /\ engine = NoEngine
        /\ ClearPreedit(focus)
        /\ UNCHANGED <<engine, carried>>
  /\ UNCHANGED <<disk, setting, phase, missed>>

(* deactivate, with focus_out_preserved. *)
Deactivate ==
  /\ phase = "idle" /\ focus # NoIc
  /\ focus' = NoIc
  /\ \/ /\ engine # NoEngine /\ Preserves
        /\ carried' = (carried \/ lastPreedit # None)
        /\ UNCHANGED <<engine, cache, panel>>
     \/ /\ engine # NoEngine /\ ~Preserves
        /\ ResetEngine /\ ClearPreedit(focus)
        /\ UNCHANGED carried
     \/ /\ engine = NoEngine
        /\ ClearPreedit(focus)
        /\ UNCHANGED <<engine, carried>>
  /\ UNCHANGED <<disk, setting, phase, missed>>

ResetContext ==
  /\ phase = "idle" /\ focus # NoIc
  /\ IF engine = NoEngine THEN UNCHANGED engine ELSE ResetEngine
  /\ ClearPreedit(focus)
  /\ UNCHANGED <<disk, setting, phase, focus, hist>>

(* The application closes a context; another may open in its place.        *)
CloseContext(ic) ==
  /\ ic # focus
  /\ panel' = [panel EXCEPT ![ic] = Empty]
  /\ tickIc' = IF tickIc = ic THEN NoIc ELSE tickIc
  /\ UNCHANGED <<disk, setting, engine, phase, focus, lastPreedit, lastCandidates,
                 timer, hist>>

-----------------------------------------------------------------------------
(* The other threads. *)

EditFile(path, name) ==
  /\ files[path] # name
  /\ files' = [files EXCEPT ![path] = name]
  /\ raised' = (raised \/ (engine # NoEngine /\ phase # "create"))
  /\ missed' = (missed \/ (engine.path = path /\ phase = "create"))
  /\ UNCHANGED <<notified, setting, engine, phase, cache, panel, focus, carried>>

(* The watcher's callback. *)
Notify ==
  /\ raised
  /\ raised' = FALSE /\ notified' = TRUE
  /\ UNCHANGED <<files, setting, engine, phase, cache, panel, focus, hist>>

TickSome == \E r \in Results : Tick(r)

AddonNext ==
  \/ Watch
  \/ CheckReload
  \/ \E c \in Configs : SetConfig(c) \/ ReloadConfig(c)
  \/ \E r \in Results : KeyEvent(r)
  \/ TickSome
  \/ \E hasId \in BOOLEAN : SelectCandidate(hasId)
  \/ \E ic \in Ics : Activate(ic) \/ CloseContext(ic)
  \/ RetryInit
  \/ Deactivate
  \/ ResetContext
  \/ \E path \in Paths, name \in DOMAIN Contents : EditFile(path, name)
  \/ Notify

AddonSpec == AddonInit /\ [][AddonNext]_avars

(* The event loop ends the handlers it has begun and runs the timer.       *)
FairAddonSpec == /\ AddonSpec
                 /\ WF_avars(Watch) /\ WF_avars(CheckReload) /\ WF_avars(TickSome)

-----------------------------------------------------------------------------
(* Every field has its type; a running engine has a layout that loads.     *)
AddonTypeOK ==
  /\ files \in [Paths -> DOMAIN Contents]
  /\ raised \in BOOLEAN /\ notified \in BOOLEAN
  /\ config \in Configs
  /\ engine \in {NoEngine} \cup [path : Paths, layout : Loadable, options : Options \cup {Follow},
                                 shows : Results]
  /\ phase \in {"start", "create", "idle", "reload"}
  /\ lastLayoutPath \in Paths \cup {Absent}
  /\ engine = NoEngine => lastLayoutPath = Absent /\ phase \notin {"create", "reload"}
  /\ lastPreedit \in Texts \cup {None} /\ lastCandidates \in Windows \cup {None}
  /\ timer \in BOOLEAN /\ tickIc \in Ics \cup {NoIc}
  /\ panel \in [Ics -> [preedit : Texts \cup {None}, window : Windows \cup {None}]]
  /\ focus \in Ics \cup {NoIc}
  /\ phase = "reload" => focus # NoIc
  /\ missed \in BOOLEAN /\ carried \in BOOLEAN

(* Whatever way a layout came in (start, hot reload, configtool), what the *)
(* engine runs has been checked: see Sound.                                *)
SoundLayouts == {name \in Loadable : Sound(LayoutOf[name])}
RunningLayoutSound == engine # NoEngine => engine.layout \in SoundLayouts

(* README.md: a layout that is edited is loaded at the next key event.     *)
(* The running layout is the file's, or news of the difference is on its   *)
(* way; a file saved while the engine was being created is the exception.  *)
Outdated == /\ engine # NoEngine
            /\ files[engine.path] \in Loadable /\ files[engine.path] # engine.layout
NoUpdateLost == Outdated => raised \/ notified \/ phase = "reload" \/ missed

(* design document, section 13.5: configtool's settings come first.  Once  *)
(* a selection has succeeded the engine runs the file selected last, and   *)
(* has the overrides of config_ unless config_ names another file (which   *)
(* did not load).  Before, it can only be tryInitEngine's: section 13.5 is *)
(* not true of that one, which has no overrides whatever config_ says.     *)
OptionsInEffect ==
  engine # NoEngine =>
    IF lastLayoutPath = Absent
    THEN engine.options = Follow
    ELSE /\ engine.path = lastLayoutPath
         /\ config.layout = lastLayoutPath => engine.options = config.options

(* "Run the tick timer while a preedit is active" (updateTickTimer), as    *)
(* long as the context it was for exists.                                  *)
TimerCovers == engine # NoEngine /\ engine.shows.preedit # None => timer \/ tickIc = NoIc

(* What the context with the focus shows is the composition, or the timer  *)
(* runs and will see the difference; unless the composition was taken over *)
(* from another context.                                                   *)
Lags(ic, field, value, last) ==
  panel[ic][field] # value => timer /\ tickIc = ic /\ last # value
FocusIsCurrent ==
  engine # NoEngine /\ focus # NoIc /\ ~carried
    => /\ Lags(focus, "preedit", engine.shows.preedit, lastPreedit)
       /\ panel[focus].window \in {None, Visible(engine.shows.window)} \/ timer

(* The difference does not last. *)
Differs == /\ engine # NoEngine /\ focus # NoIc /\ ~carried
           /\ panel[focus].preedit # engine.shows.preedit
PanelCatchesUp == Differs ~> ~Differs
=============================================================================
