------------------------------ MODULE Keyboard ------------------------------
(***************************************************************************)
(* The state machine driven by a physical keyboard: a key goes down only   *)
(* when it is up and up only when it is down, the operating system repeats *)
(* the key that went down last while it stays down, and the fcitx5 timer   *)
(* ticks.  This is the environment the design document describes; the      *)
(* engine passes is_repeat = false for every event, so a repeat is an      *)
(* ordinary key-down to the state machine.                                 *)
(***************************************************************************)
EXTENDS StateMachine

VARIABLES
  down,      \* the keys physically down
  lastDown,  \* the key the keyboard repeats: {} or {k}
  lone       \* history: keys down with no regular key pressed since

keyboard == <<down, lastDown, lone>>
kvars    == <<vars, keyboard>>

KInit == Init /\ down = {} /\ lastDown = {} /\ lone = {}

IsRegularPress(k) == ~IsModifier(k) /\ k \notin Layout.triggerKeys

Press(k, shift) ==
  /\ Room
  /\ k \notin down
  /\ KeyDown(k, shift)
  /\ down' = down \cup {k}
  /\ lastDown' = {k}
  /\ lone' = IF IsRegularPress(k) THEN {} ELSE lone \cup {k}

Repeat(k, shift) ==
  /\ Room
  /\ lastDown = {k}
  /\ KeyDown(k, shift)
  /\ UNCHANGED keyboard

Release(k) ==
  /\ Room
  /\ k \in down
  /\ KeyUp(k)
  /\ down' = down \ {k}
  /\ lastDown' = lastDown \ {k}
  /\ lone' = lone \ {k}

Timer == Tick /\ UNCHANGED keyboard
Clock == Advance /\ UNCHANGED keyboard

KeyboardNext ==
  \/ \E k \in Keys, shift \in BOOLEAN : Press(k, shift) \/ Repeat(k, shift)
  \/ \E k \in Keys : Release(k)
  \/ Timer
  \/ Clock

KeyboardSpec == KInit /\ [][KeyboardNext]_kvars

(* Mozc and the engine also call in: conversion starts or ends, and a      *)
(* focus change or a selected candidate resets the state machine, while    *)
(* keys are physically down.                                               *)
Feedback ==
  /\ Room
  /\ Reset \/ NotifyConversion \/ NotifyComposition
  /\ UNCHANGED keyboard

FeedbackSpec == KInit /\ [][KeyboardNext \/ Feedback]_kvars

-----------------------------------------------------------------------------
(* held_keys holds "physically held regular keys": with every release      *)
(* delivered, no key the user has let go of lingers in held_keys to        *)
(* complete a chord or to swallow its next press as an auto-repeat.        *)
HeldIsDown == held \subseteq down

(* The auto-repeat guard works through held_keys: every regular key that   *)
(* is physically down is in it (or its repeats would type again), and no   *)
(* other key is.  Mozc control keys and BackSpace are meant to repeat.     *)
Guarded(k) == /\ IsRegularPress(k)
              /\ k \notin MOZC_CONTROL_KEYS \cup BackspaceKeys
HeldMatchesKeyboard == held = {k \in down : Guarded(k)}

(* process_key_up: "Tap action fires when key was released without         *)
(* triggering anything": a release says something only if no regular key   *)
(* was pressed while the modifier or trigger was down.                     *)
TapIsLone ==
  [][\A k \in down \ down' : out' # <<>> => k \in lone]_kvars

(* Mutual chords that overlap are part of a longer one, and a part of a    *)
(* chord is built up from smaller ones, so that every chord is reached     *)
(* whichever of its keys comes last: without key k, each other key x of a  *)
(* chord is in a smaller chord, unless x and k are one.                    *)
MutualsClosed(layout) ==
  LET mutuals == {i \in DOMAIN layout.chords : layout.chords[i].symmetric}
      keys(i) == ToSet(layout.chords[i].keys)
      size(i) == Len(layout.chords[i].keys)
  IN  /\ \A c, d \in mutuals :
           keys(c) \cap keys(d) # {} /\ ~(keys(d) \subseteq keys(c)) =>
             \E e \in mutuals : keys(e) = keys(c) \cup keys(d) /\ size(e) > size(c)
      /\ \A c \in mutuals : \A k, x \in keys(c) : k # x =>
           \E d \in mutuals : /\ x \in keys(d) /\ keys(d) \subseteq keys(c)
                              /\ k \notin keys(d) \/ keys(d) = {k, x}

(* Nothing comes before a mutual chord: there is no direct input, and no   *)
(* modifier layer has one of its keys.                                     *)
MutualsFirst(layout) ==
  /\ layout.triggerKeys = {} /\ ~layout.kanchoku
  /\ \A i \in DOMAIN layout.modified, c \in DOMAIN layout.chords :
       layout.chords[c].symmetric =>
         ToSet(layout.chords[c].keys) \cap DOMAIN layout.modified[i] = {}

(* In such a layout, while all the keys of a mutual chord are held it has  *)
(* fired, in whatever order they went down and whichever of them were      *)
(* released and pressed again.                                             *)
HeldChordFired ==
  \A c \in MutualChords : ChordKeys(c) \subseteq held => ChordKeys(c) \subseteq consumed

(* A physical press of k in this step.                                     *)
Pressed(k) == k \in down' \ down

(* Design document, section 5: a sequence has no timeout; pressing its     *)
(* second key after any time replaces the kana of the trigger.             *)
SequenceRewritable ==
  [][\A d \in DOMAIN Layout.prefix : \A k \in DOMAIN Layout.prefix[d] :
       /\ Pressed(k)
       /\ tentative # <<>> /\ Last(tentative).src = <<d>>
       => Len(tentative') = Len(tentative)]_kvars

(* struct ModifierState: a oneshot is "true after press, cleared after the *)
(* next non-modifier key".                                                 *)
OneshotUntilNextKey ==
  [][\A i \in DOMAIN modifiers :
       modifiers[i].oneshot /\ ~modifiers'[i].oneshot =>
         \E k \in Keys : Pressed(k) /\ ~IsModifier(k)]_kvars
=============================================================================
