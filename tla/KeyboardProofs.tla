--------------------------- MODULE KeyboardProofs ---------------------------
(***************************************************************************)
(* The state machine and the keyboard, for every layout:                   *)
(*   KeyboardIsCaller     what holds for any order of events holds here;   *)
(*   HeldKeysAreDown      no key stays in held_keys once it is released,   *)
(*                        whatever Mozc and focus changes do;              *)
(*   HeldKeysMirrorKeyboard   without them, held_keys is exactly the       *)
(*                        guarded keys that are down;                      *)
(*   TapsAreLone          with oneshots that say nothing and one hold      *)
(*                        trigger, a tap fires for an unused hold only;    *)
(*   HeldChordsFire       with mutual chords closed under overlap, a chord *)
(*                        whose keys are held has fired;                   *)
(*   CompletedChordsFire  in every layout, the press that completes mutual *)
(*                        chords fires one with its key.                   *)
(***************************************************************************)
EXTENDS Keyboard, RewriteProofs

(* A keyboard's events, the timer and Mozc's feedback are calls of the     *)
(* state machine.                                                          *)
LEMMA StepIsCall ==
  ASSUME [KeyboardNext \/ Feedback]_kvars
  PROVE  [Next]_vars
<1>1. CASE KeyboardNext
  BY <1>1 DEF KeyboardNext, Press, Repeat, Release, Timer, Clock, Next
<1>2. CASE Feedback
  BY <1>2 DEF Feedback, Next
<1>3. CASE UNCHANGED kvars
  BY <1>3 DEF kvars
<1>. QED  BY <1>1, <1>2, <1>3

(* Whatever holds for any order of events holds under a keyboard: it       *)
(* implements the caller of Spec.                                          *)
THEOREM KeyboardIsCaller == FeedbackSpec => Spec
<1>1. KInit => Init
  BY DEF KInit
<1>2. [KeyboardNext \/ Feedback]_kvars => [Next]_vars
  BY StepIsCall
<1>. QED  BY <1>1, <1>2, PTL DEF FeedbackSpec, Spec

(* A rewrite under the keyboard takes its own kana only. *)
COROLLARY KeyboardRewritesOwn == FeedbackSpec => RewriteOnlyOwn
BY KeyboardIsCaller, RewritesOwnKana

-----------------------------------------------------------------------------
(* What a key event does to held_keys.                                     *)

(* A press adds a guarded key and no other. *)
LEMMA KeyDownHolds ==
  ASSUME NEW k, NEW shift, KeyDown(k, shift)
  PROVE  \/ k \in held /\ held' = held
         \/ ~Guarded(k) /\ held' = held
         \/ Guarded(k) /\ held' = held \cup {k}
<1>1. CASE HeldKeyDown(k)
  BY <1>1 DEF HeldKeyDown
<1>2. CASE ModifierKeyDown(k)
  <2>1. IsModifier(k)
    BY <1>2 DEF ModifierKeyDown, IsModifier
  <2>. QED  BY <1>2, <2>1 DEF ModifierKeyDown, Guarded, IsRegularPress
<1>3. CASE TriggerOn(k) \/ TriggerOff(k)
  BY <1>3 DEF TriggerOn, TriggerOff, IsTriggerKey, Guarded, IsRegularPress
<1>4. CASE BackspaceDown(k)
  BY <1>4 DEF BackspaceDown, Guarded
<1>5. ASSUME EnterRegular(k)
      PROVE  \/ ~Guarded(k) /\ held' = held
             \/ Guarded(k) /\ held' = held \cup {k}
  BY <1>5 DEF EnterRegular, Regular, HeldAt, Guarded, IsRegularPress
<1>6. CASE DirectKey(k) \/ LayerKey(k) \/ ChordKey(k)
  BY <1>5, <1>6 DEF DirectKey, LayerKey, ChordKey
<1>7. CASE \/ RuleKey(k) \/ WaitingKey(k) \/ UnassignedKey(k, shift)
           \/ PassthroughKey(k) \/ WholeCellKey(k) \/ SpeculativeKey(k)
  <2>1. Speculative(k)
    BY <1>7 DEF RuleKey, WaitingKey, UnassignedKey, PassthroughKey, WholeCellKey,
                SpeculativeKey, BaseKey, Unresolved
  <2>. QED  BY <1>5, <2>1 DEF Speculative
<1>. QED  BY <1>1, <1>2, <1>3, <1>4, <1>6, <1>7 DEF KeyDown

(* A release takes its key out. *)
LEMMA KeyUpReleases ==
  ASSUME NEW k, KeyUp(k)
  PROVE  held' = held \ {k}
BY DEF KeyUp, ModifierKeyUp, ModifierTap, TriggerUp, RegularKeyUp, LeaveHeld

(* The other calls add no key, and tick and the clock take none. *)
LEMMA OthersHold ==
  /\ Reset \/ NotifyConversion \/ NotifyComposition => held' \subseteq held
  /\ Tick \/ Advance => held' = held
BY DEF Reset, NotifyConversion, NotifyComposition, Tick, Advance

-----------------------------------------------------------------------------
(* The auto-repeated key is down. *)
Repeatable == lastDown \subseteq down

(* No released key lingers in held_keys, although the keyboard repeats     *)
(* keys and Mozc or a focus change empties held_keys under them.           *)
THEOREM HeldKeysAreDown == FeedbackSpec => []HeldIsDown
<1>. DEFINE Inv == HeldIsDown /\ Repeatable
<1>1. KInit => Inv
  BY DEF KInit, Init, HeldIsDown, Repeatable
<1>2. Inv /\ [KeyboardNext \/ Feedback]_kvars => Inv'
  <2>1. SUFFICES ASSUME Inv, [KeyboardNext \/ Feedback]_kvars  PROVE Inv'
    OBVIOUS
  <2>. USE DEF HeldIsDown, Repeatable, keyboard
  <2>2. ASSUME NEW k \in Keys, NEW shift \in BOOLEAN, Press(k, shift) \/ Repeat(k, shift)
        PROVE  Inv'
    BY <2>1, <2>2, KeyDownHolds DEF Press, Repeat
  <2>3. ASSUME NEW k \in Keys, Release(k)  PROVE Inv'
    BY <2>1, <2>3, KeyUpReleases DEF Release
  <2>4. CASE Timer \/ Clock \/ Feedback
    BY <2>1, <2>4, OthersHold DEF Timer, Clock, Feedback
  <2>5. CASE UNCHANGED kvars
    BY <2>1, <2>5 DEF kvars, vars
  <2>. QED  BY <2>1, <2>2, <2>3, <2>4, <2>5 DEF KeyboardNext
<1>. QED  BY <1>1, <1>2, PTL DEF FeedbackSpec

(* The auto-repeat guard has every key it must have: held_keys is exactly  *)
(* the guarded keys that are down, as long as nothing empties it.          *)
THEOREM HeldKeysMirrorKeyboard == KeyboardSpec => []HeldMatchesKeyboard
<1>. DEFINE Inv == HeldMatchesKeyboard /\ Repeatable
<1>1. KInit => Inv
  BY DEF KInit, Init, HeldMatchesKeyboard, Repeatable
<1>2. Inv /\ [KeyboardNext]_kvars => Inv'
  <2>1. SUFFICES ASSUME Inv, [KeyboardNext]_kvars  PROVE Inv'
    OBVIOUS
  <2>2. \A k : Guarded(k)' <=> Guarded(k)
    BY DEF Guarded, IsRegularPress, IsModifier, ModifierIndex, FirstOf
  <2>. USE DEF HeldMatchesKeyboard, Repeatable, keyboard
  <2>3. ASSUME NEW k \in Keys, NEW shift \in BOOLEAN, Press(k, shift) \/ Repeat(k, shift)
        PROVE  Inv'
    BY <2>1, <2>2, <2>3, KeyDownHolds DEF Press, Repeat
  <2>4. ASSUME NEW k \in Keys, Release(k)  PROVE Inv'
    BY <2>1, <2>2, <2>4, KeyUpReleases DEF Release
  <2>5. CASE Timer \/ Clock
    BY <2>1, <2>2, <2>5, OthersHold DEF Timer, Clock
  <2>6. CASE UNCHANGED kvars
    BY <2>1, <2>2, <2>6 DEF kvars, vars
  <2>. QED  BY <2>1, <2>3, <2>4, <2>5, <2>6 DEF KeyboardNext
<1>. QED  BY <1>1, <1>2, PTL DEF KeyboardSpec

-----------------------------------------------------------------------------
(* The tap action of a modifier or a trigger.                              *)

(* A oneshot modifier's tap says nothing: its layer has been used by the   *)
(* time it is released, and nothing marks that.  A hold trigger that lets  *)
(* its key through on a tap is the only trigger, and there is no BackSpace *)
(* key, which interrupts modifiers but no trigger.                         *)
OneshotsSilent ==
  \A i \in DOMAIN Layout.modifiers :
    Layout.modifiers[i].kind = "Oneshot" => Layout.modifiers[i].tapAction = "None"
IsTrigger(t) == t \in Layout.triggerKeys /\ ~IsModifier(t)
TriggerTaps  == Layout.triggerKind = "Hold" /\ Layout.triggerTap = "Passthrough"
TriggersMarked ==
  \A t \in Layout.triggerKeys :
    TriggerTaps /\ ~IsModifier(t) =>
      /\ \A u \in Layout.triggerKeys : u = t \/ IsModifier(u)
      /\ \A b \in BackspaceKeys \cap Keys : ~IsRegularPress(b)

IsHold(i) == i \in DOMAIN Layout.modifiers /\ Layout.modifiers[i].kind = "Hold"

(* The keys of a hold modifier that are down are the ones it counts as     *)
(* pressed; unless a key has interrupted it, they have been alone.         *)
HoldMarked ==
  \A i \in DOMAIN Layout.modifiers : IsHold(i) =>
    /\ modifiers[i].pressed = {k \in down : i \in ModifierIndex(k)}
    /\ modifiers[i].pressed # {} /\ ~modifiers[i].interrupted => modifiers[i].pressed \subseteq lone

(* A trigger that is down is active; unless a key has interrupted it, it   *)
(* has been alone.                                                         *)
TriggerMarked ==
  TriggerTaps => \A t \in down : IsTrigger(t) =>
                   /\ trigger = "Active"
                   /\ ~triggerInterrupted => t \in lone

(* A modifier or trigger that auto-repeats has been alone: a repeat may    *)
(* take its interruption back.                                             *)
RepeatsAlone == \A k \in lastDown : ~IsRegularPress(k) => k \in lone

Marked == /\ HoldMarked
          /\ TriggerMarked
          /\ RepeatsAlone
          /\ Repeatable
          /\ HeldMatchesKeyboard
          /\ TypeOK

(* A key activates one modifier. *)
LEMMA OneModifier ==
  ASSUME NEW k, NEW i \in ModifierIndex(k), NEW j \in ModifierIndex(k)
  PROVE  i = j
<1>1. DOMAIN Layout.modifiers \subseteq Int
  BY LayoutAssumption
<1>. QED  BY <1>1 DEF ModifierIndex, FirstOf

(* A regular key that is not held back interrupts what is pressed. *)
LEMMA RegularInterrupts ==
  ASSUME TypeOK, NEW k \in Keys, NEW shift \in BOOLEAN, KeyDown(k, shift),
         IsRegularPress(k)
  PROVE  \/ k \in held /\ UNCHANGED modifiers
         \/ \A i \in DOMAIN Layout.modifiers :
              /\ modifiers'[i].pressed = modifiers[i].pressed
              /\ modifiers[i].pressed # {} => modifiers'[i].interrupted
<1>1. DOMAIN modifiers = DOMAIN Layout.modifiers
      /\ \A i \in DOMAIN modifiers : modifiers[i] \in ModifierState
  BY DEF TypeOK
<1>2. CASE modifiers' = Interrupted(modifiers)
  BY <1>1, <1>2 DEF Interrupted, ModifierState
<1>3. CASE modifiers' = [i \in DOMAIN modifiers |->
                     [Interrupted(modifiers)[i] EXCEPT !.oneshot = FALSE]]
  <2>1. ASSUME NEW i \in DOMAIN modifiers
        PROVE  /\ modifiers'[i].pressed = modifiers[i].pressed
               /\ modifiers[i].pressed # {} => modifiers'[i].interrupted
    <3>1. modifiers'[i] = [Interrupted(modifiers)[i] EXCEPT !.oneshot = FALSE]
      BY <1>3
    <3>2. Interrupted(modifiers)[i] = IF modifiers[i].pressed # {}
                                      THEN [modifiers[i] EXCEPT !.interrupted = TRUE]
                                      ELSE modifiers[i]
      BY DEF Interrupted
    <3>. QED  BY <1>1, <3>1, <3>2 DEF ModifierState
  <2>. QED  BY <1>1, <2>1
<1>4. CASE HeldKeyDown(k)
  BY <1>4 DEF HeldKeyDown
<1>5. CASE ModifierKeyDown(k) \/ TriggerOn(k) \/ TriggerOff(k)
  BY <1>5 DEF ModifierKeyDown, TriggerOn, TriggerOff, IsTriggerKey, IsRegularPress, IsModifier
<1>6. CASE BackspaceDown(k) \/ DirectKey(k) \/ ChordKey(k)
  BY <1>2, <1>6 DEF BackspaceDown, DirectKey, ChordKey
<1>7. CASE LayerKey(k)
  BY <1>3, <1>7 DEF LayerKey
<1>8. CASE \/ RuleKey(k) \/ WaitingKey(k) \/ UnassignedKey(k, shift)
           \/ PassthroughKey(k) \/ WholeCellKey(k) \/ SpeculativeKey(k)
  <2>1. Speculative(k)
    BY <1>8 DEF RuleKey, WaitingKey, UnassignedKey, PassthroughKey, WholeCellKey,
                SpeculativeKey, BaseKey, Unresolved
  <2>. QED  BY <1>2, <2>1 DEF Speculative
<1>. QED  BY <1>4, <1>5, <1>6, <1>7, <1>8 DEF KeyDown

(* Under an active trigger it interrupts the trigger as well, unless it is *)
(* a BackSpace.                                                            *)
LEMMA RegularInterruptsTrigger ==
  ASSUME NEW k \in Keys, NEW shift \in BOOLEAN, KeyDown(k, shift), IsRegularPress(k)
  PROVE  /\ trigger' = trigger
         /\ trigger = "Active" => \/ triggerInterrupted'
                                  \/ k \in held
                                  \/ k \in BackspaceKeys
<1>1. CASE HeldKeyDown(k)
  BY <1>1 DEF HeldKeyDown
<1>2. CASE ModifierKeyDown(k) \/ TriggerOn(k) \/ TriggerOff(k)
  BY <1>2 DEF ModifierKeyDown, TriggerOn, TriggerOff, IsTriggerKey, IsRegularPress, IsModifier
<1>3. CASE BackspaceDown(k)
  BY <1>3 DEF BackspaceDown, trig
<1>4. CASE DirectKey(k)
  BY <1>4 DEF DirectKey
<1>5. CASE LayerKey(k) \/ ChordKey(k)
  BY <1>5 DEF LayerKey, ChordKey, DirectActive, trig
<1>6. CASE \/ RuleKey(k) \/ WaitingKey(k) \/ UnassignedKey(k, shift)
           \/ PassthroughKey(k) \/ WholeCellKey(k) \/ SpeculativeKey(k)
  <2>1. Speculative(k)
    BY <1>6 DEF RuleKey, WaitingKey, UnassignedKey, PassthroughKey, WholeCellKey,
                SpeculativeKey, BaseKey, Unresolved
  <2>. QED  BY <2>1 DEF Speculative, DirectActive, trig
<1>. QED  BY <1>1, <1>2, <1>3, <1>4, <1>5, <1>6 DEF KeyDown

(* A modifier key is counted as pressed by a hold modifier. *)
LEMMA ModifierKeyPressed ==
  ASSUME TypeOK, NEW k \in Keys, NEW shift \in BOOLEAN, KeyDown(k, shift),
         IsModifier(k), k \notin held
  PROVE  /\ UNCHANGED trig
         /\ \A i \in DOMAIN Layout.modifiers : i \notin ModifierIndex(k) => modifiers'[i] = modifiers[i]
         /\ \A i \in ModifierIndex(k) : IsHold(i) =>
              /\ modifiers'[i].pressed = modifiers[i].pressed \cup {k}
              /\ modifiers[i].pressed # {} =>
                   modifiers'[i].interrupted = modifiers[i].interrupted
<1>1. DOMAIN modifiers = DOMAIN Layout.modifiers
      /\ \A i \in DOMAIN modifiers : modifiers[i] \in ModifierState
  BY DEF TypeOK
<1>2. ModifierKeyDown(k)
  <2>1. ~EnterRegular(k) /\ ~Speculative(k)
    BY DEF EnterRegular, Regular, Speculative
  <2>. QED  BY <2>1 DEF KeyDown, HeldKeyDown, TriggerOn, TriggerOff, IsTriggerKey,
                 BackspaceDown, DirectKey, LayerKey, ChordKey, RuleKey, WaitingKey,
                 UnassignedKey, PassthroughKey, WholeCellKey, SpeculativeKey, BaseKey,
                 Unresolved
<1>3. PICK i \in ModifierIndex(k) :
        modifiers' = [modifiers EXCEPT ![i] = ModifierPressed(Layout.modifiers[i], modifiers[i], k)]
  BY <1>2 DEF ModifierKeyDown
<1>4. i \in DOMAIN modifiers
  BY <1>1, <1>3, ModifierIndexType
<1>5. \A j \in DOMAIN Layout.modifiers : j # i => modifiers'[j] = modifiers[j]
  BY <1>1, <1>3, <1>4
<1>6. modifiers'[i] = ModifierPressed(Layout.modifiers[i], modifiers[i], k)
  BY <1>3, <1>4
<1>7. IsHold(i) => /\ modifiers'[i].pressed = modifiers[i].pressed \cup {k}
                   /\ modifiers[i].pressed # {} =>
                        modifiers'[i].interrupted = modifiers[i].interrupted
  BY <1>1, <1>4, <1>6 DEF IsHold, ModifierPressed, ModifierState
<1>8. UNCHANGED trig
  BY <1>2 DEF ModifierKeyDown
<1>. QED  BY <1>3, <1>5, <1>7, <1>8, OneModifier


(* A trigger key: the trigger is active, and the modifiers are left alone. *)
LEMMA TriggerKeyPressed ==
  ASSUME NEW k \in Keys, NEW shift \in BOOLEAN, KeyDown(k, shift),
         IsTrigger(k), k \notin held, Layout.triggerKind = "Hold"
  PROVE  trigger' = "Active" /\ UNCHANGED modifiers
<1>1. ~IsModifier(k) /\ k \in Layout.triggerKeys
  BY DEF IsTrigger
<1>2. ~EnterRegular(k) /\ ~Speculative(k)
  BY <1>1 DEF EnterRegular, Regular, Speculative
<1>3. TriggerOn(k)
  BY <1>1, <1>2 DEF KeyDown, HeldKeyDown, ModifierKeyDown, IsModifier, TriggerOff,
                 BackspaceDown, DirectKey, LayerKey, ChordKey, RuleKey, WaitingKey,
                 UnassignedKey, PassthroughKey, WholeCellKey, SpeculativeKey, BaseKey,
                 Unresolved
<1>. QED  BY <1>3 DEF TriggerOn

(* A release takes its key out of its modifier and interrupts nothing. *)
LEMMA KeyUpModifiers ==
  ASSUME TypeOK, NEW k \in Keys, KeyUp(k)
  PROVE  \A i \in DOMAIN Layout.modifiers :
           /\ modifiers'[i].interrupted = modifiers[i].interrupted
           /\ IsHold(i) => modifiers'[i].pressed =
                             IF i \in ModifierIndex(k) THEN modifiers[i].pressed \ {k}
                                                       ELSE modifiers[i].pressed
<1>1. DOMAIN modifiers = DOMAIN Layout.modifiers
      /\ \A i \in DOMAIN modifiers : modifiers[i] \in ModifierState
  BY DEF TypeOK
<1>2. CASE ModifierKeyUp(k)
  <2>1. PICK i \in ModifierIndex(k) :
          \/ Layout.modifiers[i].kind = "Toggle" /\ UNCHANGED modifiers
          \/ /\ Layout.modifiers[i].kind # "Toggle"
             /\ modifiers' = [modifiers EXCEPT
                  ![i].pressed = modifiers[i].pressed \ {k},
                  ![i].oneshot = modifiers[i].oneshot /\ StillHeld(i, k)]
    BY <1>2 DEF ModifierKeyUp
  <2>2. i \in DOMAIN modifiers /\ \A j \in ModifierIndex(k) : j = i
    BY <1>1, ModifierIndexType, OneModifier
  <2>3. CASE UNCHANGED modifiers /\ Layout.modifiers[i].kind = "Toggle"
    BY <1>1, <2>2, <2>3 DEF IsHold
  <2>4. CASE modifiers' = [modifiers EXCEPT
                  ![i].pressed = modifiers[i].pressed \ {k},
                  ![i].oneshot = modifiers[i].oneshot /\ StillHeld(i, k)]
    <3>1. modifiers[i] \in ModifierState
      BY <1>1, <2>2
    <3>2. /\ modifiers'[i].pressed = modifiers[i].pressed \ {k}
          /\ modifiers'[i].interrupted = modifiers[i].interrupted
      BY <2>2, <2>4, <3>1 DEF ModifierState
    <3>3. \A j \in DOMAIN modifiers : j # i => modifiers'[j] = modifiers[j]
      BY <2>4
    <3>. QED  BY <1>1, <2>1, <2>2, <3>2, <3>3
  <2>. QED  BY <2>1, <2>3, <2>4
<1>3. CASE ModifierTap(k)
  <2>1. PICK i \in ModifierIndex(k) :
          /\ ~StillHeld(i, k)
          /\ modifiers' = [modifiers EXCEPT ![i].pressed = {}]
    BY <1>3 DEF ModifierTap
  <2>2. i \in DOMAIN modifiers /\ \A j \in ModifierIndex(k) : j = i
    BY <1>1, ModifierIndexType, OneModifier
  <2>3. modifiers[i] \in ModifierState
    BY <1>1, <2>2
  <2>4. /\ modifiers'[i].pressed = {}
        /\ modifiers'[i].interrupted = modifiers[i].interrupted
    BY <2>1, <2>2, <2>3 DEF ModifierState
  <2>5. \A j \in DOMAIN modifiers : j # i => modifiers'[j] = modifiers[j]
    BY <2>1
  <2>6. modifiers[i].pressed \ {k} = {}
    BY <2>1 DEF StillHeld
  <2>. QED  BY <1>1, <2>1, <2>2, <2>4, <2>5, <2>6
<1>4. CASE TriggerUp(k) \/ RegularKeyUp(k)
  <2>1. ModifierIndex(k) = {} /\ UNCHANGED modifiers
    BY <1>4 DEF TriggerUp, RegularKeyUp, IsModifier
  <2>. QED  BY <2>1
<1>. QED  BY <1>2, <1>3, <1>4 DEF KeyUp

(* What a release may say, and to what. *)
LEMMA KeyUpSpeaks ==
  ASSUME TypeOK, NEW k \in Keys, KeyUp(k), out' # <<>>
  PROVE  \/ \E i \in ModifierIndex(k) :
              /\ Layout.modifiers[i].kind # "Toggle"
              /\ Layout.modifiers[i].tapAction # "None"
              /\ ~modifiers[i].interrupted
         \/ IsTrigger(k) /\ TriggerTaps /\ ~triggerInterrupted
<1>1. ModifierTap(k) \/ TriggerUp(k)
  BY DEF KeyUp, ModifierKeyUp, RegularKeyUp
<1>2. CASE ModifierTap(k)
  BY <1>2 DEF ModifierTap
<1>3. CASE TriggerUp(k)
  BY <1>3 DEF TriggerUp, IsTrigger, TriggerTaps
<1>. QED  BY <1>1, <1>2, <1>3


(* HoldMarked and TriggerMarked after a step. *)
HoldMarkedNext ==
  \A i \in DOMAIN Layout.modifiers : IsHold(i) =>
    /\ modifiers'[i].pressed = {k \in down' : i \in ModifierIndex(k)}
    /\ modifiers'[i].pressed # {} /\ ~modifiers'[i].interrupted
         => modifiers'[i].pressed \subseteq lone'
TriggerMarkedNext ==
  TriggerTaps => \A t \in down' : IsTrigger(t) =>
                   /\ trigger' = "Active"
                   /\ ~triggerInterrupted' => t \in lone'

(* The two marks survive a step that keeps what they say of it. *)
LEMMA MarkedNext ==
  ASSUME HoldMarkedNext, TriggerMarkedNext
  PROVE  HoldMarked' /\ TriggerMarked'
<1>1. HoldMarked'
  BY DEF HoldMarkedNext, HoldMarked, IsHold, ModifierIndex, FirstOf
<1>2. TriggerMarked'
  BY DEF TriggerMarkedNext, TriggerMarked, IsTrigger, IsModifier, ModifierIndex, FirstOf,
         TriggerTaps
<1>. QED  BY <1>1, <1>2

(* A press, or a repeat, of a regular key. *)
LEMMA RegularMarks ==
  ASSUME Marked, TriggersMarked, NEW k \in Keys, NEW shift \in BOOLEAN,
         Press(k, shift) \/ Repeat(k, shift), IsRegularPress(k)
  PROVE  HoldMarkedNext /\ TriggerMarkedNext
<1>1. KeyDown(k, shift) /\ ~IsModifier(k) /\ ModifierIndex(k) = {} /\ ~IsTrigger(k)
  BY DEF Press, Repeat, IsRegularPress, IsModifier, IsTrigger
<1>2. down' = down \cup {k} /\ k \in down'
  BY DEF Press, Repeat, Marked, Repeatable, keyboard
<1>3. (lone' = lone /\ k \in down) \/ (lone' = {} /\ k \notin down)
  BY DEF Press, Repeat, Marked, Repeatable, keyboard
<1>4. k \in held => k \in down
  BY DEF Marked, HeldMatchesKeyboard
<1>5. HoldMarkedNext
  <2>1. SUFFICES ASSUME NEW i \in DOMAIN Layout.modifiers, IsHold(i)
                 PROVE  /\ modifiers'[i].pressed = {x \in down' : i \in ModifierIndex(x)}
                        /\ modifiers'[i].pressed # {} /\ ~modifiers'[i].interrupted
                             => modifiers'[i].pressed \subseteq lone'
    BY DEF HoldMarkedNext
  <2>2. {x \in down' : i \in ModifierIndex(x)} = {x \in down : i \in ModifierIndex(x)}
    BY <1>1, <1>2
  <2>3. /\ modifiers[i].pressed = {x \in down : i \in ModifierIndex(x)}
        /\ modifiers[i].pressed # {} /\ ~modifiers[i].interrupted
             => modifiers[i].pressed \subseteq lone
    BY <2>1 DEF Marked, HoldMarked
  <2>4. CASE k \in held /\ UNCHANGED modifiers
    BY <1>3, <1>4, <2>2, <2>3, <2>4
  <2>5. CASE /\ modifiers'[i].pressed = modifiers[i].pressed
             /\ modifiers[i].pressed # {} => modifiers'[i].interrupted
    BY <2>2, <2>3, <2>5
  <2>. QED  BY <1>1, <2>4, <2>5, RegularInterrupts DEF Marked
<1>6. TriggerMarkedNext
  <2>1. SUFFICES ASSUME TriggerTaps, NEW t \in down', IsTrigger(t)
                 PROVE  trigger' = "Active" /\ (~triggerInterrupted' => t \in lone')
    BY DEF TriggerMarkedNext
  <2>2. t \in down /\ t \in Layout.triggerKeys /\ ~IsModifier(t)
    BY <1>1, <1>2, <2>1 DEF IsTrigger
  <2>3. trigger = "Active" /\ (~triggerInterrupted => t \in lone)
    BY <2>1, <2>2 DEF Marked, TriggerMarked
  <2>4. k \notin BackspaceKeys
    BY <2>1, <2>2 DEF TriggersMarked
  <2>5. trigger' = "Active" /\ (triggerInterrupted' \/ k \in held)
    BY <1>1, <2>3, <2>4, RegularInterruptsTrigger
  <2>6. CASE k \in held
    <3>1. HeldKeyDown(k)
      BY <1>1, <2>6 DEF KeyDown, ModifierKeyDown, TriggerOn, TriggerOff, IsTriggerKey,
           BackspaceDown, DirectKey, LayerKey, ChordKey, RuleKey, WaitingKey,
           UnassignedKey, PassthroughKey, WholeCellKey, SpeculativeKey, BaseKey,
           Unresolved, Speculative, EnterRegular, Regular
    <3>2. UNCHANGED triggerInterrupted /\ lone' = lone
      BY <1>3, <1>4, <2>6, <3>1 DEF HeldKeyDown
    <3>. QED  BY <2>3, <2>5, <3>2
  <2>. QED  BY <2>5, <2>6
<1>. QED  BY <1>5, <1>6

(* A press, or a repeat, of a modifier or trigger key. *)
LEMMA ShiftMarks ==
  ASSUME Marked, TriggersMarked, NEW k \in Keys, NEW shift \in BOOLEAN,
         Press(k, shift) \/ Repeat(k, shift), ~IsRegularPress(k)
  PROVE  HoldMarkedNext /\ TriggerMarkedNext
<1>1. KeyDown(k, shift) /\ k \notin held /\ (IsModifier(k) \/ IsTrigger(k))
  BY DEF Press, Repeat, IsRegularPress, IsTrigger, Marked, HeldMatchesKeyboard, Guarded
<1>2. /\ down' = down \cup {k}
      /\ (lone' = lone /\ k \in down /\ k \in lone) \/ lone' = lone \cup {k}
  BY DEF Press, Repeat, Marked, Repeatable, RepeatsAlone, keyboard
<1>3. CASE IsModifier(k)
  <2>1. /\ UNCHANGED trig
        /\ \A i \in DOMAIN Layout.modifiers : i \notin ModifierIndex(k) => modifiers'[i] = modifiers[i]
        /\ \A i \in ModifierIndex(k) : IsHold(i) =>
              /\ modifiers'[i].pressed = modifiers[i].pressed \cup {k}
              /\ modifiers[i].pressed # {} =>
                   modifiers'[i].interrupted = modifiers[i].interrupted
    BY <1>1, <1>3, ModifierKeyPressed DEF Marked
  <2>2. TriggerMarkedNext
    <3>1. ~IsTrigger(k)
      BY <1>3 DEF IsTrigger
    <3>. QED  BY <1>2, <2>1, <3>1 DEF TriggerMarkedNext, Marked, TriggerMarked, trig
  <2>3. ASSUME NEW i \in DOMAIN Layout.modifiers, IsHold(i)
        PROVE  /\ modifiers'[i].pressed = {x \in down' : i \in ModifierIndex(x)}
               /\ modifiers'[i].pressed # {} /\ ~modifiers'[i].interrupted
                    => modifiers'[i].pressed \subseteq lone'
    <3>1. /\ modifiers[i].pressed = {x \in down : i \in ModifierIndex(x)}
          /\ modifiers[i].pressed # {} /\ ~modifiers[i].interrupted
               => modifiers[i].pressed \subseteq lone
      BY <2>3 DEF Marked, HoldMarked
    <3>2. CASE i \notin ModifierIndex(k)
      <4>1. {x \in down' : i \in ModifierIndex(x)} = {x \in down : i \in ModifierIndex(x)}
        BY <1>2, <3>2
      <4>. QED  BY <1>2, <2>1, <3>1, <3>2, <4>1
    <3>3. CASE i \in ModifierIndex(k)
      <4>1. {x \in down' : i \in ModifierIndex(x)} = {x \in down : i \in ModifierIndex(x)} \cup {k}
        BY <1>2, <3>3
      <4>2. modifiers'[i].pressed = modifiers[i].pressed \cup {k}
        BY <2>1, <2>3, <3>3
      <4>3. CASE modifiers[i].pressed = {}
        <5>1. k \notin down
          BY <3>1, <3>3, <4>3
        <5>. QED  BY <1>2, <3>1, <4>1, <4>2, <4>3, <5>1
      <4>4. CASE modifiers[i].pressed # {}
        <5>1. modifiers'[i].interrupted = modifiers[i].interrupted
          BY <2>1, <2>3, <3>3, <4>4
        <5>2. ~modifiers[i].interrupted => modifiers[i].pressed \cup {k} \subseteq lone'
          BY <1>2, <3>1, <3>3, <4>4
        <5>. QED  BY <3>1, <4>1, <4>2, <5>1, <5>2
      <4>. QED  BY <4>3, <4>4
    <3>. QED  BY <3>2, <3>3
  <2>. QED  BY <2>2, <2>3 DEF HoldMarkedNext
<1>4. CASE ~IsModifier(k)
  <2>1. IsTrigger(k) /\ ModifierIndex(k) = {}
    BY <1>1, <1>4 DEF IsModifier
  <2>2. UNCHANGED modifiers
    <3>1. ~EnterRegular(k) /\ ~Speculative(k)
      BY <2>1 DEF EnterRegular, Regular, Speculative, IsTrigger
    <3>2. TriggerOn(k) \/ TriggerOff(k)
      BY <1>1, <1>4, <2>1, <3>1 DEF KeyDown, HeldKeyDown, ModifierKeyDown,
                 BackspaceDown, DirectKey, LayerKey, ChordKey, RuleKey, WaitingKey,
                 UnassignedKey, PassthroughKey, WholeCellKey, SpeculativeKey, BaseKey,
                 Unresolved, IsTrigger
    <3>. QED  BY <3>2 DEF TriggerOn, TriggerOff
  <2>3. ASSUME NEW i \in DOMAIN Layout.modifiers, IsHold(i)
        PROVE  /\ modifiers'[i].pressed = {x \in down' : i \in ModifierIndex(x)}
               /\ modifiers'[i].pressed # {} /\ ~modifiers'[i].interrupted
                    => modifiers'[i].pressed \subseteq lone'
    <3>1. /\ modifiers[i].pressed = {x \in down : i \in ModifierIndex(x)}
          /\ modifiers[i].pressed # {} /\ ~modifiers[i].interrupted
               => modifiers[i].pressed \subseteq lone
      BY <2>3 DEF Marked, HoldMarked
    <3>2. {x \in down' : i \in ModifierIndex(x)} = {x \in down : i \in ModifierIndex(x)}
      BY <1>2, <2>1
    <3>. QED  BY <1>2, <2>2, <3>1, <3>2
  <2>4. TriggerMarkedNext
    <3>1. SUFFICES ASSUME TriggerTaps, NEW t \in down', IsTrigger(t)
                   PROVE  trigger' = "Active" /\ (~triggerInterrupted' => t \in lone')
      BY DEF TriggerMarkedNext
    <3>2. t = k
      BY <2>1, <3>1 DEF TriggersMarked, IsTrigger
    <3>3. trigger' = "Active"
      BY <1>1, <2>1, <3>1, TriggerKeyPressed DEF TriggerTaps
    <3>4. CASE lone' = lone \cup {k}
      BY <3>2, <3>3, <3>4
    <3>5. CASE lone' = lone /\ k \in lone
      BY <3>2, <3>3, <3>5
    <3>. QED  BY <1>2, <3>4, <3>5
  <2>. QED  BY <2>3, <2>4 DEF HoldMarkedNext
<1>. QED  BY <1>3, <1>4


(* A release. *)
LEMMA ReleaseMarks ==
  ASSUME Marked, TriggersMarked, NEW k \in Keys, Release(k)
  PROVE  HoldMarkedNext /\ TriggerMarkedNext
<1>1. KeyUp(k) /\ k \in down /\ down' = down \ {k} /\ lone' = lone \ {k}
  BY DEF Release
<1>2. ASSUME NEW i \in DOMAIN Layout.modifiers, IsHold(i)
      PROVE  /\ modifiers'[i].pressed = {x \in down' : i \in ModifierIndex(x)}
             /\ modifiers'[i].pressed # {} /\ ~modifiers'[i].interrupted
                  => modifiers'[i].pressed \subseteq lone'
  <2>1. /\ modifiers[i].pressed = {x \in down : i \in ModifierIndex(x)}
        /\ modifiers[i].pressed # {} /\ ~modifiers[i].interrupted
             => modifiers[i].pressed \subseteq lone
    BY <1>2 DEF Marked, HoldMarked
  <2>2. /\ modifiers'[i].interrupted = modifiers[i].interrupted
        /\ modifiers'[i].pressed = IF i \in ModifierIndex(k) THEN modifiers[i].pressed \ {k}
                                                           ELSE modifiers[i].pressed
    BY <1>1, <1>2, KeyUpModifiers DEF Marked
  <2>3. {x \in down' : i \in ModifierIndex(x)} = {x \in down : i \in ModifierIndex(x)} \ {k}
    BY <1>1
  <2>4. modifiers'[i].pressed = modifiers[i].pressed \ {k}
    BY <2>1, <2>2
  <2>. QED  BY <1>1, <2>1, <2>2, <2>3, <2>4
<1>3. TriggerMarkedNext
  <2>1. SUFFICES ASSUME TriggerTaps, NEW t \in down', IsTrigger(t)
                 PROVE  trigger' = "Active" /\ (~triggerInterrupted' => t \in lone')
    BY DEF TriggerMarkedNext
  <2>2. t \in down /\ t # k
    BY <1>1
  <2>3. trigger = "Active" /\ (~triggerInterrupted => t \in lone)
    BY <2>1, <2>2 DEF Marked, TriggerMarked
  <2>4. ~IsTrigger(k)
    BY <2>1, <2>2 DEF TriggersMarked, IsTrigger
  <2>5. UNCHANGED <<trigger, triggerInterrupted>>
    BY <1>1, <2>4 DEF KeyUp, ModifierKeyUp, ModifierTap, TriggerUp, RegularKeyUp, IsTrigger, trig
  <2>. QED  BY <1>1, <2>2, <2>3, <2>5
<1>. QED  BY <1>2, <1>3 DEF HoldMarkedNext

(* A release that says something is that of a key that was alone. *)
LEMMA ReleaseSpeaksAlone ==
  ASSUME Marked, OneshotsSilent, NEW k \in Keys, Release(k), out' # <<>>
  PROVE  k \in lone
<1>1. KeyUp(k) /\ k \in down
  BY DEF Release
<1>2. ASSUME NEW i \in ModifierIndex(k), Layout.modifiers[i].kind # "Toggle",
             Layout.modifiers[i].tapAction # "None", ~modifiers[i].interrupted
      PROVE  k \in lone
  <2>1. i \in DOMAIN Layout.modifiers
    BY ModifierIndexType
  <2>2. Layout.modifiers[i].kind \in {"Hold", "Oneshot", "Toggle"}
    BY <2>1, LayoutCells DEF ModifierDef
  <2>3. IsHold(i)
    BY <1>2, <2>1, <2>2 DEF OneshotsSilent, IsHold
  <2>4. k \in modifiers[i].pressed /\ modifiers[i].pressed \subseteq lone
    BY <1>1, <1>2, <2>1, <2>3 DEF Marked, HoldMarked
  <2>. QED  BY <2>4
<1>3. CASE IsTrigger(k) /\ TriggerTaps /\ ~triggerInterrupted
  BY <1>1, <1>3 DEF Marked, TriggerMarked
<1>. QED  BY <1>1, <1>2, <1>3, KeyUpSpeaks DEF Marked

(* Whatever was pressed, repeated and released in between, a release says  *)
(* something only if no regular key went down while its modifier or        *)
(* trigger was down: for every layout whose taps are marked as above.      *)
THEOREM TapsAreLone ==
  ASSUME OneshotsSilent, TriggersMarked
  PROVE  KeyboardSpec => TapIsLone
<1>. DEFINE Inv == HoldMarked /\ TriggerMarked /\ RepeatsAlone
<1>1. KInit => Inv
  <2>1. SUFFICES ASSUME KInit  PROVE Inv
    OBVIOUS
  <2>2. \A i \in DOMAIN Layout.modifiers : modifiers[i].pressed = {}
    BY <2>1 DEF KInit, Init
  <2>3. down = {} /\ lastDown = {}
    BY <2>1 DEF KInit
  <2>. QED  BY <2>2, <2>3 DEF HoldMarked, TriggerMarked, RepeatsAlone
<1>2. ASSUME Marked, [KeyboardNext]_kvars
      PROVE  Inv' /\ [\A k \in down \ down' : out' # <<>> => k \in lone]_kvars
  <2>1. \A k : IsRegularPress(k)' <=> IsRegularPress(k)
    BY DEF IsRegularPress, IsModifier, ModifierIndex, FirstOf
  <2>2. ASSUME NEW k \in Keys, NEW shift \in BOOLEAN, Press(k, shift) \/ Repeat(k, shift)
        PROVE  Inv' /\ \A x \in down \ down' : out' # <<>> => x \in lone
    <3>1. HoldMarked' /\ TriggerMarked'
      BY <1>2, <2>2, RegularMarks, ShiftMarks, MarkedNext
    <3>2. RepeatsAlone'
      BY <1>2, <2>1, <2>2 DEF Press, Repeat, RepeatsAlone, Marked, keyboard
    <3>3. down \ down' = {}
      BY <2>2 DEF Press, Repeat, keyboard
    <3>. QED  BY <3>1, <3>2, <3>3
  <2>3. ASSUME NEW k \in Keys, Release(k)
        PROVE  Inv' /\ \A x \in down \ down' : out' # <<>> => x \in lone
    <3>1. HoldMarked' /\ TriggerMarked'
      BY <1>2, <2>3, ReleaseMarks, MarkedNext
    <3>2. RepeatsAlone'
      BY <1>2, <2>1, <2>3 DEF Release, RepeatsAlone, Marked
    <3>3. down \ down' = {k}
      BY <2>3 DEF Release
    <3>. QED  BY <1>2, <2>3, <3>1, <3>2, <3>3, ReleaseSpeaksAlone
  <2>4. CASE Timer \/ Clock \/ UNCHANGED kvars
    <3>1. UNCHANGED <<keyboard, modifiers, trigger, triggerInterrupted>>
      BY <2>4 DEF Timer, Clock, Tick, Advance, trig, kvars, vars
    <3>2. down \ down' = {} /\ UNCHANGED <<down, lastDown, lone>>
      BY <3>1 DEF keyboard
    <3>3. HoldMarkedNext /\ TriggerMarkedNext
      BY <1>2, <3>1, <3>2 DEF HoldMarkedNext, TriggerMarkedNext, Marked, HoldMarked, TriggerMarked
    <3>4. RepeatsAlone'
      BY <1>2, <2>1, <3>2 DEF RepeatsAlone, Marked
    <3>. QED  BY <3>2, <3>3, <3>4, MarkedNext
  <2>. QED  BY <1>2, <2>2, <2>3, <2>4 DEF KeyboardNext
<1>3. KeyboardSpec => Spec
  <2>1. KInit => Init
    BY DEF KInit
  <2>2. [KeyboardNext]_kvars => [Next]_vars
    BY StepIsCall
  <2>. QED  BY <2>1, <2>2, PTL DEF KeyboardSpec, Spec
<1>4. KeyboardSpec => []Repeatable
  <2>1. KInit => Repeatable
    BY DEF KInit, Repeatable
  <2>2. Repeatable /\ [KeyboardNext]_kvars => Repeatable'
    BY DEF Repeatable, KeyboardNext, Press, Repeat, Release, Timer, Clock, keyboard, kvars
  <2>. QED  BY <2>1, <2>2, PTL DEF KeyboardSpec
<1>5. Inv /\ Repeatable /\ HeldMatchesKeyboard /\ TypeOK => Marked
  BY DEF Marked
<1>. QED  BY <1>1, <1>2, <1>3, <1>4, <1>5, HeldKeysMirrorKeyboard, TypeCorrect,
             PTL DEF KeyboardSpec, TapIsLone

-----------------------------------------------------------------------------
(* A mutual chord fires when its last key goes down.                       *)

(* The sizes of the mutual chords are bounded. *)
LEMMA ChordSizesBounded ==
  \E b \in Nat : \A i \in DOMAIN Layout.chords : Len(Layout.chords[i].keys) <= b
<1>. DEFINE n == Len(Layout.chords)
            size(i) == Len(Layout.chords[i].keys)
            P == {m \in 0..n : \E b \in Nat : \A i \in 1..m : size(i) <= b}
<1>1. n \in Nat /\ DOMAIN Layout.chords = 1..n
  BY LayoutAssumption
<1>2. \A i \in 1..n : size(i) \in Nat
  <2>1. ASSUME NEW i \in 1..n  PROVE size(i) \in Nat
    <3>1. Layout.chords[i] \in ChordRule
      BY <1>1, LayoutAssumption
    <3>. QED  BY <3>1 DEF ChordRule
  <2>. QED  BY <2>1
<1>. HIDE DEF size, n
<1>3. 0 \in P
  BY <1>1
<1>4. ASSUME NEW m \in 1..n, m - 1 \in P  PROVE m \in P
  <2>1. PICK b \in Nat : \A i \in 1..(m - 1) : size(i) <= b
    BY <1>4
  <2>2. m \in 0..n /\ size(m) \in Nat /\ m \in Nat
    BY <1>1, <1>2
  <2>3. \A i \in 1..m : i \in 1..(m - 1) \/ i = m
    BY <2>2
  <2>4. \A i \in 1..(m - 1) : size(i) \in Nat
    BY <1>1, <1>2
  <2>5. \A i \in 1..m : size(i) <= b + size(m)
    BY <2>1, <2>2, <2>3, <2>4
  <2>6. b + size(m) \in Nat
    BY <2>2
  <2>. QED  BY <2>2, <2>5, <2>6
<1>. HIDE DEF P
<1>5. \A m \in 0..n : m \in P
  BY <1>1, <1>3, <1>4, UpTo
<1>6. n \in P
  BY <1>1, <1>5
<1>. QED  BY <1>1, <1>6 DEF P, size

(* Of some chords, one is longest, and of the longest one is last. *)
LEMMA LongestChord ==
  ASSUME NEW C \in SUBSET DOMAIN Layout.chords, C # {}
  PROVE  \E i \in C : \A j \in C :
           \/ Len(Layout.chords[j].keys) < Len(Layout.chords[i].keys)
           \/ Len(Layout.chords[j].keys) = Len(Layout.chords[i].keys) /\ j <= i
<1>. DEFINE n == Len(Layout.chords)
            size(i) == Len(Layout.chords[i].keys)
<1>1. n \in Nat /\ DOMAIN Layout.chords = 1..n
  BY LayoutAssumption
<1>2. \A i \in C : size(i) \in Nat /\ i \in 1..n
  <2>1. ASSUME NEW i \in C  PROVE size(i) \in Nat
    <3>1. Layout.chords[i] \in ChordRule
      BY <1>1, LayoutAssumption
    <3>. QED  BY <3>1 DEF ChordRule
  <2>. QED  BY <1>1, <2>1
<1>3. PICK b \in Nat : \A i \in C : size(i) <= b
  BY ChordSizesBounded
<1>. HIDE DEF size, n
<1>. DEFINE S == {m \in Nat : \E i \in C : m = b - size(i)}
<1>4. S # {}
  <2>1. PICK i \in C : TRUE
    OBVIOUS
  <2>2. b - size(i) \in Nat
    BY <1>2, <1>3
  <2>. QED  BY <2>2
<1>5. PICK m \in S : \A y \in S : m <= y
  <2>1. S \in SUBSET Nat
    OBVIOUS
  <2>. HIDE DEF S
  <2>. QED  BY <1>4, <2>1, LeastNat
<1>6. \A j \in C : size(j) <= b - m
  <2>1. ASSUME NEW j \in C  PROVE size(j) <= b - m
    <3>1. b - size(j) \in S
      BY <1>2, <1>3
    <3>2. m <= b - size(j) /\ size(j) \in Nat /\ m \in Nat
      BY <1>2, <1>5, <3>1
    <3>. QED  BY <3>2
  <2>. QED  BY <2>1
<1>. DEFINE L == {i \in C : size(i) = b - m}
            T == {x \in Nat : \E i \in L : x = n - i}
<1>7. PICK i0 \in L : TRUE
  <2>1. PICK i \in C : m = b - size(i)
    BY <1>5
  <2>2. size(i) = b - m
    BY <1>2, <2>1
  <2>. QED  BY <2>2
<1>8. T # {}
  <2>1. n - i0 \in Nat
    BY <1>1, <1>2, <1>7
  <2>. QED  BY <1>7, <2>1
<1>9. PICK t \in T : \A y \in T : t <= y
  <2>1. T \in SUBSET Nat
    OBVIOUS
  <2>. HIDE DEF T
  <2>. QED  BY <1>8, <2>1, LeastNat
<1>10. PICK i \in L : t = n - i
  BY <1>9
<1>11. \A j \in C : size(j) < size(i) \/ (size(j) = size(i) /\ j <= i)
  <2>1. ASSUME NEW j \in C, size(j) = size(i)  PROVE j <= i
    <3>1. j \in L /\ j \in 1..n /\ i \in 1..n
      BY <1>2, <1>10, <2>1
    <3>2. n - j \in T
      BY <1>1, <3>1
    <3>3. n - i <= n - j
      BY <1>9, <1>10, <3>2
    <3>. QED  BY <1>1, <3>1, <3>3
  <2>2. \A j \in C : size(j) <= size(i) /\ size(j) \in Nat /\ size(i) \in Nat
    BY <1>2, <1>6, <1>10
  <2>. QED  BY <2>1, <2>2
<1>. QED  BY <1>10, <1>11 DEF size

(* A regular key that completes a mutual chord is matched with one. *)
LEMMA MatchFound ==
  ASSUME NEW k, NEW h, NEW i \in MutualChords, k \in ChordKeys(i), ChordKeys(i) \subseteq h
  PROVE  MutualChordMatch(k, h) # {}
<1>. DEFINE complete == {j \in MutualChords : k \in ChordKeys(j) /\ ChordKeys(j) \subseteq h}
            fresh == {j \in complete : ChordKeys(j) \cap consumed \subseteq {k}}
            best  == IF fresh # {} THEN fresh ELSE complete
<1>1. best \in SUBSET DOMAIN Layout.chords /\ best # {}
  BY DEF MutualChords
<1>. HIDE DEF best
<1>2. PICK j \in best : \A o \in best :
        \/ Len(Layout.chords[o].keys) < Len(Layout.chords[j].keys)
        \/ Len(Layout.chords[o].keys) = Len(Layout.chords[j].keys) /\ o <= j
  BY <1>1, LongestChord
<1>. QED  BY <1>2 DEF MutualChordMatch, best

(* The chord matched is one that is complete, and no longer one that is as *)
(* fresh is complete.                                                      *)
LEMMA MatchIsLongest ==
  ASSUME NEW k, NEW h, NEW m \in MutualChordMatch(k, h)
  PROVE  /\ m \in MutualChords /\ k \in ChordKeys(m) /\ ChordKeys(m) \subseteq h
         /\ \A e \in MutualChords :
              /\ k \in ChordKeys(e) /\ ChordKeys(e) \subseteq h
              /\ Len(Layout.chords[e].keys) > Len(Layout.chords[m].keys)
              => /\ ~(ChordKeys(e) \cap consumed \subseteq {k})
                 /\ ChordKeys(m) \cap consumed \subseteq {k}
         /\ \A e \in MutualChords :
              /\ k \in ChordKeys(e) /\ ChordKeys(e) \subseteq h
              /\ ChordKeys(e) \cap consumed \subseteq {k}
              => ChordKeys(m) \cap consumed \subseteq {k}
<1>. DEFINE complete == {j \in MutualChords : k \in ChordKeys(j) /\ ChordKeys(j) \subseteq h}
            fresh == {j \in complete : ChordKeys(j) \cap consumed \subseteq {k}}
            best  == IF fresh # {} THEN fresh ELSE complete
            size(i) == Len(Layout.chords[i].keys)
<1>1. m \in best /\ \A j \in best : size(j) < size(m) \/ (size(j) = size(m) /\ j <= m)
  BY DEF MutualChordMatch
<1>2. \A i \in MutualChords : size(i) \in Nat
  <2>1. ASSUME NEW i \in MutualChords  PROVE size(i) \in Nat
    <3>1. Layout.chords[i] \in ChordRule
      BY LayoutAssumption DEF MutualChords
    <3>. QED  BY <3>1 DEF ChordRule
  <2>. QED  BY <2>1
<1>3. m \in MutualChords /\ best \subseteq MutualChords
  BY <1>1
<1>. HIDE DEF size
<1>4. \A e \in best : ~(size(e) > size(m))
  BY <1>1, <1>2, <1>3
<1>. QED  BY <1>1, <1>3, <1>4 DEF size

(* The closure of a layout's mutual chords, in the terms of the matcher.   *)
LEMMA ClosedMutuals ==
  ASSUME MutualsClosed(Layout)
  PROVE  /\ \A c, d \in MutualChords :
              ChordKeys(c) \cap ChordKeys(d) # {} /\ ~(ChordKeys(d) \subseteq ChordKeys(c)) =>
                \E e \in MutualChords :
                  /\ ChordKeys(e) = ChordKeys(c) \cup ChordKeys(d)
                  /\ Len(Layout.chords[e].keys) > Len(Layout.chords[c].keys)
         /\ \A c \in MutualChords : \A k, x \in ChordKeys(c) : k # x =>
              \E d \in MutualChords : /\ x \in ChordKeys(d)
                                      /\ ChordKeys(d) \subseteq ChordKeys(c)
                                      /\ k \notin ChordKeys(d) \/ ChordKeys(d) = {k, x}
BY DEF MutualsClosed, MutualChords, ChordKeys

(* The chord that fires consumes all the chords its last key completes:    *)
(* what is not in it was consumed before.                                  *)
LEMMA FiredCovers ==
  ASSUME MutualsClosed(Layout), HeldChordFired,
         NEW k, NEW m \in MutualChordMatch(k, held \cup {k}),
         NEW c \in MutualChords, k \in ChordKeys(c), ChordKeys(c) \subseteq held \cup {k}
  PROVE  ChordKeys(c) \subseteq consumed \cup ChordKeys(m)
<1>1. /\ m \in MutualChords /\ k \in ChordKeys(m) /\ ChordKeys(m) \subseteq held \cup {k}
  BY MatchIsLongest
<1>2. SUFFICES ASSUME NEW x \in ChordKeys(c), x # k, x \notin consumed
               PROVE  x \in ChordKeys(m)
  BY <1>1
<1>3. CASE ~(ChordKeys(m) \cap consumed \subseteq {k})
  <2>1. SUFFICES ASSUME ~(ChordKeys(c) \subseteq ChordKeys(m))  PROVE FALSE
    OBVIOUS
  <2>2. PICK e \in MutualChords :
          /\ ChordKeys(e) = ChordKeys(m) \cup ChordKeys(c)
          /\ Len(Layout.chords[e].keys) > Len(Layout.chords[m].keys)
    BY <1>1, <2>1, ClosedMutuals
  <2>3. k \in ChordKeys(e) /\ ChordKeys(e) \subseteq held \cup {k}
    BY <1>1, <2>2
  <2>. QED  BY <1>3, <2>2, <2>3, MatchIsLongest
<1>4. CASE ChordKeys(m) \cap consumed \subseteq {k}
  <2>1. PICK d \in MutualChords : /\ x \in ChordKeys(d)
                                  /\ ChordKeys(d) \subseteq ChordKeys(c)
                                  /\ k \notin ChordKeys(d) \/ ChordKeys(d) = {k, x}
    BY <1>2, ClosedMutuals
  <2>2. CASE k \notin ChordKeys(d)
    <3>1. ChordKeys(d) \subseteq held
      BY <2>1, <2>2
    <3>. QED  BY <1>2, <2>1, <3>1 DEF HeldChordFired
  <2>3. CASE ChordKeys(d) = {k, x}
    <3>1. SUFFICES ASSUME x \notin ChordKeys(m)  PROVE FALSE
      OBVIOUS
    <3>2. PICK e \in MutualChords :
            /\ ChordKeys(e) = ChordKeys(m) \cup ChordKeys(d)
            /\ Len(Layout.chords[e].keys) > Len(Layout.chords[m].keys)
      BY <1>1, <2>3, <3>1, ClosedMutuals
    <3>3. /\ k \in ChordKeys(e) /\ ChordKeys(e) \subseteq held \cup {k}
          /\ ChordKeys(e) \cap consumed \subseteq {k}
      BY <1>1, <1>2, <1>4, <2>1, <2>3, <3>2
    <3>. QED  BY <3>2, <3>3, MatchIsLongest
  <2>. QED  BY <2>1, <2>2, <2>3
<1>. QED  BY <1>3, <1>4

(* A key that goes down leaves no chord it completes unfired. *)
LEMMA ChordsStayFired ==
  ASSUME HeldChordFired, NEW k, held' \subseteq held \cup {k}, consumed \subseteq consumed',
         \A c \in MutualChords : k \in ChordKeys(c) /\ ChordKeys(c) \subseteq held' =>
           ChordKeys(c) \subseteq consumed'
  PROVE  HeldChordFired'
<1>1. \A c \in MutualChords : ChordKeys(c) \subseteq held' => ChordKeys(c) \subseteq consumed'
  BY DEF HeldChordFired
<1>. QED  BY <1>1 DEF HeldChordFired, MutualChords, ChordKeys

(* The layouts the theorem is about, and the invariant. *)
MutualConfig == MutualsClosed(Layout) /\ MutualsFirst(Layout)
FiredInv == HeldChordFired /\ trigger = "Inactive" /\ TypeOK

(* A regular key that no control key is, and what comes before the chords. *)
LEMMA KeyDownFires ==
  ASSUME MutualConfig, FiredInv, NEW k \in Keys, NEW shift \in BOOLEAN, KeyDown(k, shift)
  PROVE  HeldChordFired' /\ trigger' = "Inactive"
<1>1. ~DirectActive
  BY DEF DirectActive, FiredInv, MutualConfig, MutualsFirst
<1>2. ASSUME UNCHANGED <<held, consumed>>  PROVE HeldChordFired'
  BY <1>2 DEF FiredInv, HeldChordFired, MutualChords, ChordKeys
<1>3. ASSUME EnterRegular(k), UNCHANGED consumed, MutualChordMatch(k, HeldAt(k)) = {}
      PROVE  HeldChordFired'
  <2>1. held' = HeldAt(k) /\ held' \subseteq held \cup {k}
    BY <1>3 DEF EnterRegular, HeldAt
  <2>2. \A c \in MutualChords : ~(k \in ChordKeys(c) /\ ChordKeys(c) \subseteq held')
    BY <1>3, <2>1, MatchFound
  <2>. QED  BY <1>3, <2>1, <2>2, ChordsStayFired DEF FiredInv
<1>4. CASE HeldKeyDown(k)
  BY <1>2, <1>4 DEF HeldKeyDown, FiredInv
<1>5. CASE ModifierKeyDown(k)
  BY <1>2, <1>5 DEF ModifierKeyDown, FiredInv, trig
<1>6. CASE TriggerOn(k) \/ TriggerOff(k)
  BY <1>6 DEF TriggerOn, TriggerOff, IsTriggerKey, MutualConfig, MutualsFirst
<1>7. CASE BackspaceDown(k)
  BY <1>2, <1>7 DEF BackspaceDown, FiredInv, trig
<1>8. CASE DirectKey(k)
  BY <1>1, <1>8 DEF DirectKey
<1>9. CASE LayerKey(k)
  <2>1. PICK i \in DOMAIN modifiers : k \in DOMAIN Layout.modified[i]
    BY <1>9 DEF LayerKey, ModifiedLayer, FirstOf
  <2>2. i \in DOMAIN Layout.modified
    BY <2>1, LayoutAssumption DEF FiredInv, TypeOK
  <2>3. \A c \in MutualChords : k \notin ChordKeys(c)
    BY <2>1, <2>2 DEF MutualConfig, MutualsFirst, MutualChords, ChordKeys
  <2>4. held' \subseteq held \cup {k} /\ UNCHANGED consumed /\ UNCHANGED trig
    BY <1>9 DEF LayerKey, EnterRegular, HeldAt
  <2>. QED  BY <2>3, <2>4, ChordsStayFired DEF FiredInv, trig
<1>10. CASE ChordKey(k)
  <2>1. PICK m \in MutualChordMatch(k, HeldAt(k)) : consumed' = consumed \cup ChordKeys(m)
    BY <1>10 DEF ChordKey
  <2>2. k \notin held /\ held' = HeldAt(k) /\ UNCHANGED trig
    BY <1>10 DEF ChordKey, EnterRegular, Regular
  <2>3. k \in HeldAt(k)
    BY <2>1, MatchIsLongest
  <2>4. HeldAt(k) = held \cup {k}
    BY <2>2, <2>3 DEF HeldAt
  <2>5. \A c \in MutualChords : k \in ChordKeys(c) /\ ChordKeys(c) \subseteq held' =>
          ChordKeys(c) \subseteq consumed'
    BY <2>1, <2>2, <2>4, FiredCovers DEF FiredInv, MutualConfig
  <2>. QED  BY <2>1, <2>2, <2>4, <2>5, ChordsStayFired DEF FiredInv, trig
<1>11. CASE \/ RuleKey(k) \/ WaitingKey(k) \/ UnassignedKey(k, shift)
            \/ PassthroughKey(k) \/ WholeCellKey(k) \/ SpeculativeKey(k)
  <2>1. Speculative(k)
    BY <1>11 DEF RuleKey, WaitingKey, UnassignedKey, PassthroughKey, WholeCellKey,
                 SpeculativeKey, BaseKey, Unresolved
  <2>. QED  BY <1>3, <2>1 DEF Speculative, trig, FiredInv
<1>. QED  BY <1>4, <1>5, <1>6, <1>7, <1>8, <1>9, <1>10, <1>11 DEF KeyDown

(* A mutual chord whose keys are held has fired, whatever events arrive.   *)
LEMMA ChordsFire == MutualConfig => (Spec => []HeldChordFired)
<1>. SUFFICES ASSUME MutualConfig  PROVE Spec => []HeldChordFired
  OBVIOUS
<1>1. Init => FiredInv
  BY InitType DEF Init, FiredInv, HeldChordFired
<1>2. FiredInv /\ [Next]_vars => FiredInv'
  <2>1. SUFFICES ASSUME FiredInv, [Next]_vars  PROVE HeldChordFired' /\ trigger' = "Inactive"
    BY NextType DEF FiredInv
  <2>. USE DEF HeldChordFired, MutualChords, ChordKeys
  <2>2. ASSUME NEW k \in Keys, NEW shift \in BOOLEAN, KeyDown(k, shift)
        PROVE  HeldChordFired' /\ trigger' = "Inactive"
    BY <2>1, <2>2, KeyDownFires
  <2>3. ASSUME NEW k \in Keys, KeyUp(k)
        PROVE  HeldChordFired' /\ trigger' = "Inactive"
    <3>1. LeaveHeld(k)
      BY <2>3 DEF KeyUp, ModifierKeyUp, ModifierTap, TriggerUp, RegularKeyUp
    <3>2. trigger' = trigger \/ trigger' = "Inactive"
      BY <2>3 DEF KeyUp, ModifierKeyUp, ModifierTap, TriggerUp, RegularKeyUp, trig
    <3>3. HeldChordFired'
      BY <2>1, <3>1 DEF LeaveHeld, FiredInv
    <3>. QED  BY <2>1, <3>2, <3>3 DEF FiredInv
  <2>4. CASE Tick
    BY <2>1, <2>4 DEF Tick, FiredInv, trig
  <2>5. CASE Reset
    BY <2>1, <2>5 DEF Reset, FiredInv
  <2>6. CASE NotifyConversion
    BY <2>1, <2>6 DEF NotifyConversion, FiredInv, trig
  <2>7. CASE NotifyComposition \/ Advance
    BY <2>1, <2>7 DEF NotifyComposition, Advance, FiredInv, trig
  <2>8. CASE UNCHANGED vars
    BY <2>1, <2>8 DEF vars, FiredInv
  <2>. QED  BY <2>1, <2>2, <2>3, <2>4, <2>5, <2>6, <2>7, <2>8 DEF Next
<1>3. FiredInv => HeldChordFired
  BY DEF FiredInv
<1>. QED  BY <1>1, <1>2, <1>3, PTL DEF Spec

(* Under the keyboard: a held chord has fired, in whatever order its keys  *)
(* went down and whichever of them were released and pressed again.        *)
THEOREM HeldChordsFire == MutualConfig => (FeedbackSpec => []HeldChordFired)
BY ChordsFire, KeyboardIsCaller

(* Of the chords that a press completes, whatever the layout, one fires:   *)
(* the key is not lost between chords that overlap.  (Which one, is what   *)
(* MatchIsLongest says; a key of direct input or of an active layer is     *)
(* none of a chord's.)                                                     *)
ChordAnswered(k) == \E c \in MutualChords : k \in ChordKeys(c) /\ ChordKeys(c) \subseteq consumed'
LastKeyFires ==
  [][\A k \in held' \ held :
       ~DirectActive /\ ModifiedLayer(k) = {} =>
         \A c \in MutualChords : k \in ChordKeys(c) /\ ChordKeys(c) \subseteq held' =>
           ChordAnswered(k)]_vars

(* In every layout, also one whose chords overlap without being closed     *)
(* (naginata): the press that completes a mutual chord fires one that      *)
(* contains its key.                                                       *)
THEOREM CompletedChordsFire == Spec => LastKeyFires
<1>. DEFINE Step == \A k \in held' \ held :
              ~DirectActive /\ ModifiedLayer(k) = {} =>
                \A c \in MutualChords : k \in ChordKeys(c) /\ ChordKeys(c) \subseteq held' =>
                  ChordAnswered(k)
<1>1. [Next]_vars => [Step]_vars
  <2>1. SUFFICES ASSUME Next, NEW k \in held' \ held, ~DirectActive, ModifiedLayer(k) = {},
                        NEW c \in MutualChords, k \in ChordKeys(c), ChordKeys(c) \subseteq held'
                 PROVE  ChordAnswered(k)
    OBVIOUS
  <2>2. PICK x \in Keys, shift \in BOOLEAN : KeyDown(x, shift)
    <3>1. ASSUME NEW y \in Keys, KeyUp(y)  PROVE FALSE
      BY <2>1, <3>1, KeyUpReleases
    <3>. QED  BY <2>1, <3>1, OthersHold DEF Next
  <2>3. EnterRegular(x)
    <3>1. CASE HeldKeyDown(x) \/ ModifierKeyDown(x) \/ TriggerOn(x) \/ TriggerOff(x)
               \/ BackspaceDown(x)
      BY <2>1, <3>1 DEF HeldKeyDown, ModifierKeyDown, TriggerOn, TriggerOff, BackspaceDown
    <3>2. CASE DirectKey(x) \/ LayerKey(x) \/ ChordKey(x)
      BY <3>2 DEF DirectKey, LayerKey, ChordKey
    <3>3. CASE \/ RuleKey(x) \/ WaitingKey(x) \/ UnassignedKey(x, shift)
               \/ PassthroughKey(x) \/ WholeCellKey(x) \/ SpeculativeKey(x)
      BY <3>3 DEF RuleKey, WaitingKey, UnassignedKey, PassthroughKey, WholeCellKey,
                  SpeculativeKey, BaseKey, Unresolved, Speculative
    <3>. QED  BY <2>2, <3>1, <3>2, <3>3 DEF KeyDown
  <2>4. x = k /\ held' = HeldAt(k)
    BY <2>1, <2>3 DEF EnterRegular, HeldAt
  <2>5. MutualChordMatch(k, HeldAt(k)) # {}
    BY <2>1, <2>4, MatchFound
  <2>6. ChordKey(k)
    <3>1. ~HeldKeyDown(k)
      BY <2>1 DEF HeldKeyDown
    <3>2. ~ModifierKeyDown(k) /\ ~TriggerOn(k) /\ ~TriggerOff(k) /\ ~BackspaceDown(k)
      BY <2>1 DEF ModifierKeyDown, TriggerOn, TriggerOff, BackspaceDown
    <3>3. ~DirectKey(k) /\ ~LayerKey(k)
      BY <2>1 DEF DirectKey, LayerKey
    <3>4. ~Speculative(k)
      BY <2>5 DEF Speculative
    <3>. QED  BY <2>2, <2>4, <3>1, <3>2, <3>3, <3>4
              DEF KeyDown, RuleKey, WaitingKey, UnassignedKey, PassthroughKey, WholeCellKey,
                  SpeculativeKey, BaseKey, Unresolved
  <2>7. PICK m \in MutualChordMatch(k, HeldAt(k)) : consumed' = consumed \cup ChordKeys(m)
    BY <2>6 DEF ChordKey
  <2>8. m \in MutualChords /\ k \in ChordKeys(m)
    BY MatchIsLongest
  <2>. QED  BY <2>7, <2>8 DEF ChordAnswered
<1>. QED  BY <1>1, PTL DEF Spec, LastKeyFires
=============================================================================
