---------------------------- MODULE StateMachine ----------------------------
(***************************************************************************)
(* The keyboard state machine of mzkana-core (src/statemachine.rs): it     *)
(* turns key presses and releases into OutputActions for Mozc, emitting    *)
(* kana speculatively and rewriting them when a chord or a sequence        *)
(* completes.                                                              *)
(*                                                                         *)
(* The variables are the fields of struct StateMachine plus the clock the  *)
(* caller passes in (now) and the Vec<OutputAction> the last call returned *)
(* (out).  KeyDown(k, shift), KeyUp(k) and Tick are process() and tick();  *)
(* each early return of the code is an action of its own.                  *)
(*                                                                         *)
(* Output strings are kept as the token sequences that resolve_sequence()  *)
(* makes of them (a "cell"); a kana token is the sequence of its           *)
(* characters, because its length is the number of BackSpaces a rewrite    *)
(* sends.  Layers with the same trigger or modifier are merged (the first  *)
(* grid that has the key wins, as the code's loops do).                    *)
(***************************************************************************)
EXTENDS Integers, SequencesExt

CONSTANTS
  Keys,          \* the key names the caller may deliver
  Layout,        \* the compiled layout, see LayoutAssumption
  MaxTime,       \* bound: the clock stops here
  LastEvent,     \* bound: no key event after this time, so every deadline passes
  MaxTentative,  \* bound: no key event with a longer tentative buffer
  MaxPending     \* bound: no key event with more pending keys

MOZC_CONTROL_KEYS ==
  {"space", "Return", "Tab", "Left", "Right", "Up", "Down", "Home", "End",
   "Prior", "Next", "Delete", "Escape", "Henkan", "Muhenkan",
   "Hiragana_Katakana"}
BackspaceKeys == {"bs", "BackSpace", "backspace"}

(* Tokens of an output string, by what make_output_action makes of them.   *)
Token   == [kind : {"kana", "fn", "mod"}, text : Seq(STRING)]
Kana(t) == [kind |-> "kana", text |-> t]
Fn(k)   == [kind |-> "fn",   text |-> <<k>>]
Mod(k)  == [kind |-> "mod",  text |-> <<k>>]

(* config.rs stores an "XX" cell as this three-character marker string.    *)
PASSTHROUGH_CELL == <<Kana(<<"NUL", "p", "t">>)>>

(* Option<Instant> and Option<u32>: None.                                  *)
NoDeadline == -1
NoWindow   == -1

IsGrid(g) == /\ DOMAIN g \subseteq Keys
             /\ g \in [DOMAIN g -> Seq(Token)]

ModifierDef == [keys : SUBSET Keys,
                kind : {"Hold", "Oneshot", "Toggle"},
                holdDetection : {"Interrupt", "Timeout"},
                holdTimeout : Nat,
                tapAction : {"Passthrough", "BaseKana", "Output", "None"},
                tapOutput : Seq(Token)]

ChordRule == [keys : Seq(Keys), symmetric : BOOLEAN,
              window : Nat \cup {NoWindow}, output : Seq(Token)]

ASSUME KeysAssumption == Keys \subseteq STRING

ASSUME LayoutAssumption ==
  /\ IsGrid(Layout.base)
  /\ \A k \in DOMAIN Layout.base : Layout.base[k] # <<>>
  /\ DOMAIN Layout.prefix \subseteq Keys
  /\ \A t \in DOMAIN Layout.prefix : IsGrid(Layout.prefix[t])
  /\ DOMAIN Layout.postfix \subseteq Keys
  /\ \A t \in DOMAIN Layout.postfix : IsGrid(Layout.postfix[t])
  /\ Layout.modifiers \in Seq(ModifierDef)
  /\ DOMAIN Layout.modified = DOMAIN Layout.modifiers
  /\ \A i \in DOMAIN Layout.modified : IsGrid(Layout.modified[i])
  /\ Layout.chords \in Seq(ChordRule)
  /\ Layout.triggerKeys \subseteq Keys
  /\ Layout.triggerKind \in {"Hold", "Toggle"}
  /\ Layout.triggerTap \in {"Passthrough", "None"}
  /\ Layout.kanchoku \in BOOLEAN
  /\ \A s \in DOMAIN Layout.directs : s \in Seq(Keys)
  /\ Layout.directs \in [DOMAIN Layout.directs -> Seq(Token)]
  /\ Layout.chordWindow \in Nat
  /\ Layout.mutualWindow \in Nat

ASSUME BoundAssumption ==
  /\ MaxTime \in Nat
  /\ LastEvent \in Nat
  /\ MaxTentative \in Nat
  /\ MaxPending \in Nat

VARIABLES
  pending,             \* pending_keys: [key, ts] in press order
  tentative,           \* tentative_buffer
  modifiers,           \* modifier_states
  trigger,             \* direct_trigger_state
  triggerInterrupted,  \* direct_trigger_interrupted
  mozcMode,            \* mozc_mode
  chordDeadline,       \* chord_deadline
  held,                \* held_keys
  consumed,            \* chord_consumed_keys
  now,                 \* the Instant passed to the next call
  out                  \* the OutputActions returned by the last call

buffers == <<pending, tentative, chordDeadline>>
trig    == <<trigger, triggerInterrupted>>
vars == <<pending, tentative, modifiers, trigger, triggerInterrupted,
          mozcMode, chordDeadline, held, consumed, now, out>>

PendingKey    == [key : Keys, ts : Nat]
TentativeChar == [kana : Seq(STRING), src : Seq(Keys),
                  deadline : Nat \cup {NoDeadline},
                  tail : Seq(Token), confirmed : BOOLEAN]
ModifierState == [pressed : SUBSET Keys, interrupted : BOOLEAN,
                  pressedAt : Nat, oneshot : BOOLEAN, toggled : BOOLEAN]

NewChar(kana, src, deadline, tail) ==
  [kana |-> kana, src |-> src, deadline |-> deadline, tail |-> tail,
   confirmed |-> FALSE]

-----------------------------------------------------------------------------
(* OutputActions, and the pure helpers of the state machine.               *)

Action(act, text) == [act |-> act, text |-> text]

ActionName(kind) == CASE kind = "kana" -> "SendKana"
                      [] kind = "fn"   -> "SendFunctionKey"
                      [] kind = "mod"  -> "SendModifiedKey"

(* make_output_action, over a cell *)
Outputs(cell) ==
  [i \in DOMAIN cell |-> Action(ActionName(cell[i].kind), cell[i].text)]

(* The elements of s at the indices I, in order: what Vec::retain and      *)
(* filter leave.  (SelectSeq, written without recursion.)                  *)
Retained(s, I) ==
  LET n   == Cardinality(I)
      nth == CHOOSE f \in [1..n -> I] :
                \A a, b \in 1..n : a < b => f[a] < f[b]
  IN  [a \in 1..n |-> s[nth[a]]]

(* Mutant of Pushed: the kana are stored as the source keys, and back. *)
PushedSwapped(tb, cell, src) ==
  LET kana == Retained(cell, {i \in DOMAIN cell : cell[i].kind = "kana"})
  IN  tb \o [i \in DOMAIN kana |-> NewChar(src, kana[i].text, NoDeadline, <<>>)]

(* emit_sequence: function and modifier keys leave no tentative char *)
Pushed(tb, cell, src) ==
  LET kana == Retained(cell, {i \in DOMAIN cell : cell[i].kind = "kana"})
  IN  tb \o [i \in DOMAIN kana |-> NewChar(kana[i].text, src, NoDeadline, <<>>)]

(* tentative_kana_string: the characters of a buffer *)
TextOf(tb) == FlattenSeq([i \in DOMAIN tb |-> tb[i].kana])

(* Mutants of Backspaces: one per entry, or one too many. *)
BackspacesPerEntry(tb, n) == [c \in 1..(Len(tb) - n) |-> Action("Backspace", <<>>)]
BackspacesBeyond(tb, n) ==
  [c \in 1..(Len(TextOf(SubSeq(tb, n + 1, Len(tb)))) + 1) |-> Action("Backspace", <<>>)]

(* pop_tentative: one Backspace per preedit character after entry n *)
Backspaces(tb, n) ==
  [c \in 1..Len(TextOf(SubSeq(tb, n + 1, Len(tb)))) |-> Action("Backspace", <<>>)]

(* Mutants of Locked and Unaffected: a released key does not lock its char *)
(* in; only the last char is popped; nothing is popped.                    *)
LockedBySource(tb, ruleKeys) ==
  {i \in DOMAIN tb : ~(ToSet(tb[i].src) \subseteq ruleKeys)}
LastOnly(tb, ruleKeys) ==
  Max({0, Len(tb) - 1} \cup {i \in DOMAIN tb : ~(ToSet(tb[i].src) \subseteq ruleKeys)})
NothingPopped(tb, ruleKeys) == Len(tb)

(* The entries a rule over ruleKeys may not rewrite, and how many entries  *)
(* remain once the trailing run of the others is popped.                   *)
Locked(tb, ruleKeys) ==
  {i \in DOMAIN tb : tb[i].confirmed \/ ~(ToSet(tb[i].src) \subseteq ruleKeys)}
Unaffected(tb, ruleKeys) == Max({0} \cup Locked(tb, ruleKeys))

(* Mutants of EarliestDeadline and SoonerOf: the deadline is dropped, or   *)
(* overwritten by the newest.                                              *)
DroppedDeadline(tb) == NoDeadline
NewestOf(current, deadline) == deadline

(* update_chord_deadline *)
EarliestDeadline(tb) ==
  LET D == {tb[i].deadline : i \in DOMAIN tb} \ {NoDeadline}
  IN  IF D = {} THEN NoDeadline ELSE Min(D)

SoonerOf(current, deadline) ==
  IF current = NoDeadline \/ deadline < current THEN deadline ELSE current

TimedChords  == {i \in DOMAIN Layout.chords : ~Layout.chords[i].symmetric}
MutualChords == {i \in DOMAIN Layout.chords : Layout.chords[i].symmetric}
ChordKeys(i) == ToSet(Layout.chords[i].keys)

HasTimedChord(k)  == \E i \in TimedChords :
                        k \in ChordKeys(i) /\ Len(Layout.chords[i].keys) > 1
HasMutualChord(k) == \E i \in MutualChords :
                        k \in ChordKeys(i) /\ Len(Layout.chords[i].keys) > 1

(* chord_window_for *)
ChordWindowFor(k) ==
  LET own == {i \in TimedChords : /\ k \in ChordKeys(i)
                                  /\ Layout.chords[i].window # NoWindow}
  IN  IF own = {} THEN Layout.chordWindow ELSE Layout.chords[Min(own)].window

(* has_prefix_continuation *)
PrefixPending(p) == p # <<>> /\ p[1].key \in DOMAIN Layout.prefix

(* Mutant of Pruned: stale keys stay pending. *)
Unpruned(p) == p

(* prune_expired_pending *)
Pruned(p) ==
  IF Len(p) < 2 \/ PrefixPending(p)
  THEN p
  ELSE Retained(p, {i \in DOMAIN p : now - p[i].ts <= ChordWindowFor(p[i].key)})

(* First chord in layout order, of those in the set of indices C *)
FirstOf(C) == {i \in C : \A j \in C : i <= j}

PendingNames(p) == [i \in DOMAIN p |-> p[i].key]

(* try_resolve_pending (prefix layers, then timed chords) and              *)
(* try_resolve_postfix: the rule the pending keys p complete, if any, as a *)
(* set of at most one [output, src].                                       *)
PrefixRule(p) ==
  IF /\ Len(p) = 2
     /\ p[1].key \in DOMAIN Layout.prefix
     /\ p[2].key \in DOMAIN Layout.prefix[p[1].key]
  THEN {[output |-> Layout.prefix[p[1].key][p[2].key], src |-> PendingNames(p)]}
  ELSE {}

TimedChordRule(p) ==
  IF Len(p) < 2 THEN {}
  ELSE {[output |-> Layout.chords[i].output, src |-> PendingNames(p)] :
          i \in FirstOf({j \in TimedChords : ChordKeys(j) = ToSet(PendingNames(p))})}

PostfixRule(tb, k) ==
  IF /\ tb # <<>>
     /\ k \in DOMAIN Layout.postfix
     /\ tb[Len(tb)].src # <<>>
     /\ tb[Len(tb)].src[1] \in DOMAIN Layout.postfix[k]
  THEN {[output |-> Layout.postfix[k][tb[Len(tb)].src[1]],
         src |-> Append(tb[Len(tb)].src, k)]}
  ELSE {}

ResolvedRule(p, tb, k) ==
  CASE PrefixRule(p) # {}     -> PrefixRule(p)
    [] PrefixRule(p) = {} /\ TimedChordRule(p) # {} -> TimedChordRule(p)
    [] OTHER                  -> PostfixRule(tb, k)

(* Mutant of MutualChordMatch: a consumed partner never matches again. *)
FreshChordMatch(k, h) ==
  LET fresh == {i \in MutualChords : /\ k \in ChordKeys(i) /\ ChordKeys(i) \subseteq h
                                     /\ ChordKeys(i) \cap consumed \subseteq {k}}
      size(i) == Len(Layout.chords[i].keys)
  IN  {i \in fresh : \A j \in fresh : size(j) < size(i) \/ (size(j) = size(i) /\ j <= i)}

(* find_mutual_chord_match: the chord that k completes given the held keys *)
(* h, preferring fresh partners, then length, then the later definition.   *)
MutualChordMatch(k, h) ==
  LET complete == {i \in MutualChords : k \in ChordKeys(i) /\ ChordKeys(i) \subseteq h}
      fresh == {i \in complete : ChordKeys(i) \cap consumed \subseteq {k}}
      best  == IF fresh # {} THEN fresh ELSE complete
      size(i) == Len(Layout.chords[i].keys)
  IN  {i \in best : \A j \in best : size(j) < size(i) \/ (size(j) = size(i) /\ j <= i)}

(* modifier_index: the first modifier the key activates (at most one)      *)
ModifierIndex(k) ==
  FirstOf({i \in DOMAIN Layout.modifiers : k \in Layout.modifiers[i].keys})
IsModifier(k) == ModifierIndex(k) # {}

(* check_modified_layer: the first active modifier whose layer has k       *)
LayerActive(i) ==
  LET ms == modifiers[i]  def == Layout.modifiers[i]
  IN  \/ ms.oneshot
      \/ ms.toggled
      \/ /\ ms.pressed # {}
         /\ \/ def.holdDetection = "Interrupt"
            \/ now - ms.pressedAt >= def.holdTimeout
ModifiedLayer(k) ==
  FirstOf({i \in DOMAIN modifiers : LayerActive(i) /\ k \in DOMAIN Layout.modified[i]})

(* Mutant of DirectActive: the trigger is ignored. *)
KanchokuOnly == Layout.kanchoku

(* is_direct_active; a direct sequence that continues s                    *)
DirectActive == trigger = "Active" \/ Layout.kanchoku
DirectPrefix(s) == \E d \in DOMAIN Layout.directs : IsPrefix(s, d) /\ Len(d) > Len(s)

-----------------------------------------------------------------------------
Init ==
  /\ pending = <<>>
  /\ tentative = <<>>
  /\ modifiers = [i \in DOMAIN Layout.modifiers |->
                    [pressed |-> {}, interrupted |-> FALSE, pressedAt |-> 0,
                     oneshot |-> FALSE, toggled |-> FALSE]]
  /\ trigger = "Inactive"
  /\ triggerInterrupted = FALSE
  /\ mozcMode = "Composition"
  /\ chordDeadline = NoDeadline
  /\ held = {}
  /\ consumed = {}
  /\ now = 0
  /\ out = <<>>

-----------------------------------------------------------------------------
(* process_key_down: the key events before a regular key is looked up.     *)

(* auto-repeat guard *)
HeldKeyDown(k) ==
  /\ k \in held
  /\ out' = <<>>
  /\ UNCHANGED <<pending, tentative, modifiers, trigger, triggerInterrupted,
                 mozcMode, chordDeadline, held, consumed, now>>

ModifierPressed(def, ms, k) ==
  CASE def.kind = "Toggle"  -> [ms EXCEPT !.toggled = ~ms.toggled]
    [] def.kind = "Oneshot" -> [ms EXCEPT !.oneshot = TRUE]
    [] def.kind = "Hold"    ->
         IF ms.pressed = {}
         THEN [ms EXCEPT !.pressed = {k}, !.interrupted = FALSE, !.pressedAt = now]
         ELSE [ms EXCEPT !.pressed = ms.pressed \cup {k}]

ModifierKeyDown(k) ==
  /\ k \notin held
  /\ \E i \in ModifierIndex(k) :
       modifiers' = [modifiers EXCEPT ![i] =
                       ModifierPressed(Layout.modifiers[i], modifiers[i], k)]
  /\ out' = <<>>
  /\ UNCHANGED <<buffers, trig, mozcMode, held, consumed, now>>

IsTriggerKey(k) == k \notin held /\ ~IsModifier(k) /\ k \in Layout.triggerKeys

(* handle_direct_trigger_down *)
TriggerOn(k) ==
  /\ IsTriggerKey(k)
  /\ Layout.triggerKind = "Hold" \/ trigger = "Inactive"
  /\ trigger' = "Active"
  /\ triggerInterrupted' = IF Layout.triggerKind = "Hold" THEN FALSE
                                                          ELSE triggerInterrupted
  /\ out' = Backspaces(tentative, 0)
  /\ tentative' = <<>>
  /\ pending' = <<>>
  /\ UNCHANGED <<modifiers, mozcMode, chordDeadline, held, consumed, now>>

TriggerOff(k) ==
  /\ IsTriggerKey(k)
  /\ Layout.triggerKind = "Toggle" /\ trigger = "Active"
  /\ trigger' = "Inactive"
  /\ pending' = <<>>
  /\ out' = <<>>
  /\ UNCHANGED <<tentative, modifiers, triggerInterrupted, mozcMode,
                 chordDeadline, held, consumed, now>>

(* Mutant of Interrupted: a key press leaves the held modifiers alone. *)
Uninterrupted(ms) == ms

(* Every later branch first marks the held modifiers as interrupted.       *)
Interrupted(ms) ==
  [i \in DOMAIN ms |-> IF ms[i].pressed # {} THEN [ms[i] EXCEPT !.interrupted = TRUE]
                                             ELSE ms[i]]

(* handle_backspace *)
BackspaceDown(k) ==
  /\ k \notin held /\ ~IsModifier(k) /\ k \notin Layout.triggerKeys
  /\ k \in BackspaceKeys
  /\ modifiers' = Interrupted(modifiers)
  /\ LET rest == Len(tentative) - 1
     IN  \/ /\ tentative # <<>>
            /\ tentative' = SubSeq(tentative, 1, rest)
            /\ out' = Backspaces(tentative, rest)
         \/ /\ tentative = <<>>
            /\ out' = IF pending = <<>> THEN <<Action("Backspace", <<>>)>> ELSE <<>>
            /\ UNCHANGED tentative
  /\ pending' = <<>>
  /\ UNCHANGED <<trig, mozcMode, chordDeadline, held, consumed, now>>

-----------------------------------------------------------------------------
(* process_key_down: a regular key.  Fresh: a non-control key during       *)
(* conversion starts a new composition, with empty buffers.                *)

(* Mutant of HeldAt: only the members of a mutual chord are tracked. *)
HeldChordKeys(k) == IF HasMutualChord(k) THEN held \cup {k} ELSE held

Regular(k) == /\ k \notin held /\ ~IsModifier(k)
              /\ k \notin Layout.triggerKeys \cup BackspaceKeys
Fresh(k)   == mozcMode = "Conversion" /\ k \notin MOZC_CONTROL_KEYS
TentativeAt(k) == IF Fresh(k) THEN <<>> ELSE tentative
PendingAt(k)   == IF Fresh(k) THEN <<>> ELSE pending
HeldAt(k)      == IF k \in MOZC_CONTROL_KEYS THEN held ELSE held \cup {k}

EnterRegular(k) ==
  /\ Regular(k)
  /\ held' = HeldAt(k)
  /\ mozcMode' = IF Fresh(k) THEN "Composition" ELSE mozcMode

(* process_direct_key *)
DirectKey(k) ==
  /\ EnterRegular(k)
  /\ DirectActive
  /\ triggerInterrupted' = TRUE
  /\ modifiers' = Interrupted(modifiers)
  /\ LET p     == Append(PendingAt(k), [key |-> k, ts |-> now])
         s     == PendingNames(p)
         flush == Backspaces(TentativeAt(k), 0)
         committed(cell) ==
           [i \in DOMAIN cell |-> IF cell[i].kind = "kana"
                                  THEN Action("CommitDirect", cell[i].text)
                                  ELSE Outputs(cell)[i]]
     IN  \/ /\ s \in DOMAIN Layout.directs
            /\ pending' = <<>>
            /\ tentative' = <<>>
            /\ out' = flush
                      \o (IF flush = <<>> THEN <<>> ELSE <<Action("MozcSubmit", <<>>)>>)
                      \o committed(Layout.directs[s])
         \/ /\ s \notin DOMAIN Layout.directs
            /\ pending' = IF DirectPrefix(s) THEN p ELSE <<>>
            /\ tentative' = TentativeAt(k)
            /\ out' = <<>>
  /\ UNCHANGED <<trigger, chordDeadline, consumed, now>>

(* A key of an active modifier layer; consumes every pending oneshot.      *)
LayerKey(k) ==
  /\ EnterRegular(k)
  /\ ~DirectActive
  /\ \E i \in ModifiedLayer(k) :
       LET cell == Layout.modified[i][k]
       IN  \/ /\ cell = PASSTHROUGH_CELL
              /\ out' = <<Action("Passthrough", <<k>>)>>
              /\ tentative' = TentativeAt(k)
           \/ /\ cell # PASSTHROUGH_CELL
              /\ out' = Outputs(cell)
              /\ tentative' = Pushed(TentativeAt(k), cell, <<k>>)
  /\ modifiers' = [i \in DOMAIN modifiers |->
                     [Interrupted(modifiers)[i] EXCEPT !.oneshot = FALSE]]
  /\ pending' = PendingAt(k)
  /\ UNCHANGED <<trig, chordDeadline, consumed, now>>

(* fire_mutual_chord *)
ChordKey(k) ==
  /\ EnterRegular(k)
  /\ ~DirectActive
  /\ ModifiedLayer(k) = {}
  /\ \E c \in MutualChordMatch(k, HeldAt(k)) :
       LET chord == Layout.chords[c]
           tb    == TentativeAt(k)
           n     == Unaffected(tb, ChordKeys(c))
           p     == PendingAt(k)
       IN  /\ tentative' = Pushed(SubSeq(tb, 1, n), chord.output, chord.keys)
           /\ out' = Backspaces(tb, n) \o Outputs(chord.output)
           /\ pending' = Retained(p, {i \in DOMAIN p : p[i].key \notin ChordKeys(c)})
           /\ consumed' = consumed \cup ChordKeys(c)
           /\ chordDeadline' = EarliestDeadline(tentative')
  /\ modifiers' = Interrupted(modifiers)
  /\ UNCHANGED <<trig, now>>

-----------------------------------------------------------------------------
(* speculative_emit, for a key that is in no layer and completes no mutual *)
(* chord.  p is the pending sequence with the key appended and pruned.     *)

SpecPending(k) == Pruned(Append(PendingAt(k), [key |-> k, ts |-> now]))

Speculative(k) ==
  /\ EnterRegular(k)
  /\ ~DirectActive
  /\ ModifiedLayer(k) = {}
  /\ MutualChordMatch(k, HeldAt(k)) = {}
  /\ modifiers' = Interrupted(modifiers)
  /\ UNCHANGED <<trig, consumed, now>>

(* apply_rule_match *)
RuleKey(k) ==
  /\ Speculative(k)
  /\ \E rule \in ResolvedRule(SpecPending(k), TentativeAt(k), k) :
       LET tb == TentativeAt(k)
           n  == Unaffected(tb, ToSet(rule.src))
       IN  /\ tentative' = Pushed(SubSeq(tb, 1, n), rule.output, rule.src)
           /\ out' = Backspaces(tb, n) \o Outputs(rule.output)
  /\ pending' = <<>>
  /\ chordDeadline' = EarliestDeadline(tentative')

Unresolved(k) ==
  /\ Speculative(k)
  /\ ResolvedRule(SpecPending(k), TentativeAt(k), k) = {}

(* A chord member without a base cell waits in pending_keys.               *)
WaitingKey(k) ==
  /\ Unresolved(k)
  /\ k \notin DOMAIN Layout.base
  /\ HasTimedChord(k) \/ HasMutualChord(k)
  /\ pending' = SpecPending(k)
  /\ tentative' = TentativeAt(k)
  /\ out' = <<>>
  /\ UNCHANGED chordDeadline

(* is_composing, once a fresh key has left conversion mode                 *)
Composing(k) == \/ TentativeAt(k) # <<>>
                \/ mozcMode = "Conversion" /\ k \in MOZC_CONTROL_KEYS

(* An unassigned key: to Mozc, to the application after a submit, or just  *)
(* to the application.                                                     *)
UnassignedKey(k, shift) ==
  /\ Unresolved(k)
  /\ k \notin DOMAIN Layout.base
  /\ ~HasTimedChord(k) /\ ~HasMutualChord(k)
  /\ \/ /\ Composing(k) /\ k \in MOZC_CONTROL_KEYS
        /\ out' = <<Action(IF shift THEN "SendModifiedKey" ELSE "SendFunctionKey", <<k>>)>>
        /\ pending' = Front(SpecPending(k))
        /\ tentative' = TentativeAt(k)
     \/ /\ Composing(k) /\ k \notin MOZC_CONTROL_KEYS
        /\ out' = <<Action("SubmitThenPassthrough", <<k>>)>>
        /\ pending' = <<>>
        /\ tentative' = <<>>
     \/ /\ ~Composing(k)
        /\ out' = <<Action("Passthrough", <<k>>)>>
        /\ pending' = Front(SpecPending(k))
        /\ tentative' = TentativeAt(k)
  /\ UNCHANGED chordDeadline

PassthroughKey(k) ==
  /\ Unresolved(k)
  /\ k \in DOMAIN Layout.base /\ Layout.base[k] = PASSTHROUGH_CELL
  /\ out' = <<Action("Passthrough", <<k>>)>>
  /\ pending' = Front(SpecPending(k))
  /\ tentative' = TentativeAt(k)
  /\ UNCHANGED chordDeadline

NeedsSpeculation(k) == \/ HasTimedChord(k)
                       \/ HasMutualChord(k)
                       \/ PrefixPending(SpecPending(k))
                       \/ k \in DOMAIN Layout.postfix

BaseKey(k) == /\ Unresolved(k)
              /\ k \in DOMAIN Layout.base /\ Layout.base[k] # PASSTHROUGH_CELL

(* Nothing can rewrite the cell, or it starts with a function key: emit    *)
(* all of it at once.                                                      *)
WholeCellKey(k) ==
  /\ BaseKey(k)
  /\ Layout.base[k][1].kind # "kana" \/ ~NeedsSpeculation(k)
  /\ out' = Outputs(Layout.base[k])
  /\ tentative' = Pushed(TentativeAt(k), Layout.base[k], <<k>>)
  /\ pending' = <<>>
  /\ UNCHANGED chordDeadline

(* The first kana is sent now and may be rewritten; the rest of the cell   *)
(* is the deferred tail.  A sequence rule sets no deadline.                *)
SpeculativeKey(k) ==
  /\ BaseKey(k)
  /\ Layout.base[k][1].kind = "kana" /\ NeedsSpeculation(k)
  /\ LET cell     == Layout.base[k]
         deadline == CASE HasTimedChord(k) -> now + ChordWindowFor(k)
                       [] ~HasTimedChord(k) /\ HasMutualChord(k)
                                           -> now + Layout.mutualWindow
                       [] OTHER            -> NoDeadline
     IN  /\ out' = Outputs(<<cell[1]>>)
         /\ tentative' = Append(TentativeAt(k),
                                NewChar(cell[1].text, <<k>>, deadline, Tail(cell)))
         /\ chordDeadline' = IF deadline = NoDeadline THEN chordDeadline
                                                      ELSE SoonerOf(chordDeadline, deadline)
  /\ pending' = SpecPending(k)

KeyDown(k, shift) ==
  \/ HeldKeyDown(k)
  \/ ModifierKeyDown(k)
  \/ TriggerOn(k)
  \/ TriggerOff(k)
  \/ BackspaceDown(k)
  \/ DirectKey(k)
  \/ LayerKey(k)
  \/ ChordKey(k)
  \/ RuleKey(k)
  \/ WaitingKey(k)
  \/ UnassignedKey(k, shift)
  \/ PassthroughKey(k)
  \/ WholeCellKey(k)
  \/ SpeculativeKey(k)

-----------------------------------------------------------------------------
(* process_key_up.  A released key confirms every char it produced.        *)

Confirmed(tb, k) ==
  [i \in DOMAIN tb |-> [tb[i] EXCEPT !.confirmed =
                                       tb[i].confirmed \/ k \in ToSet(tb[i].src)]]

(* Mutants of LeaveHeld: one of the two sets keeps the released key. *)
LeaveConsumed(k) == held' = held \ {k} /\ UNCHANGED consumed
LeaveHeldKey(k)  == consumed' = consumed \ {k} /\ UNCHANGED held

LeaveHeld(k) ==
  /\ held' = held \ {k}
  /\ consumed' = consumed \ {k}

(* The release is absorbed: another key of the modifier is still down, or  *)
(* the modifier is a toggle.                                               *)
StillHeld(i, k) == modifiers[i].pressed \ {k} # {}

ModifierKeyUp(k) ==
  /\ LeaveHeld(k)
  /\ \E i \in ModifierIndex(k) :
       /\ \/ Layout.modifiers[i].kind = "Toggle" /\ UNCHANGED modifiers
          \/ /\ Layout.modifiers[i].kind # "Toggle"
             /\ modifiers' = [modifiers EXCEPT
                  ![i].pressed = modifiers[i].pressed \ {k},
                  ![i].oneshot = modifiers[i].oneshot /\ StillHeld(i, k)]
       /\ \/ Layout.modifiers[i].kind = "Toggle"
          \/ StillHeld(i, k)
          \/ modifiers[i].interrupted \/ modifiers[i].oneshot
  /\ tentative' = Confirmed(tentative, k)
  /\ out' = <<>>
  /\ UNCHANGED <<pending, chordDeadline, trig, mozcMode, now>>

(* The tap action of a modifier released without interruption.             *)
ModifierTap(k) ==
  /\ LeaveHeld(k)
  /\ \E i \in ModifierIndex(k) :
       LET def == Layout.modifiers[i]
           tb  == Confirmed(tentative, k)
           Emit(cell) == /\ out' = Outputs(cell)
                         /\ tentative' = Pushed(tb, cell, <<k>>)
           Say(actions) == out' = actions /\ tentative' = tb
       IN  /\ def.kind # "Toggle"
           /\ ~StillHeld(i, k)
           /\ ~modifiers[i].interrupted /\ ~modifiers[i].oneshot
           /\ modifiers' = [modifiers EXCEPT ![i].pressed = {}]
           /\ \/ /\ def.tapAction = "Passthrough"
                 /\ Say(<<Action(IF k \in MOZC_CONTROL_KEYS THEN "SendFunctionKey"
                                                           ELSE "Passthrough", <<k>>)>>)
              \/ /\ def.tapAction = "BaseKana" /\ k \in DOMAIN Layout.base
                 /\ Emit(Layout.base[k])
              \/ /\ def.tapAction = "BaseKana" /\ k \notin DOMAIN Layout.base
                 /\ Say(<<>>)
              \/ def.tapAction = "Output" /\ Emit(def.tapOutput)
              \/ def.tapAction = "None" /\ Say(<<>>)
  /\ UNCHANGED <<pending, chordDeadline, trig, mozcMode, now>>

(* handle_direct_trigger_up: only a hold trigger reacts to its release.    *)
TriggerUp(k) ==
  /\ LeaveHeld(k)
  /\ ~IsModifier(k) /\ k \in Layout.triggerKeys
  /\ tentative' = Confirmed(tentative, k)
  /\ \/ /\ Layout.triggerKind = "Hold"
        /\ trigger' = "Inactive"
        /\ pending' = <<>>
        /\ out' = IF ~triggerInterrupted /\ Layout.triggerTap = "Passthrough"
                  THEN <<Action("Passthrough", <<k>>)>> ELSE <<>>
     \/ /\ Layout.triggerKind # "Hold"
        /\ out' = <<>>
        /\ UNCHANGED <<trigger, pending>>
  /\ UNCHANGED <<modifiers, triggerInterrupted, mozcMode, chordDeadline, now>>

RegularKeyUp(k) ==
  /\ LeaveHeld(k)
  /\ ~IsModifier(k) /\ k \notin Layout.triggerKeys
  /\ tentative' = Confirmed(tentative, k)
  /\ out' = <<>>
  /\ UNCHANGED <<pending, modifiers, trig, mozcMode, chordDeadline, now>>

KeyUp(k) == \/ ModifierKeyUp(k)
            \/ ModifierTap(k)
            \/ TriggerUp(k)
            \/ RegularKeyUp(k)

-----------------------------------------------------------------------------
(* The calls that are not key events.                                      *)

(* tick: the deadlines that have passed are cleared and their tails sent.  *)
Tick ==
  LET due == chordDeadline # NoDeadline /\ now >= chordDeadline
      expired == {i \in DOMAIN tentative :
                    /\ due
                    /\ tentative[i].deadline # NoDeadline
                    /\ now >= tentative[i].deadline}
  IN  /\ tentative' = [i \in DOMAIN tentative |->
                         IF i \in expired
                         THEN [tentative[i] EXCEPT !.deadline = NoDeadline, !.tail = <<>>]
                         ELSE tentative[i]]
      /\ out' = FlattenSeq([i \in DOMAIN tentative |->
                   IF i \in expired THEN Outputs(tentative[i].tail) ELSE <<>>])
      /\ chordDeadline' = IF due THEN EarliestDeadline(tentative') ELSE chordDeadline
      /\ pending' = Pruned(pending)
      /\ UNCHANGED <<modifiers, trig, mozcMode, held, consumed, now>>

Reset ==
  /\ out' = Backspaces(tentative, 0)
  /\ tentative' = <<>>
  /\ pending' = <<>>
  /\ mozcMode' = "Composition"
  /\ chordDeadline' = NoDeadline
  /\ modifiers' = [i \in DOMAIN modifiers |->
                     [modifiers[i] EXCEPT !.pressed = {}, !.interrupted = FALSE,
                                          !.oneshot = FALSE, !.toggled = FALSE]]
  /\ trigger' = "Inactive"
  /\ triggerInterrupted' = FALSE
  /\ held' = {}
  /\ consumed' = {}
  /\ UNCHANGED now

(* notify_mozc_conversion *)
NotifyConversion ==
  /\ IF mozcMode = "Conversion"
     THEN UNCHANGED <<tentative, pending, held, consumed>>
     ELSE /\ tentative' = <<>>
          /\ pending' = <<>>
          /\ held' = {}
          /\ consumed' = {}
  /\ mozcMode' = "Conversion"
  /\ out' = <<>>
  /\ UNCHANGED <<modifiers, trig, chordDeadline, now>>

(* notify_mozc_composition *)
NotifyComposition ==
  /\ mozcMode' = "Composition"
  /\ out' = <<>>
  /\ UNCHANGED <<buffers, modifiers, trig, held, consumed, now>>

(* Time passes between calls. *)
Advance ==
  /\ now < MaxTime
  /\ now' = now + 1
  /\ out' = <<>>
  /\ UNCHANGED <<buffers, modifiers, trig, mozcMode, held, consumed>>

(* The bounds of the model: key events stop at LastEvent and while a       *)
(* buffer is over its bound.                                               *)
Room == /\ now <= LastEvent
        /\ Len(tentative) <= MaxTentative
        /\ Len(pending) <= MaxPending

(* The caller may deliver any key event at any time: the addon does not    *)
(* deliver every press with its release.                                   *)
Next == \/ Room /\ \E k \in Keys, shift \in BOOLEAN : KeyDown(k, shift)
        \/ Room /\ \E k \in Keys : KeyUp(k)
        \/ Tick
        \/ Reset
        \/ NotifyConversion
        \/ NotifyComposition
        \/ Advance

Spec == Init /\ [][Next]_vars

-----------------------------------------------------------------------------
(* Properties of the state machine, whatever events it is given.           *)

(* Every field has its type.  (out is the value of the last call, not a    *)
(* field; its content is what the properties below talk about.)            *)
TypeOK ==
  /\ pending \in Seq(PendingKey)
  /\ tentative \in Seq(TentativeChar)
  /\ modifiers \in [DOMAIN Layout.modifiers -> ModifierState]
  /\ trigger \in {"Inactive", "Active"}
  /\ triggerInterrupted \in BOOLEAN
  /\ mozcMode \in {"Composition", "Conversion"}
  /\ chordDeadline \in Nat \cup {NoDeadline}
  /\ held \subseteq Keys
  /\ consumed \subseteq Keys
  /\ now \in Nat

(* tick() looks at the buffer only once chord_deadline has passed, and     *)
(* four paths (backspace, flush, conversion, submit) shrink the buffer     *)
(* without recomputing it: no char may expire before chord_deadline, or    *)
(* its deferred tail would be late or lost.                                *)
Covers(deadline, tb) ==
  \A i \in DOMAIN tb :
    tb[i].deadline # NoDeadline =>
      deadline # NoDeadline /\ deadline <= tb[i].deadline
DeadlineCovers == Covers(chordDeadline, tentative)

(* A key consumed by a chord is still held: a consumed mark that outlived  *)
(* its key would make the next press of that key a stale chord partner.    *)
ConsumedHeld == consumed \subseteq held

(* A step that types kana (a chord, a sequence, a layer key, a tick) may   *)
(* rewrite only what its own keys produced and nobody has locked in:       *)
(* every earlier char survives in place, unless it is unconfirmed and all  *)
(* its source keys belong to the char just typed.                          *)
Types(actions) == \E i \in DOMAIN actions : actions[i].act = "SendKana"
Survives(i) == /\ i \in DOMAIN tentative'
               /\ tentative'[i].kana = tentative[i].kana
               /\ tentative'[i].src = tentative[i].src
RewriteOnlyOwn ==
  [][Types(out') /\ mozcMode = "Composition" =>
       \A i \in DOMAIN tentative :
         \/ Survives(i)
         \/ /\ ~tentative[i].confirmed
            /\ ToSet(tentative[i].src) \subseteq ToSet(Last(tentative').src)]_vars

(* The other half: a rule that fires rewrites all it may.  No unconfirmed  *)
(* char of a chord's or sequence's own keys is left right before its       *)
(* output (there would be two kana for one chord).                         *)
Ready(i) == ~tentative[i].confirmed /\ ~tentative[i + 1].confirmed
RewriteComplete ==
  \A i \in 1..(Len(tentative) - 1) :
    Ready(i) /\ tentative[i].src # tentative[i + 1].src =>
      ~(ToSet(tentative[i].src) \subseteq ToSet(tentative[i + 1].src))

(* C1: a chord may not form with a key whose window has elapsed, whether   *)
(* or not a tick came in between: every key of a fired timed chord but the *)
(* last, which is pressed now, was pressed within its own window.          *)
WithinWindow(k) == \E i \in DOMAIN pending :
                     /\ pending[i].key = k
                     /\ now - pending[i].ts <= ChordWindowFor(k)
FiresTimedChord == /\ Types(out')
                   /\ tentative' # <<>>
                   /\ Last(tentative') \notin ToSet(tentative)
                   /\ Len(Last(tentative').src) > 1
                   /\ \E c \in TimedChords : ChordKeys(c) = ToSet(Last(tentative').src)
ChordWithinWindow ==
  [][FiresTimedChord => \A k \in ToSet(Front(Last(tentative').src)) : WithinWindow(k)]_vars

(* Kanji input is silent: while a direct trigger is active nothing is      *)
(* speculative (design document, section 7: the tentative buffer is empty  *)
(* because nothing is pushed while active).                                *)
DirectSilent == trigger = "Active" => tentative = <<>>
=============================================================================
