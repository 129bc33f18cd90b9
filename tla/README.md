# mzkana in TLA+

mzkana is a kana input engine for fcitx5. Keys go through a state machine that turns
them into kana for a chosen keyboard layout (mutual and timed chords, prefix and postfix
sequences, shift layers, direct kanji sequences); the kana go to a `mozc_server` process
for conversion, and Mozc's preedit, candidates and commits go back to the application.
Kana are sent *speculatively*, the moment a key goes down, and rewritten with BackSpaces
when a later key completes a chord or a sequence. Most of what can go wrong follows from
that: the state machine must know exactly which characters it may still take back, and
the engine must keep that knowledge true while Mozc, the application, the user's files
and the focus change around it.

This directory models the program from the key event to the Mozc server's socket, checks
the models with TLC and proves their central properties with TLAPS. Line numbers refer
to the repository; `PROJECT.json` ("map") gives the source lines of every definition.

## 1. Inventory

| component | state it keeps | operations | correct when | status |
|---|---|---|---|---|
| keyboard state machine (`mzkana-core/src/statemachine.rs`) | `pending_keys`, `tentative_buffer`, `modifier_states`, `direct_trigger_state`, `mozc_mode`, `chord_deadline`, `held_keys`, `chord_consumed_keys` | `process` (press, release), `tick`, `reset`, `notify_mozc_*` | a rewrite takes back exactly the unconfirmed kana of its own keys; held keys mirror the keyboard; deadlines are met; taps fire for unused modifiers only | modelled |
| physical keyboard and tick timer | the keys that are down, the key that repeats, the timer | press, repeat, release, tick | – (environment) | partly: keys fcitx5 filters out are not told apart |
| Mozc worker (`mozc/worker.rs`) | two channels, the thread, `dead` | `batch`, worker loop, `Drop` | an answer belongs to the batch it answers; the UI thread is never held for long | modelled |
| Mozc client (`mozc/client.rs`) | socket name, session id | find, probe and spawn a server; one connection per command; create, use and delete a session | an op that returns Ok was carried out once; a client in use has a session with IME on; no session is left behind; every call returns | modelled |
| engine (`mzkana-ffi/src/engine.rs`) | the state machine, the worker or none, the retry time, cached preedit and candidates, the watched file, overrides | key event, tick, select candidate, reset, reconnect, focus out, hot reload, reload | what is on the screen is what the state machine believes it typed; no saved layout is forgotten | modelled |
| layout loader (`config.rs`) | none | `parse_grid`, `from_file`, `validate` | accepted layouts satisfy what the rest relies on | partly: the two analyses that only warn are left out |
| fcitx5 addon (`fcitx5-addon/src/engine.cpp`) | last preedit and candidates, the 10 ms timer and its context, configuration | key filter, applying results, timer, focus, configuration | the focused context shows the composition; the timer runs while there is one; configtool's settings are in effect | partly: see section 6 |
| protocol encoding (`mozc/proto.rs`) | none | encode a command, decode a response | every key an op names has an encoding | partly: which commands, which names; not the bytes |
| C ABI (`mzkana-ffi/src/lib.rs`) | the buffers of the last result | one function per engine operation | – | partly: part of the action that calls it |
| command line tool (`mzkana-cli`) | none | replay keys, print what came out | – | not modelled |
| layouts, protocol files, build | – | – | – | not modelled |

**Interactions.** One thread (fcitx5's) calls addon → C ABI → engine → state machine.
The engine turns the returned `OutputAction`s into one batch for the worker thread and
waits at most 150 ms; Mozc's outputs call back into the state machine
(`notify_mozc_conversion` / `_composition`). The worker thread runs the client: one
connection to the server per op. The timer calls `tick` while a preedit is shown. A
focus change or a chosen candidate resets the state machine while keys are physically
down. notify's watcher thread tells the engine that a file in the layout's directory has
changed; the next key event reads it.

**What is hard.** Interleavings of key presses and releases (rollover), of which tests
hold only a handful; auto-repeat, which the engine passes on as ordinary presses; ticks
that come late or never; Mozc's feedback between two key events and in the middle of a
batch; batches that fail after some of their ops were carried out; a Mozc server that
answers late, hangs, dies or comes back without its sessions; a layout file that is
written while it is read; one cache for all input contexts. `PROJECT.json` ("hazards")
lists them by line with the properties that cover them.

## 2. Modules

| module | what it is |
|---|---|
| `StateMachine` | the keyboard state machine: fields as variables, one action per early return of `process`, `tick` and the other calls; properties that need nothing but it |
| `Keyboard` | the state machine under a physical keyboard with auto-repeat, a timer and Mozc's feedback; properties that relate the two |
| `Engine` | the state machine, `dispatch_actions`, a Mozc session and the application's text together |
| `Editor` | what a user relies on: text of which only the last few characters may be rewritten; the abstract specification `Engine` implements |
| `MozcWorker` | engine thread, worker threads, channels, timeouts, join and detach |
| `MozcLink` | what the engine relies on: an answer is for the batch asked, or the link is gone; the abstract specification `MozcWorker` implements |
| `MozcClient` | several clients and a server that hangs, crashes and comes back |
| `LayoutLoader` | from the tables of a layout file to the layout that runs, or to none (operators only) |
| `Addon` | focus, panels and their caches, the timer, configuration, hot reload with the watcher's thread |
| `MCLayouts` | small layouts, each with the rule kinds of one family of the files in `layouts/` |
| `MCKeyboard`, `MCEngine`, `MCAddon` | the modules of the runs: layouts, files and bounds for `Keyboard`, `Engine` and `Addon` |
| `StateMachineProofs`, `RewriteProofs` | lemmas on the helpers; the theorems of `StateMachine` |
| `KeyboardProofs`, `EngineProofs`, `MozcWorkerProofs`, `MozcClientProofs`, `MozcOpsProofs`, `AddonProofs` | the theorems of the module each is named for (`MozcOpsProofs`: of `MozcClient`) |

How they compose: `Keyboard` and `Engine` both extend `StateMachine`, the first with a
keyboard that obeys physics and the second with any caller; `Engine` takes for a batch
what `MozcLink` promises (its own answer, or the link is lost), which `MozcWorker`
implements; `MozcWorker` takes for an IPC that it ends within the socket's timeout, with
or without an answer, which is what a command of `MozcClient` does; `Addon` takes for
the result of a key event any preedit and any candidate window, of which `Engine` says
which, and for a layout file what `LayoutLoader` makes of it.

### StateMachine

The variables are the fields of `struct StateMachine`. `now` is the `Instant` the caller
passes and `out` the `Vec<OutputAction>` of the last call.

- **Cells.** An output string is the sequence of tokens `resolve_sequence` makes of it;
  a kana token is the sequence of its characters since that length is the number of
  BackSpaces a rewrite sends. `"XX"` is the marker string of `config.rs`.
- **process_key_down** is `KeyDown(k, shift)`, a disjunction in the order of the code's
  early returns: held (auto-repeat) key, modifier, direct trigger, BackSpace, direct
  input, active layer, mutual chord, and what `speculative_emit` decides (a rule fires,
  the key waits, is unassigned, is passed through, types its whole cell, or its first
  kana speculatively).
- **process_key_up** is `KeyUp(k)`: every release first leaves `held_keys` and
  `chord_consumed_keys` and confirms the chars of that key; then modifiers, their tap
  actions and triggers.
- `Tick`, `Reset`, `NotifyConversion`, `NotifyComposition` are the other calls;
  `Advance` lets time pass.
- Layers of the same trigger are merged into one grid. The loops of the code take the
  first layer that has the key, so this is the same function.
- `is_repeat` is not modelled: the engine passes `false` for every event.
- `LayoutAssumption` is what the loader guarantees or the code assumes; that a base cell
  is not empty is an assumption (a quoted cell of blanks breaks it, and would make
  `tokens[0]` panic).

`Next` lets any event happen at any time, because the addon does not deliver every press
with its release (modifiers held, focus lost between the two).

### Keyboard

`Press`, `Repeat` and `Release` keep `down` and the last key pressed; `Timer` and
`Clock` are the addon's timer and time. `Feedback` adds Mozc's conversion notices and
resets. `lone` is a history variable: the keys during whose hold no regular key was
pressed. A mode of the real system left out here is a release that is lost; it is in
`MCEvents`.

### Engine and Editor

A call is two steps. `KeyDownCall`, `KeyUpCall` and `TickCall` run the state machine and
leave its actions in `out`; `Dispatch` runs them as `dispatch_actions` does: one batch
of the ops that `action_op` gives, then a fold over the actions (`Handled`) that pops
one output per op, with the commit, the passthrough key and the forwarded keys as its
accumulators, and with `apply_mozc_output` calling back into the state machine. There
are three ways: the batch is answered, there is no Mozc (or no op), or the batch fails,
when the outputs are cleared and the whole keystroke is handled as without Mozc. `Shown`
is the addon's `applyResult`: which key reaches the application before the commit, which
after it, and whether the event's own key does. `ResetCall`, `SelectCandidate` and
`Reconnect` are the other operations that touch the session; a reset whose Revert fails
keeps the worker, and a key event or a candidate whose op fails does not (`RevertFails`,
`LoseMozc`).

The Mozc session is external: a text and whether it is being converted, with the
reaction to each op the engine relies on. `app` is the application's text and `open` a
history variable, how many characters the state machine could rewrite when it was
called.

`Editor` knows nothing of keys: its text changes only in the last `open` characters, by
a user's BackSpace, or by dropping the composition. `Engine` implements it with
`committed <- app` and `composing <- session.text`; in the middle of a call, `open` is
what was open when it began.

### MozcWorker

`ui` is the UI thread's program counter: idle, in one of the blocking steps of a
connection (CREATE_SESSION, TURN_ON_IME, or the DELETE_SESSION of a client whose
TURN_ON_IME failed), waiting for a batch, or joining a thread. `thread[w]` is that of
worker thread `w`: receiving, executing an op, replying, dropping its client, ended. A
worker is detached if it did not answer and joined if it did, as `Drop` does by its
`dead` flag; the flag itself needs no variable because the engine drops a worker in the
very call that finds it dead.

An IPC ends with a result or an error at any time up to `SOCKET_TIMEOUT`. (A server that
dribbles single bytes, or a full accept queue, could take longer: the socket timeouts of
the code are per read.) Time passes in waits and IPCs only; the steps in between take
none. The first connection, made by `Engine::new`, may spawn `mozc_server`; the model
starts without a connection and reaches the connected state through
`try_reconnect_mozc`.

### MozcClient

`pc[c]` is where client `c` is: searching (`connect_quick`, or `connect` with
`ensure_mozc_server`: probe the socket file, remove a stale one, spawn, poll), in a
command, ready, or gone. A command is `Send`, the server's `Serve`, and `Receive`,
`Hangup` or `Timeout`; others may come between any two. The server has a queue, sessions
with IME on or off, and a name; it crashes at any time and starts again under any name.
A command for a session it does not have is answered, by an output with an `error_code`,
which `decode_response` does not read: to the client that is Ok. A server that hangs is
one that does not serve, for as long as it likes, and then does.

### LayoutLoader and Addon

A layout file is a record of its tables. `ParseGrid` is `parse_grid` with its header
line, explicit key lines and dropped cells; `Loads` is the conjunction of the checks
that refuse a file; `Compiled` is the layout; `Sound` says what the rest of the program
relies on.

`Addon` has three threads: fcitx5's event loop, whose handlers run to their end except
where they wait for something others can change (`phase`: an engine that has been
created and does not watch its file yet, a reload whose events have been drained and
whose file has not been read), notify's watcher, and whoever edits the files.
`engine.shows` is the composition of the engine, `panel` what each input context shows,
`lastPreedit` and `lastCandidates` the addon's one cache for all of them. `SetConfig`
and `ReloadConfig` are configtool's two ways in.

## 3. What the runs check

| run | states | property | meaning |
|---|---|---|---|
| `MCEvents` | 17,186 | `TypeOK`, `DeadlineCovers`, `ConsumedHeld` | with events in any order: no char expires before `chord_deadline`, which is all `tick` looks at; a consumed key is held |
| `MCMutual` | 25,728 | `HeldIsDown`, `HeldChordFired`, `RewriteComplete`, `RewriteOnlyOwn` | overlapping mutual chords, while Mozc converts and focus changes: no released key stays in `held_keys`; a chord whose keys are held has fired; a rewrite takes all it may and nothing else |
| `MCHybrid` | 38,703 | `HeldMatchesKeyboard`, `RewriteComplete`, `RewriteOnlyOwn`, `DirectSilent`, `TapIsLone`, `ChordWithinWindow` | sequences, a timed chord, a hold modifier and direct kanji input in one layout: `held_keys` is exactly the guarded keys that are down; nothing is speculative while the trigger is active; a tap fires only for an unused hold; no chord forms with a key whose window has elapsed, whether or not a tick came in between |
| `MCWorker` | 49,054 | `WorkerTypeOK`, `FreezeBounded`, `AnswersOwnBatch`, `CallsReturn` | `MozcWorker` implements `MozcLink`; a call holds the UI thread for at most three IPCs and a batch, and returns |
| `MCEngine` | 22,130 | `TentativeOnScreen`, `ShownIsSession`, `RewriteExact`, `RewritesAreAtomic` | while Mozc answers: the tentative characters are the end of the text on the screen, a call erases exactly what it may, `Engine` implements `Editor`, and the preedit and candidates shown are the session's |
| `MCFailure` | 44,686 | `TentativeOnScreen`, `RewriteExact`, `TypedIsShown` | without Mozc at first, reconnected at any time, and with a batch that fails: a rewrite reaches the application's own text by one forwarded BackSpace, in the right order with the commit and the event's key; the kana of a call are on the screen whatever becomes of its batch |
| `MCTimer` | 442 | `TailFires` | under fairness, with the timer running only while the last result had a preedit: a deferred tail that does not end the composition is sent |
| `MCAddon` | 571,648 | `AddonTypeOK`, `RunningLayoutSound`, `NoUpdateLost`, `OptionsInEffect`, `TimerCovers`, `FocusIsCurrent`, `PanelCatchesUp` | hot reload forgets no saved file; what runs has been checked; from the first selection that succeeds, configtool's overrides are in effect; a composition has its timer; what the focused context shows is the composition, or soon will be |
| `MCClient` | 244,513 | `ClientTypeOK`, `ReadyIsOn`, `OkMeansDone`, `SessionsEnd`, `CallReturns` | a client in use has a session with IME on; an op that returns Ok was carried out once; sessions are not left behind; every call returns |

Each of these properties has a mutant of the code (in `PROJECT.json`) that breaks it.
`MCAddon` also evaluates `LoaderRefuses`: each check of the loader refuses a file that
all others accept.

**Bounds.** `MaxTentative` and `MaxPending` stop *key events* once a buffer has passed
them, so buffers of one more are reached: two or three tentative chars and two to four
pending keys, at least as many as the longest chord or sequence of the layout. The
layouts have two to seven keys, which is every overlap two or three rules can have: the
three-key upgrade of a two-key chord, a chord sharing one key, a postfix key that could
also end a prefix sequence.

Key events come up to `LastEvent`, ticks up to `MaxTime`. Chord windows are chosen for the
question of the run: less than one unit in `MCHybrid`, so that a second key comes before or
after it; one unit in `MCEvents`, `MCTimer` and `MCFailure`, so that a tick finds it elapsed or
not, and in `MCTimer` every deadline can pass before `MaxTime`; two units in `MCMutual`, where a
tick finds it elapsed after the last key; and in `MCEngine` it does not elapse, which leaves as
many characters open to be rewritten as there can be.

- `Engine`: `MaxText` stops key events when more than one or two characters are on the
  screen. One key event types up to two more (a kana of two characters), so a rewrite
  always has settled text before what it owns. `MCEngine` has two-character kana and no
  failures, `MCFailure` one-character kana and one failure, because a two-character kana
  without Mozc is what `BadAlone` is about. No run layout has a toggle *modifier*.
- `MCWorker`: two workers and four batches give a detached thread that is still running
  while its successor is in use; timeouts keep the order of the real ones (150 ms < 1 s,
  3 × 1 s < 5 s). `frozen` stops counting one unit past `LONGEST_CALL`, so that a call
  that hung would be a finite loop.
- `MCClient`: two clients of one op each, two servers one after the other, two names and
  two turns of polling: a restart between any two system calls of either client, under
  the same name or another. `CHECK_DEADLOCK FALSE`: all clients may be gone and all
  servers used up.
- `MCAddon`: two contexts, two files, three contents (two that load with different
  settings, one that does not), two sets of overrides, one preedit, one candidate
  window: each cached value can agree or not with what it caches.

**Fairness.** Key events are never fair: a user may stop. `FairSpec` of `MozcWorker`
assumes that time passes, that the UI thread goes on when it can, and that the operating
system runs every worker thread; panics, new calls and closing are not fair.
`FairEngineSpec` assumes that a call that has begun is dispatched, that time passes, and
that the timer fires *while it is enabled*, which `TickCall` states as `updateTickTimer`
does. `FairAddonSpec` is the same for the handlers the event loop is in the middle of
and its timer. `FairClientSpec` assumes of a client that its thread runs and its sockets
time out, which `set_read_timeout` and `set_write_timeout` provide (client.rs:354);
nothing is assumed of any server.

### Where the code and its documents disagree

These three have a run in which TLC finds the counterexample.

- `BadSequence`: design document, section 5, a sequence's second key replaces the first
  kana after any time. Releasing the first key confirms its char (statemachine.rs:401),
  and the second key then only appends. The layout has one prefix layer and the keyboard
  its two keys, so nothing but the release can come between them (d down, d up, w down).
- `BadOneshot`: a oneshot is "cleared after the next non-modifier key"
  (statemachine.rs:145), but its own release clears it (423).
- `BadAlone`: without Mozc the BackSpaces of a rewrite share one `passthrough_key`
  (engine.rs:568), and a rewrite of a two-character kana erases one character. The keys
  are those of the two chords only (h, w, then j upgrades the chord): no key of the run
  reaches the application by itself.

Met while modelling, and excluded from the passing runs by their layout, their
environment or a stated exception rather than hidden:

*Mozc.*
- A restarted `mozc_server` is found again (client.rs:336) but does not have the
  session; it answers with an `error_code` that `decode_response` (proto.rs:267) does
  not read, so ops return Ok, kana vanish, and the client is never replaced. The README
  promises reconnection at the next key event (README.md:15, 353). `OkMeansDone` excepts
  this case.
- A reconnection is blocking IPC on the key thread (engine.rs:303) and exceeds the 150
  ms promised per keystroke; `FreezeBounded` says by how much.
- A CREATE_SESSION that times out and is served later leaves a session whose id nobody
  has (client.rs:402; `SessionsEnd` excepts it), and a stale socket file is removed
  after a new server may have bound it (123).

*Keyboard.*
- A held toggle trigger flips at the auto-repeat rate (statemachine.rs:818): triggers
  are not in `held_keys`.
- The tail of a prefix trigger's cell is never sent, since its char has no deadline
  (604).
- A modifier's tap action types a tentative kana while a direct trigger is active (463;
  design document, line 667). BackSpace is no interruption of a held trigger (329; 671), and
  a second trigger key clears the interruption of the first (810): with BackSpace among
  the keys of `MCHybrid`, `TapIsLone` is violated. A reset under a held modifier, and a used oneshot, fire the tap action on release
  (222, 427).
- A key that does not continue a prefix sequence stays pending behind its trigger (621,
  against the comment at 1051); if the trigger is a member of a timed chord as well,
  that chord can form after its window (1054).
- Escape and Return end Mozc's composition and leave the tentative buffer (532), where the
  submit in the branch below clears it "to keep the 1:1 invariant"; the BackSpaces of a
  later chord then reach the application. With Escape among the keys of `MCEngine` TLC
  finds `TentativeOnScreen` violated.
- After a reset or the start of a conversion the auto-repeat of a key that is still down
  types again (228; design document, line 245). A cancelled conversion leaves a
  composition the state machine does not know of (1174).
- Activating a trigger erases a speculative kana, which design line 662 says stays (813).
- `tick` sends a deferred tail without pushing its kana (244), so a rewrite of an earlier
  char erases the tail instead.
- A direct kanji is committed before the open preedit is submitted (762; design
  document, line 624).

*Engine and addon.*
- After a failed batch the tentative buffer outlives the composition it described
  (engine.rs:486). `reset` looks only at whether its batch was answered: a Revert that
  fails leaves Mozc with a composition whose cached preedit is gone (326).
- A Super key issues no op and takes the output of the next action (527).
- A deferred Return ends the preedit and with it the timer; a second pending tail waits
  for the next call (engine.cpp:301).
- A passthrough modifier that is tapped is not forwarded (engine.cpp:236; design
  document, line 489).
- With `on_focus_change = "preserve"`, a new context shows nothing of the composition it
  took over until the preedit changes (engine.cpp:257; design document, line 1103).
  `FocusIsCurrent` excepts it (`carried`).
- An engine made by `tryInitEngine` has no overrides, though it runs the file selected in
  configtool (31; section 13.5 of the design document: configtool's settings come first),
  and keeps none until a selection succeeds. `OptionsInEffect` states this case for what
  it is and the promise for every other engine. A configuration whose layout does not load is dropped with all its options
  (98), while `reloadConfig` keeps the options and names a layout that is not running.
- A save during `Engine::new` is not seen (engine.rs:67, 104; README.md:116);
  `NoUpdateLost` excepts it (`missed`). Any file event in the directory resets the
  composition (126).
- `tap_output` is not among the strings whose function keys are checked, though the
  comment says all rule sources (config.rs:590). A modified kana (`C-` followed by one)
  is accepted and has no encoding; its op fails and costs the engine its session (633).
- A preedit of more than 511 bytes is cut (lib.rs:72).

## 4. What is proved

All theorems hold for every value of the constants that satisfies the named assumptions;
tlapm checks every leaf with Z3, Zenon and LS4.

**StateMachineProofs**, from `LayoutAssumption`, `KeysAssumption` and `BoundAssumption`,
for every layout and every order of events:

- `TypeCorrect`: `Spec => []TypeOK`. `TypeOK` is inductive by itself; the work is in the
  helpers (what `Retained`, `Pushed`, `Pruned` and the rule lookups return), proved once
  as lemmas at the top of the module.
- `ConsumedKeysAreHeld`: `Spec => []ConsumedHeld`. A chord consumes only keys that
  `MutualChordMatch` found among the held ones, and every action that shrinks `held`
  shrinks `consumed`.
- `DeadlineIsEarliest`: `Spec => []DeadlineCovers`. The buffer is changed in three ways:
  a prefix of it is kept (deadlines stay covered), chars without a deadline are added,
  or one with a deadline is added and `SoonerOf` takes it into account; where the code
  recomputes, `EarliestDeadline` is the minimum.

**RewriteProofs**, from the same assumptions:

- `RewritesOwnKana`: `Spec => RewriteOnlyOwn`. By cases on what a step returns: where it
  types kana, the buffer after it starts with everything `Unaffected` left of it, or
  with all of it.
- `KanjiInputIsSilent`: `Spec => []DirectSilent`, assuming `TapsTypeNothing` (every tap
  action is Passthrough or None), which is true of every file in `layouts/`; without it
  the modifier's tap above is a counterexample.
- `RulesTakeAll`: `Spec => []RewriteComplete`, assuming `NoDoubles` (no control key is in a
  rule with itself; control keys are not in `held_keys`, so their auto-repeat would double
  the kana). The invariant `Complete` says of every unconfirmed char that its keys are held
  or control keys (`Grounded`), that a char of one key is that key's only one (`Singles`),
  and that no char precedes one that covers it (`Unmixed`).
- `ChordsFormInTime`: `Spec => ChordWithinWindow`, assuming `ChordsUnambiguous` (a member of
  a timed chord triggers no sequence, and no mutual chord has the same keys). The invariant
  `Alone` says that a char with a deadline was typed by one key; the rest is what
  `Pruned` leaves. Without the hypothesis the prefix trigger above is a counterexample.

**KeyboardProofs**, for every layout:

- `KeyboardIsCaller`: `FeedbackSpec => Spec`, so that everything above holds under a
  keyboard (the corollary `KeyboardRewritesOwn` is one instance).
- `HeldKeysAreDown`: `FeedbackSpec => []HeldIsDown`, strengthened by: the key that
  repeats is down.
- `HeldKeysMirrorKeyboard`: `KeyboardSpec => []HeldMatchesKeyboard`; every branch of
  `KeyDown` adds a guarded key to `held`, every release removes it, and nothing else
  touches it while nobody resets.
- `TapsAreLone`: `KeyboardSpec => TapIsLone`, assuming `OneshotsSilent` (a oneshot has no tap
  action) and `TriggersMarked` (a hold trigger with a tap action is the only one and there
  is no BackSpace key); the exceptions are among the cases of section 3. The invariant
  `Marked` says that the keys of a hold modifier that are down are those it counts as
  pressed, that a trigger that is down is active, and that both have been alone unless they
  are marked as interrupted; a key that repeats is one of them or a guarded one.
- `HeldChordsFire`: `FeedbackSpec => []HeldChordFired`, in layouts without direct input or
  modifier layers over chord keys (`MutualsFirst`) whose mutual chords are closed
  (`MutualsClosed`): two that share a key are part of a longer one, and each key of a chord
  is in a smaller one without the key that comes last, or in a pair with it. Without the
  first, the last key fires one of two chords and leaves the other; without the second, a
  key whose partner was consumed by a smaller chord is passed over for a fresh one. When the
  last key of a chord goes down, a match exists (`MatchFound`: of finitely many chords one is
  longest), it is the longest of its kind (`MatchIsLongest`), and whatever of the chord it
  does not contain a smaller chord had consumed before (`FiredCovers`). `ProvedMutuals` in
  `MCKeyboard` has TLC evaluate the hypotheses on the layout of `MCMutual`.
- `CompletedChordsFire`: `Spec => LastKeyFires`, for every layout. `naginata-v17.toml` is
  not closed (its `j` is in 34 chords; `w j` and `e j`, for one, are in no common chord) and has a
  layer over chord keys, so `HeldChordsFire` says nothing of it; what does hold there is that
  the press that completes chords fires one of them that contains its key.

**EngineProofs**, for every layout and batches of any length:

- `ShownIsMozcs`: `EngineSpec => []ShownIsSession`. The dispatch loop is unrolled by a
  lemma on its accumulator: after each action the outputs not yet taken are a suffix of
  the replies, and once one has been taken the cached preedit and candidates are that
  reply's, so after the loop they are the last reply's, which is what the session holds.

and for layouts of kana (`KanaLayout`: cells, taps and chords type plain kana, a base cell
types one), as `tsuki-2-263.toml` and `shin-geta.toml` are, and the other kana files but for the
two cells with `!Return`:

- `KanaReachScreen`: `EngineSpec => TypedIsShown`, with or without Mozc, whether or not
  the batch fails. Of the actions of a call the invariant `TypedInv` says that they are one
  rewrite (BackSpaces, then the kana of one cell) or type nothing; the dispatch loop over a
  rewrite is then followed reply by reply if Mozc answers, action by action if it does not.
- `RewritableIsLast`: `EngineSpec => []TentativeOnScreen`, with Mozc there from the start
  and without the keys Return and Escape (`ScreenConfig`; section 3 says what they do).
- `RewritesAreExact`: `EngineSpec => RewriteExact`, if besides no key passes to the
  application or has no op while characters are open (`NothingEscapes`): what passes would
  land in the application's text, before the preedit.
- `EngineIsEditor`: `EngineSpec => RewritesAreAtomic`, the refinement of `Editor`, if besides
  there are no direct sequences (their text is committed ahead of the preedit) and every
  batch is answered (`EditConfig`; a batch that fails takes the preedit with it).

The invariant of the last three, `ScreenInv`, is about both halves of a call. Between calls
(`AtRest`) the text of the buffer ends the session's, and the buffer is empty while Mozc
converts. That alone is not inductive: when the state machine has run and Mozc has not, the
buffer is ahead of the text. So in the middle of a call (`AtCall`) it says what the actions
will do: the session ends in `u \o v`, all of it open, the actions erase `v` and type a cell,
and the buffer holds `u` and that cell (`RewritePending`); or the text already ends in the
buffer and the one action disturbs nothing (`QuietPending`); or nothing is open. That each
branch of `KeyDown` returns one of these shapes is `KeyDownShape`, by cases on the branch.
The refinement needs to know a little more of the calls that leave nothing open: `EditInv`
adds that such a call is a single action (`Lone`), and that an action for the application
alone comes with nothing open, from a key that does not erase. The dispatch of a rewrite is
then `Type`; that of a lone action is `Type` or `Erase` (`LoneLands`: one op and its reply
change at most the end of the text on the screen) or, for the application alone, `Bypass`; a
reset is `Discard`, a candidate taken is `Type`, and a call that has something to dispatch
is a stutter.

`ProvedLayouts` in `MCEngine` has TLC evaluate these hypotheses on the layouts of
`MCEngine` and `MCFailure`.

**MozcWorkerProofs**, from `WorkerAssumption`, `TimeAssumption`, `SizeAssumption`, for
any number of workers, ops, batches and any timeouts. The inductive invariant is `Types
/\ Protocol /\ Timing`:

- `Protocol` says where the batch of the current worker is: between calls its channels
  are empty and its thread waits (`Ready`); during a batch the batch is in exactly one
  place (`InFlight`): request channel, thread, response channel, or lost in a panic; a
  thread being joined has only `Shutdown` ahead of it (`Ending`). Nothing is said of
  detached workers: their channels are theirs alone.
- `Timing` bounds `frozen` by where the UI thread is and how long the current wait has
  lasted.
- `AnswersAreOwn`: the refinement of `MozcLink`, step by step from `Protocol`.
- `FreezeIsBounded`: `Spec => []FreezeBounded`, from `Timing`; the case of the joined
  thread needs `Ending`.
- `WorkerTypes`: `Spec => []WorkerTypeOK`; that `retryIn` stays a natural number needs
  the bound on a failed connection.

**MozcClientProofs** and **MozcOpsProofs**, from `ClientAssumption`, for any number of
clients, servers, names, ops and polls:

- `ClientTypes`: `ClientSpec => []ClientTypeOK`; polling is bounded.
- `SessionIsOn`: `ClientSpec => []ReadyIsOn`. The invariant adds what the server has
  done by the time a response is there (`Granted`) and that no command still in its
  queue is a threat to a session in use (`Harmless`): a delete is of a client that has
  dropped its session.
- `OkIsDone`: `ClientSpec => OkMeansDone`. Of each op there is at most one request in
  the queue, sent, not carried out, and for the session its client has (`OpsOnce`).
- `SessionsAreEnded`: `ClientSpec => SessionsEnd`. Every session on the server is that
  of the client it was made for (`SessionKept`), and a CREATE_SESSION in the queue is
  its client's only one (`Sole`).

**AddonProofs**, from `AddonAssumption`, for any files, contents, overrides, texts and
contexts:

- `LoadedIsSound`: a document that `Loads` compiles to a `Sound` layout: the loader's
  table of key names agrees with the encoder's, through aliases too.
- `TypeCorrect`, `RunsSoundLayouts`: whatever way a layout came in, what runs has been
  checked.
- `UpdatesArrive`: `AddonSpec => []NoUpdateLost`, over all three threads.
- `SettingsAreApplied`: `AddonSpec => []OptionsInEffect`, which is inductive: it relates
  `lastLayoutPath`, the engine's path and what was last selected, and says what an engine
  of `tryInitEngine` has (nothing) until a selection succeeds.
- `TimerRuns`: `AddonSpec => []TimerCovers`.
- `FocusShowsComposition`: `AddonSpec => []FocusIsCurrent`; the invariant relates the cache
  to what the focused panel shows.

**Only model-checked.** `TentativeOnScreen` and `RewriteExact` without Mozc (`MCFailure`),
where a rewrite may erase one character only: a kana of two breaks them (`BadAlone`), and so
would a rule over three keys; and liveness (`TailFires`, `CallsReturn`, `CallReturns`,
`PanelCatchesUp`), which needs ENABLED.

## 5. Plan

Done: every module of section 2, their runs and the theorems above. What would come
next, in this order:

1. `analyze_conflicts` and `check_modifier_key_overlap` against a reference definition
   of what is ambiguous.
2. A crash of the application or of fcitx5 in the middle of a call: the engine keeps
   nothing on disk, so this is about the sessions left on the server.

To keep the runs few, a run that asks several questions of one environment replaces
those that would ask one each.

## 6. Not modelled

- *Protocol bytes, vendored protocol files, build*: generated, or stateless encoding.
  What an op names and whether it can be encoded is in `LayoutLoader`; that `error_code`
  is not read is in `MozcClient`.
- *C ABI*: NULL arguments, string conversion and the cut at 511 bytes are loops over one
  string; the functions themselves are in the action that calls them.
- *Addon*: password fields, contexts that show no preedit (`preedit_fallback`), the
  labels of the status area and the entries of the dropdown.
- *Loader*: `analyze_conflicts` and `check_modifier_key_overlap` write warnings and
  change nothing; TOML's syntax is one flag of a document.
- *Command line tool*: a sequential driver that replays keys through the state machine
  and a client and prints what they say. It keeps no state of its own; its client is one
  of `MozcClient`'s `Clients`.
- *What lies outside the repository* (Mozc's session, the server's queue, the
  application's text, the keyboard, the watcher, the files) is modelled by what the code
  relies on and marked external.
