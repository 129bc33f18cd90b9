------------------------------- MODULE Engine -------------------------------
(***************************************************************************)
(* The engine of mzkana-ffi (src/engine.rs) between the state machine, a   *)
(* Mozc session and the application.  A call is two steps: the state       *)
(* machine returns its OutputActions (out), then dispatch_actions runs     *)
(* them as one batch of the Mozc worker and the addon applies the result   *)
(* to the application (applyResult).                                       *)
(*                                                                         *)
(* A text is a sequence of characters.  The session, and what an op does   *)
(* to it, is external: the part of Mozc's behaviour the engine relies on.  *)
(***************************************************************************)
EXTENDS StateMachine

CONSTANTS
  Connected,    \* whether Mozc is there at the start
  SuperTokens,  \* the modified-key tokens that contain Super (M-)
  MaxFailures,  \* bound: batches that fail or time out
  MaxText       \* bound: no key event with a longer text on the screen

ASSUME EngineAssumption ==
  /\ Connected \in BOOLEAN
  /\ SuperTokens \subseteq STRING
  /\ MaxFailures \in Nat
  /\ MaxText \in Nat

VARIABLES
  call,        \* the call whose actions are to be dispatched
  mozc,        \* Engine.mozc is Some
  session,     \* external: the session of the Mozc server
  preedit,     \* Engine.preedit
  candidates,  \* Engine.candidates: the text they convert, <<>> for none
  app,         \* external: the text of the application
  failures,    \* batches that have failed
  open         \* history: characters the state machine could rewrite when called

link     == <<mozc, session, failures>>
ui       == <<preedit, candidates>>
smFields == <<pending, tentative, modifiers, trigger, triggerInterrupted, mozcMode,
              chordDeadline, held, consumed, now>>
evars    == <<vars, call, mozc, session, preedit, candidates, app, failures, open>>

Idle       == [kind |-> "idle", key |-> ""]
NewSession == [text |-> <<>>, converting |-> FALSE]

EngineInit ==
  /\ Init
  /\ call = Idle
  /\ mozc = Connected
  /\ session = NewSession
  /\ preedit = <<>>
  /\ candidates = <<>>
  /\ app = <<>>
  /\ failures = 0
  /\ open = 0

-----------------------------------------------------------------------------
(* Mozc's session: the reply to one op holds the session after it.         *)

Reply(text, converting, result, isConsumed) ==
  [text |-> text, converting |-> converting, result |-> result, consumed |-> isConsumed]

BackspaceKey(s) ==
  CASE s.text = <<>>                    -> Reply(<<>>, FALSE, <<>>, FALSE)
    [] s.text # <<>> /\ s.converting    -> Reply(s.text, FALSE, <<>>, TRUE)
    [] s.text # <<>> /\ ~s.converting   -> Reply(Front(s.text), FALSE, <<>>, TRUE)

FunctionKey(s, name) ==
  LET key == name[1]
  IN  CASE key \in BackspaceKeys           -> BackspaceKey(s)
        [] s.text = <<>> /\ key = "space"  -> Reply(<<>>, FALSE, name, TRUE)
        [] s.text = <<>> /\ key # "space"  -> Reply(<<>>, FALSE, <<>>, FALSE)
        [] s.text # <<>> /\ key = "Return" -> Reply(<<>>, FALSE, s.text, TRUE)
        [] s.text # <<>> /\ key = "space"  -> Reply(s.text, TRUE, <<>>, TRUE)
        [] s.text # <<>> /\ key = "Escape" ->
             Reply(IF s.converting THEN s.text ELSE <<>>, FALSE, <<>>, TRUE)
        [] OTHER -> Reply(s.text, s.converting, <<>>, TRUE)

Served(s, a) ==
  CASE a.act = "SendKana" ->
         IF s.converting THEN Reply(a.text, FALSE, s.text, TRUE)
                         ELSE Reply(s.text \o a.text, FALSE, <<>>, TRUE)
    [] a.act = "Backspace" -> BackspaceKey(s)
    [] a.act \in {"MozcSubmit", "SubmitThenPassthrough"} -> Reply(<<>>, FALSE, s.text, TRUE)
    [] a.act \in {"SendFunctionKey", "SendModifiedKey"} -> FunctionKey(s, a.text)

Replies(ops) ==
  LET reply[i \in 1..Len(ops)] == Served(IF i = 1 THEN session ELSE reply[i - 1], ops[i])
  IN  reply

-----------------------------------------------------------------------------
(* dispatch_actions *)

(* action_op: Passthrough and CommitDirect issue no op, nor does Super.    *)
HasOp(a) == /\ a.act \notin {"Passthrough", "CommitDirect"}
            /\ ~(a.act = "SendModifiedKey" /\ a.text[1] \in SuperTokens)

(* fallback_passthrough; <<>> for None *)
Fallback(a) == CASE a.act = "Backspace"       -> <<"BackSpace">>
                 [] a.act = "MozcSubmit"      -> <<"Return">>
                 [] a.act = "SendFunctionKey" -> a.text
                 [] OTHER                     -> <<>>

(* What the loop over the actions accumulates: the outputs not yet taken,  *)
(* the locals of dispatch_actions and the fields apply_mozc_output sets.   *)
Undispatched(replies, alive) ==
  [replies |-> replies, alive |-> alive, commit |-> <<>>, passthrough |-> <<>>,
   forward |-> <<>>, consumed |-> FALSE, preedit |-> preedit,
   candidates |-> candidates, mode |-> mozcMode, cleared |-> FALSE]

(* Mutant of Applied: the candidates of an ended conversion stay. *)
AppliedKeepingWindow(r) ==
  LET o == Head(r.replies)
  IN  [r EXCEPT !.replies = Tail(r.replies), !.preedit = o.text,
                !.candidates = IF o.converting THEN o.text ELSE r.candidates,
                !.commit = r.commit \o o.result,
                !.mode = IF o.converting THEN "Conversion" ELSE "Composition",
                !.cleared = r.cleared \/ (o.converting /\ r.mode # "Conversion")]

(* apply_mozc_output; cleared: notify_mozc_conversion left composition     *)
Applied(r) ==
  LET o == Head(r.replies)
  IN  [r EXCEPT !.replies = Tail(r.replies), !.preedit = o.text,
                !.candidates = IF o.converting THEN o.text ELSE <<>>,
                !.commit = r.commit \o o.result,
                !.mode = IF o.converting THEN "Conversion" ELSE "Composition",
                !.cleared = r.cleared \/ (o.converting /\ r.mode # "Conversion")]

(* One action of the loop. *)
Handled(r, a) ==
  LET answered == r.replies # <<>>
      taken    == answered /\ Head(r.replies).consumed
      s        == IF answered THEN Applied(r) ELSE r
  IN  CASE a.act = "Passthrough"  -> [r EXCEPT !.passthrough = a.text]
        [] a.act = "CommitDirect" -> [r EXCEPT !.commit = a.text, !.consumed = TRUE]
        [] a.act = "SubmitThenPassthrough" -> [s EXCEPT !.passthrough = a.text]
        [] a.act = "SendModifiedKey" ->
             [s EXCEPT !.forward = IF taken THEN @ ELSE a.text, !.consumed = TRUE]
        [] a.act = "SendKana" /\ ~answered /\ ~r.alive ->
             [r EXCEPT !.commit = @ \o a.text, !.consumed = TRUE]
        [] a.act \in {"Backspace", "MozcSubmit", "SendFunctionKey"}
           /\ ~taken /\ (answered \/ ~r.alive) -> [s EXCEPT !.passthrough = Fallback(a)]
        [] OTHER -> [s EXCEPT !.consumed = TRUE]

(* The addon: keys the application gets, and applyResult with the event's  *)
(* own key, which reaches the application unless the event was consumed.   *)
AppKey(text, key) == IF key \in BackspaceKeys
                     THEN SubSeq(text, 1, Max({0, Len(text) - 1}))
                     ELSE Append(text, key)
AppKeys(text, keys) == IF keys = <<>> THEN text ELSE AppKey(text, keys[1])

(* Mutant of Shown: the commit precedes the forwarded key. *)
ShownCommitFirst(r) ==
  IF r.consumed
  THEN AppKeys(AppKeys(app \o r.commit, r.passthrough), r.forward)
  ELSE AppKeys(AppKeys(app \o r.commit, r.forward),
               IF r.passthrough # <<>> /\ call.kind = "down" THEN <<call.key>> ELSE <<>>)

Shown(r) ==
  IF r.consumed
  THEN AppKeys(AppKeys(app, r.passthrough) \o r.commit, r.forward)
  ELSE AppKeys(AppKeys(app \o r.commit, r.forward),
               IF r.passthrough # <<>> /\ call.kind = "down" THEN <<call.key>> ELSE <<>>)

(* The loop. *)
Dispatched(replies, alive) ==
  LET done[i \in 0..Len(out)] == IF i = 0 THEN Undispatched(replies, alive)
                                         ELSE Handled(done[i - 1], out[i])
  IN  done[Len(out)]

Finish(replies, alive) ==
  LET r == Dispatched(replies, alive)
  IN  /\ app' = Shown(r)
      /\ preedit' = r.preedit
      /\ candidates' = r.candidates
      /\ mozcMode' = r.mode
      /\ IF r.cleared
         THEN tentative' = <<>> /\ pending' = <<>> /\ held' = {} /\ consumed' = {}
         ELSE UNCHANGED <<tentative, pending, held, consumed>>
      /\ UNCHANGED <<modifiers, trig, chordDeadline, now>>
      /\ call' = Idle
      /\ out' = <<>>
      /\ open' = 0

Ops == Retained(out, {i \in DOMAIN out : HasOp(out[i])})

DispatchAnswered ==
  /\ call # Idle /\ mozc /\ Ops # <<>>
  /\ session' = [text |-> Last(Replies(Ops)).text,
                 converting |-> Last(Replies(Ops)).converting]
  /\ Finish(Replies(Ops), TRUE)
  /\ UNCHANGED <<mozc, failures>>

DispatchAlone ==
  /\ call # Idle
  /\ ~mozc \/ Ops = <<>>
  /\ Finish(<<>>, FALSE)
  /\ UNCHANGED link

(* The batch timed out, the thread is gone or one op failed: the outputs   *)
(* are cleared and the worker is dropped, with its session.                *)
LoseMozc ==
  /\ mozc /\ failures < MaxFailures
  /\ mozc' = FALSE
  /\ session' = NewSession
  /\ failures' = failures + 1

(* Mutant of DispatchFailed: mozc_alive stays true. *)
DispatchStillAlive ==
  /\ call # Idle /\ Ops # <<>>
  /\ LoseMozc
  /\ Finish(<<>>, TRUE)

DispatchFailed ==
  /\ call # Idle /\ Ops # <<>>
  /\ LoseMozc
  /\ Finish(<<>>, FALSE)

Dispatch == DispatchAnswered \/ DispatchAlone \/ DispatchFailed

-----------------------------------------------------------------------------
(* The calls. *)

(* dispatch_actions returns at once if there is nothing to dispatch.       *)
Called(kind, key) ==
  /\ call = Idle
  /\ call' = IF out' = <<>> THEN Idle ELSE [kind |-> kind, key |-> key]
  /\ open' = IF out' = <<>> THEN 0 ELSE Len(TextOf(tentative))
  /\ UNCHANGED <<link, ui, app>>

Space == Room /\ Len(app) + Len(session.text) <= MaxText

KeyDownCall(k, shift) == Space /\ KeyDown(k, shift) /\ Called("down", k)
KeyUpCall(k)          == Space /\ KeyUp(k) /\ Called("up", k)

(* The addon's timer runs while the last result had a preedit.             *)
TickCall == preedit # <<>> /\ Tick /\ Called("tick", "")

(* try_reconnect_mozc, at the start of a key event. *)
Reconnect ==
  /\ call = Idle /\ ~mozc
  /\ mozc' = TRUE
  /\ UNCHANGED <<vars, call, session, failures, ui, app, open>>

ClearUi == preedit' = <<>> /\ candidates' = <<>>

(* The batch is answered, with an error for its Revert, which was carried  *)
(* out or was not.  reset() does not look at it and keeps the worker.      *)
RevertFails ==
  /\ mozc /\ failures < MaxFailures
  /\ session' \in {session, NewSession}
  /\ failures' = failures + 1
  /\ UNCHANGED mozc

(* reset(), also the part of focus_out_preserved, check_reload and         *)
(* reload_layout_from that touches Mozc: a new state machine differs from  *)
(* a reset one in nothing that is read.                                    *)
ResetCall ==
  /\ call = Idle
  /\ Reset
  /\ \/ ~mozc /\ UNCHANGED link
     \/ mozc /\ session' = NewSession /\ UNCHANGED <<mozc, failures>>
     \/ LoseMozc
     \/ RevertFails
  /\ ClearUi
  /\ UNCHANGED <<call, app, open>>

(* select_candidate, from the candidate window. *)
SelectCandidate ==
  /\ call = Idle
  /\ candidates # <<>>
  /\ Reset
  /\ \/ ~mozc /\ UNCHANGED <<link, app>>
     \/ /\ mozc
        /\ app' = IF session.converting THEN app \o session.text ELSE app
        /\ session' = IF session.converting THEN NewSession ELSE session
        /\ UNCHANGED <<mozc, failures>>
     \/ LoseMozc /\ UNCHANGED app
  /\ ClearUi
  /\ UNCHANGED <<call, open>>

Wait == /\ call = Idle
        /\ Advance
        /\ UNCHANGED <<call, link, ui, app, open>>

EngineNext ==
  \/ \E k \in Keys, shift \in BOOLEAN : KeyDownCall(k, shift)
  \/ \E k \in Keys : KeyUpCall(k)
  \/ TickCall
  \/ Dispatch
  \/ Reconnect
  \/ ResetCall
  \/ SelectCandidate
  \/ Wait

EngineSpec == EngineInit /\ [][EngineNext]_evars

(* The event loop runs what a call has begun, the timer it has enabled,    *)
(* and time passes; nobody has to press a key.                             *)
FairEngineSpec == /\ EngineSpec
                  /\ WF_evars(Dispatch) /\ WF_evars(TickCall) /\ WF_evars(Wait)

-----------------------------------------------------------------------------
(* design document, section 8: tentative_buffer and the end of Mozc's      *)
(* preedit correspond, which is what makes a rewrite's BackSpaces erase    *)
(* what they are meant to.  (Without Mozc, the end of the application's    *)
(* text takes the place of the preedit; a failed batch loses both.)        *)
Screen == app \o session.text
TentativeOnScreen ==
  call = Idle /\ failures = 0 => IsSuffix(TextOf(tentative), Screen)

(* A call that leaves tentative characters has put them right after the    *)
(* text it was not allowed to touch: nothing more is erased, nothing less  *)
(* (one BackSpace per character of the preedit), and nothing is typed in   *)
(* between.                                                                *)
RewriteExact ==
  [][call # Idle /\ failures' = 0 /\ tentative' # <<>> =>
       Screen' = SubSeq(Screen, 1, Len(Screen) - open) \o TextOf(tentative')]_evars

(* Whatever becomes of the batch, the kana of a call are on the screen     *)
(* after it, in order: in Mozc's preedit, or committed directly if the     *)
(* batch failed or there is no Mozc.                                       *)
KanaOf(actions) ==
  FlattenSeq([i \in DOMAIN actions |->
                IF actions[i].act = "SendKana" THEN actions[i].text ELSE <<>>])
TypedIsShown == [][call # Idle => IsSuffix(KanaOf(out), Screen')]_evars

(* What the addon shows is what Mozc holds: the preedit is the session's,  *)
(* and candidates are on offer only while it converts that text.  (A batch *)
(* that fails takes the session away and leaves what was shown.)           *)
ShownIsSession ==
  call = Idle /\ failures = 0
    => /\ preedit = session.text
       /\ candidates = IF session.converting THEN session.text ELSE <<>>

(* updateTickTimer: "chord-confirm deadlines and deferred compound-output  *)
(* tails fire even without further key input": no tail waits for ever.     *)
TailWaitsAt(n) == n <= Len(tentative) /\ tentative[n].tail # <<>>
TailFires == \A n \in 1..(MaxTentative + 1) : TailWaitsAt(n) ~> ~TailWaitsAt(n)

(* A rewrite is atomic for the user: nothing before the text it owns is    *)
(* touched, whatever the key, the batch and the application do.            *)
AbstractEditor == INSTANCE Editor WITH
  committed <- app, composing <- session.text,
  open <- IF call = Idle THEN Len(TextOf(tentative)) ELSE open
RewritesAreAtomic == AbstractEditor!Spec

-----------------------------------------------------------------------------
(* The layouts the properties of the text on the screen are proved for.    *)

(* A cell that types kana, and nothing else.                               *)
KanaCell(cell) == \A i \in DOMAIN cell : cell[i].kind = "kana" /\ cell[i].text # <<>>

(* Every rule and every tap types kana only, and a base cell one token, so *)
(* that nothing is deferred to a tick.                                     *)
KanaLayout(layout) ==
  /\ \A k \in DOMAIN layout.base : Len(layout.base[k]) = 1 /\ KanaCell(layout.base[k])
  /\ \A t \in DOMAIN layout.prefix : \A k \in DOMAIN layout.prefix[t] :
        KanaCell(layout.prefix[t][k])
  /\ \A t \in DOMAIN layout.postfix : \A k \in DOMAIN layout.postfix[t] :
        KanaCell(layout.postfix[t][k])
  /\ \A i \in DOMAIN layout.modified : \A k \in DOMAIN layout.modified[i] :
        KanaCell(layout.modified[i][k])
  /\ \A i \in DOMAIN layout.modifiers : KanaCell(layout.modifiers[i].tapOutput)
  /\ \A i \in DOMAIN layout.chords : KanaCell(layout.chords[i].output)

(* No direct sequence, whose text would be committed ahead of the preedit. *)
NoDirects(layout) == DOMAIN layout.directs = {}

(* No key passes to the application while characters are open.             *)
NothingPassed(layout) ==
  /\ \A k \in DOMAIN layout.base : layout.base[k] # PASSTHROUGH_CELL
  /\ \A i \in DOMAIN layout.modified : \A k \in DOMAIN layout.modified[i] :
        layout.modified[i][k] # PASSTHROUGH_CELL
  /\ \A i \in DOMAIN layout.modifiers :
        layout.modifiers[i].tapAction = "Passthrough"
          => layout.modifiers[i].keys \subseteq MOZC_CONTROL_KEYS
  /\ layout.triggerKeys = {} \/ layout.triggerTap = "None"

=============================================================================
