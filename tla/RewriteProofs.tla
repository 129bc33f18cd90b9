--------------------------- MODULE RewriteProofs ----------------------------
(***************************************************************************)
(* What the state machine may take back, for every layout and every order  *)
(* of events:                                                              *)
(*   RewritesOwnKana   a step that types kana keeps every char it has no   *)
(*                     right to;                                           *)
(*   KanjiInputIsSilent   with tap actions that type nothing, nothing is   *)
(*                       speculative while a direct trigger is active;     *)
(*   RulesTakeAll      with layouts of which no key types the same rule    *)
(*                     twice, a rule takes back all it may;                *)
(*   ChordsFormInTime  with chords whose keys make no other rule, no chord *)
(*                     forms with a key whose window has elapsed.          *)
(***************************************************************************)
EXTENDS StateMachineProofs

-----------------------------------------------------------------------------
(* Which of the returned actions type kana.                                *)

(* BackSpaces type nothing. *)
LEMMA BackspacesSilent ==
  ASSUME NEW tb, NEW n
  PROVE  ~Types(Backspaces(tb, n))
BY DEF Types, Backspaces, Action

(* A cell that types kana has a kana token. *)
LEMMA OutputsKana ==
  ASSUME NEW cell \in Seq(Token), Types(Outputs(cell))
  PROVE  \E i \in DOMAIN cell : cell[i].kind = "kana"
<1>1. PICK i \in DOMAIN cell : ActionName(cell[i].kind) = "SendKana"
  BY DEF Types, Outputs, Action
<1>2. \A j \in 1..Len(cell) : cell[j] \in Token
  OBVIOUS
<1>3. cell[i] \in Token /\ i \in DOMAIN cell
  BY <1>2
<1>. QED  BY <1>1, <1>3 DEF ActionName, Token

ActionNames == {"SendKana", "SendFunctionKey", "SendModifiedKey", "Backspace",
                "MozcSubmit", "CommitDirect", "Passthrough", "SubmitThenPassthrough"}
Actions == [act : ActionNames, text : Seq(STRING)]

(* An action is one of the actions. *)
LEMMA ActionType ==
  ASSUME NEW act \in ActionNames, NEW text \in Seq(STRING)
  PROVE  Action(act, text) \in Actions
BY DEF Action, Actions

(* A rewrite's BackSpaces are a sequence of actions. *)
LEMMA BackspacesType ==
  ASSUME NEW tb \in Seq(TentativeChar), NEW n \in Nat
  PROVE  Backspaces(tb, n) \in Seq(Actions)
<1>. DEFINE rest == SubSeq(tb, n + 1, Len(tb))
            m    == Len(TextOf(rest))
<1>1. m \in Nat
  <2>1. rest \in Seq(TentativeChar)
    OBVIOUS
  <2>2. TextOf(rest) \in Seq(STRING)
    BY <2>1, TextType
  <2>. QED  BY <2>2
<1>2. <<>> \in Seq(STRING)
  BY NoElements
<1>3. Action("Backspace", <<>>) \in Actions
  BY <1>2, ActionType DEF ActionNames
<1>4. Backspaces(tb, n) = [c \in 1..m |-> Action("Backspace", <<>>)]
  BY DEF Backspaces
<1>. HIDE DEF m
<1>. QED  BY <1>1, <1>3, <1>4

(* So is what a cell becomes. *)
LEMMA OutputsType ==
  ASSUME NEW cell \in Seq(Token)
  PROVE  Outputs(cell) \in Seq(Actions)
<1>1. \A i \in 1..Len(cell) : cell[i] \in Token
  OBVIOUS
<1>2. \A i \in 1..Len(cell) :
        ActionName(cell[i].kind) \in ActionNames /\ cell[i].text \in Seq(STRING)
  BY <1>1 DEF ActionName, ActionNames, Token
<1>3. \A i \in 1..Len(cell) : Action(ActionName(cell[i].kind), cell[i].text) \in Actions
  BY <1>2, ActionType
<1>4. Outputs(cell) = [i \in 1..Len(cell) |-> Action(ActionName(cell[i].kind), cell[i].text)]
  BY DEF Outputs
<1>. QED  BY <1>3, <1>4

(* If a concatenation types kana, one of its parts does. *)
LEMMA TypesConcat ==
  ASSUME NEW a \in Seq(Actions), NEW b \in Seq(Actions), Types(a \o b)
  PROVE  Types(a) \/ Types(b)
<1>1. PICK j \in DOMAIN (a \o b) : (a \o b)[j].act = "SendKana"
  BY DEF Types
<1>2. CASE j <= Len(a)
  <2>1. (a \o b)[j] = a[j] /\ j \in DOMAIN a
    BY <1>1, <1>2
  <2>. QED  BY <1>1, <2>1 DEF Types
<1>3. CASE j > Len(a)
  <2>1. (a \o b)[j] = b[j - Len(a)] /\ j - Len(a) \in DOMAIN b
    BY <1>1, <1>3
  <2>. QED  BY <1>1, <2>1 DEF Types
<1>. QED  BY <1>1, <1>2, <1>3

(* Of BackSpaces and a cell, only the cell types kana. *)
LEMMA RewriteKana ==
  ASSUME NEW tb \in Seq(TentativeChar), NEW n \in Nat,
         NEW cell \in Seq(Token), Types(Backspaces(tb, n) \o Outputs(cell))
  PROVE  Types(Outputs(cell))
BY BackspacesType, OutputsType, TypesConcat, BackspacesSilent

-----------------------------------------------------------------------------
(* What a rule leaves of the buffer.                                       *)

(* emit_sequence keeps what is in the buffer, in place. *)
LEMMA PushedKeeps ==
  ASSUME NEW tb \in Seq(TentativeChar), NEW cell \in Seq(Token), NEW src
  PROVE  \A i \in DOMAIN tb : /\ i \in DOMAIN Pushed(tb, cell, src)
                             /\ Pushed(tb, cell, src)[i] = tb[i]
<1>. DEFINE kana == Retained(cell, {i \in DOMAIN cell : cell[i].kind = "kana"})
            more == [i \in DOMAIN kana |-> NewChar(kana[i].text, src, NoDeadline, <<>>)]
<1>1. kana \in Seq(Token) /\ DOMAIN kana = 1..Len(kana)
  BY RetainedSeq
<1>2. Pushed(tb, cell, src) = tb \o more
  BY DEF Pushed
<1>. HIDE DEF kana
<1>3. Len(more) \in Nat /\ more \in Seq({more[i] : i \in DOMAIN more})
  BY <1>1
<1>. HIDE DEF more
<1>. QED  BY <1>2, <1>3

(* A cell with a kana pushes at least one char, all from the given keys.   *)
LEMMA PushedLast ==
  ASSUME NEW tb \in Seq(TentativeChar), NEW cell \in Seq(Token), NEW src \in Seq(Keys),
         \E i \in DOMAIN cell : cell[i].kind = "kana"
  PROVE  Last(Pushed(tb, cell, src)).src = src
<1>. DEFINE I    == {i \in DOMAIN cell : cell[i].kind = "kana"}
            kana == Retained(cell, I)
            more == [i \in DOMAIN kana |-> NewChar(kana[i].text, src, NoDeadline, <<>>)]
<1>1. kana \in Seq(Token) /\ DOMAIN kana = 1..Len(kana)
  BY RetainedSeq
<1>2. Len(kana) > 0
  <2>1. I \in SUBSET (1..Len(cell)) /\ Len(cell) \in Nat
    OBVIOUS
  <2>2. IsFiniteSet(I)
    <3>1. IsFiniteSet(1..Len(cell))
      BY <2>1, FS_Interval
    <3>. QED  BY <2>1, <3>1, FS_Subset
  <2>3. Cardinality(I) \in Nat /\ Cardinality(I) # 0
    BY <2>2, FS_CardinalityType, FS_EmptySet
  <2>4. DOMAIN kana = 1..Cardinality(I)
    BY DEF Retained
  <2>. HIDE DEF I, kana
  <2>. QED  BY <1>1, <2>3, <2>4
<1>3. Pushed(tb, cell, src) = tb \o more
  BY DEF Pushed
<1>. HIDE DEF kana
<1>4. more \in Seq({more[i] : i \in DOMAIN more}) /\ Len(more) = Len(kana)
  BY <1>1
<1>5. \A i \in DOMAIN more : more[i].src = src
  BY DEF NewChar
<1>6. Len(more) \in DOMAIN more
  BY <1>1, <1>2, <1>4
<1>. HIDE DEF more
<1>7. (tb \o more)[Len(tb \o more)] = more[Len(more)]
  BY <1>1, <1>2, <1>4
<1>. QED  BY <1>3, <1>5, <1>6, <1>7 DEF Last

(* Behind what a rule may not touch, every char is unconfirmed and its own. *)
LEMMA UnaffectedRest ==
  ASSUME NEW tb \in Seq(TentativeChar), NEW ruleKeys, NEW i \in DOMAIN tb,
         i > Unaffected(tb, ruleKeys)
  PROVE  ~tb[i].confirmed /\ ToSet(tb[i].src) \subseteq ruleKeys
<1>1. Len(tb) \in Nat /\ Locked(tb, ruleKeys) \in SUBSET (1..Len(tb))
  BY DEF Locked
<1>2. \A x \in Locked(tb, ruleKeys) : x <= Unaffected(tb, ruleKeys)
  BY <1>1, MaxOfIndices DEF Unaffected
<1>3. i \notin Locked(tb, ruleKeys)
  BY <1>1, <1>2, UnaffectedRange
<1>. QED  BY <1>3 DEF Locked

-----------------------------------------------------------------------------
(* A step that types kana, action by action.                               *)

(* What RewriteOnlyOwn says of one step. *)
OwnRewrite ==
  Types(out') /\ mozcMode = "Composition" =>
    \A i \in DOMAIN tentative :
      \/ Survives(i)
      \/ /\ ~tentative[i].confirmed
         /\ ToSet(tentative[i].src) \subseteq ToSet(Last(tentative').src)

(* A rule that fires: what it pops was its own, what it types ends the buffer. *)
LEMMA RuleRewritesOwn ==
  ASSUME TypeOK, NEW cell \in Seq(Token), NEW src \in Seq(Keys),
         LET n == Unaffected(tentative, ToSet(src))
         IN  /\ tentative' = Pushed(SubSeq(tentative, 1, n), cell, src)
             /\ out' = Backspaces(tentative, n) \o Outputs(cell)
  PROVE  OwnRewrite
<1>. DEFINE n    == Unaffected(tentative, ToSet(src))
            rest == SubSeq(tentative, 1, n)
<1>1. tentative \in Seq(TentativeChar) /\ n \in 0..Len(tentative)
  BY UnaffectedRange DEF TypeOK
<1>2. /\ rest \in Seq(TentativeChar)
      /\ \A i \in 1..n : i \in DOMAIN rest /\ rest[i] = tentative[i]
  BY <1>1
<1>3. SUFFICES ASSUME Types(out')
               PROVE  \A i \in DOMAIN tentative :
                        \/ Survives(i)
                        \/ /\ ~tentative[i].confirmed
                           /\ ToSet(tentative[i].src) \subseteq ToSet(Last(tentative').src)
  BY DEF OwnRewrite
<1>4. Types(Outputs(cell))
  BY <1>1, <1>3, RewriteKana
<1>5. Last(tentative').src = src
  BY <1>2, <1>4, OutputsKana, PushedLast
<1>6. ASSUME NEW i \in 1..n  PROVE Survives(i)
  <2>1. i \in DOMAIN tentative' /\ tentative'[i] = tentative[i]
    BY <1>2, <1>6, PushedKeeps
  <2>. QED  BY <2>1 DEF Survives
<1>7. ASSUME NEW i \in DOMAIN tentative, i > n
      PROVE  ~tentative[i].confirmed /\ ToSet(tentative[i].src) \subseteq ToSet(src)
  BY <1>1, <1>7, UnaffectedRest
<1>. HIDE DEF n, rest
<1>8. \A i \in DOMAIN tentative : i \in 1..n \/ i > n
  BY <1>1
<1>. QED  BY <1>5, <1>6, <1>7, <1>8

(* A step that only adds to the buffer rewrites nothing.                   *)
LEMMA AddsOnly ==
  ASSUME TypeOK, NEW cell \in Seq(Token), NEW src,
         tentative' = Pushed(tentative, cell, src)
  PROVE  OwnRewrite
<1>1. \A i \in DOMAIN tentative : i \in DOMAIN tentative' /\ tentative'[i] = tentative[i]
  BY PushedKeeps DEF TypeOK
<1>. QED  BY <1>1 DEF OwnRewrite, Survives

(* Nor does one that leaves it alone, or one that types nothing. *)
LEMMA NothingRewritten ==
  ASSUME tentative' = tentative \/ ~Types(out')
  PROVE  OwnRewrite
BY DEF OwnRewrite, Survives

(* process_direct_key commits kanji and types no kana. *)
LEMMA DirectTypesNothing ==
  ASSUME TypeOK, NEW k \in Keys, DirectKey(k)
  PROVE  out' \in Seq(Actions) /\ ~Types(out')
<1>. DEFINE tb    == TentativeAt(k)
            flush == Backspaces(tb, 0)
            submit == IF flush = <<>> THEN <<>> ELSE <<Action("MozcSubmit", <<>>)>>
            committed(cell) ==
              [i \in DOMAIN cell |-> IF cell[i].kind = "kana"
                                     THEN Action("CommitDirect", cell[i].text)
                                     ELSE Outputs(cell)[i]]
<1>1. CASE out' = <<>>
  BY <1>1, NoElements DEF Types
<1>2. ASSUME NEW cell \in Seq(Token), out' = flush \o submit \o committed(cell)
      PROVE  out' \in Seq(Actions) /\ ~Types(out')
  <2>1. flush \in Seq(Actions) /\ ~Types(flush)
    BY RegularTypes, BackspacesType, BackspacesSilent
  <2>2. submit \in Seq(Actions) /\ ~Types(submit)
    <3>1. <<>> \in Seq(STRING)
      BY NoElements
    <3>2. Action("MozcSubmit", <<>>) \in Actions
      BY <3>1, ActionType DEF ActionNames
    <3>3. ~Types(<<>>) /\ ~Types(<<Action("MozcSubmit", <<>>)>>)
      BY DEF Types, Action
    <3>. QED  BY <3>2, <3>3
  <2>3. committed(cell) \in Seq(Actions) /\ ~Types(committed(cell))
    <3>1. \A i \in 1..Len(cell) : cell[i] \in Token
      OBVIOUS
    <3>2. \A i \in 1..Len(cell) : Outputs(cell)[i] \in Actions
      BY OutputsType DEF Outputs
    <3>3. \A i \in 1..Len(cell) : Action("CommitDirect", cell[i].text) \in Actions
      BY <3>1, ActionType DEF Token, ActionNames
    <3>4. \A i \in 1..Len(cell) : committed(cell)[i] \in Actions
      BY <3>2, <3>3
    <3>5. DOMAIN cell = 1..Len(cell) /\ Len(cell) \in Nat
      OBVIOUS
    <3>6. \A i \in DOMAIN cell : committed(cell)[i].act # "SendKana"
      BY <3>1, <3>5 DEF Outputs, Action, ActionName, Token
    <3>. QED  BY <3>4, <3>5, <3>6 DEF Types
  <2>. HIDE DEF flush, submit, committed
  <2>4. flush \o submit \in Seq(Actions) /\ ~Types(flush \o submit)
    BY <2>1, <2>2, TypesConcat
  <2>5. (flush \o submit) \o committed(cell) \in Seq(Actions)
    BY <2>3, <2>4
  <2>6. ~Types((flush \o submit) \o committed(cell))
    BY <2>3, <2>4, TypesConcat
  <2>. QED  BY <1>2, <2>5, <2>6
<1>3. out' = <<>> \/ \E cell \in Seq(Token) : out' = flush \o submit \o committed(cell)
  BY LayoutAssumption DEF DirectKey
<1>. QED  BY <1>1, <1>2, <1>3

(* process_key_down rewrites only what is its own.                         *)
LEMMA KeyDownRewrites ==
  ASSUME TypeOK, NEW k \in Keys, NEW shift \in BOOLEAN, KeyDown(k, shift)
  PROVE  OwnRewrite
<1>1. CASE mozcMode # "Composition"
  BY <1>1 DEF OwnRewrite
<1>2. CASE mozcMode = "Composition"
  <2>1. TentativeAt(k) = tentative
    BY <1>2 DEF TentativeAt, Fresh
  <2>2. <<k>> \in Seq(Keys)
    OBVIOUS
  <2>3. CASE HeldKeyDown(k) \/ ModifierKeyDown(k) \/ TriggerOff(k)
    BY <2>3, NothingRewritten DEF HeldKeyDown, ModifierKeyDown, TriggerOff, buffers
  <2>4. CASE TriggerOn(k)
    BY <2>4, BackspacesSilent, NothingRewritten DEF TriggerOn
  <2>5. CASE BackspaceDown(k)
    <3>1. CASE tentative = <<>>
      BY <2>5, <3>1 DEF OwnRewrite
    <3>2. CASE tentative # <<>>
      BY <2>5, <3>2, BackspacesSilent, NothingRewritten DEF BackspaceDown
    <3>. QED  BY <3>1, <3>2
  <2>6. CASE DirectKey(k)
    BY <2>6, DirectTypesNothing, NothingRewritten
  <2>7. CASE LayerKey(k)
    <3>1. PICK i \in ModifiedLayer(k) :
            \/ tentative' = tentative
            \/ tentative' = Pushed(tentative, Layout.modified[i][k], <<k>>)
      BY <2>1, <2>7 DEF LayerKey
    <3>2. i \in DOMAIN Layout.modified /\ k \in DOMAIN Layout.modified[i]
      BY <3>1, LayoutAssumption DEF ModifiedLayer, FirstOf, TypeOK
    <3>. QED  BY <3>1, <3>2, LayoutCells, NothingRewritten, AddsOnly
  <2>8. CASE ChordKey(k)
    <3>1. PICK c \in MutualChordMatch(k, HeldAt(k)) :
            LET n == Unaffected(tentative, ChordKeys(c))
            IN  /\ tentative' = Pushed(SubSeq(tentative, 1, n), Layout.chords[c].output,
                                       Layout.chords[c].keys)
                /\ out' = Backspaces(tentative, n) \o Outputs(Layout.chords[c].output)
      BY <2>1, <2>8 DEF ChordKey
    <3>2. c \in DOMAIN Layout.chords
      BY DEF MutualChordMatch, MutualChords
    <3>. QED  BY <3>1, <3>2, LayoutCells, RuleRewritesOwn DEF ChordKeys
  <2>9. CASE RuleKey(k)
    <3>1. PICK rule \in ResolvedRule(SpecPending(k), tentative, k) :
            LET n == Unaffected(tentative, ToSet(rule.src))
            IN  /\ tentative' = Pushed(SubSeq(tentative, 1, n), rule.output, rule.src)
                /\ out' = Backspaces(tentative, n) \o Outputs(rule.output)
      BY <2>1, <2>9 DEF RuleKey
    <3>2. rule.output \in Seq(Token) /\ rule.src \in Seq(Keys)
      BY RegularTypes, ResolvedRuleType DEF TypeOK
    <3>. QED  BY <3>1, <3>2, RuleRewritesOwn
  <2>10. CASE WaitingKey(k) \/ PassthroughKey(k)
    BY <2>1, <2>10, NothingRewritten DEF WaitingKey, PassthroughKey
  <2>11. CASE UnassignedKey(k, shift)
    <3>1. \/ tentative' = tentative
          \/ out' = <<Action("SubmitThenPassthrough", <<k>>)>>
      BY <2>1, <2>11 DEF UnassignedKey
    <3>2. ~Types(<<Action("SubmitThenPassthrough", <<k>>)>>)
      BY DEF Types, Action
    <3>. QED  BY <3>1, <3>2, NothingRewritten
  <2>12. CASE WholeCellKey(k)
    BY <2>1, <2>12, LayoutCells, AddsOnly DEF WholeCellKey, BaseKey
  <2>13. CASE SpeculativeKey(k)
    <3>1. PICK char \in TentativeChar : tentative' = Append(tentative, char)
      BY <2>1, <2>13, SpeculativeChar
    <3>2. \A i \in DOMAIN tentative : i \in DOMAIN tentative' /\ tentative'[i] = tentative[i]
      BY <3>1 DEF TypeOK
    <3>. QED  BY <3>2 DEF OwnRewrite, Survives
  <2>. QED  BY <2>3, <2>4, <2>5, <2>6, <2>7, <2>8, <2>9, <2>10, <2>11, <2>12, <2>13 DEF KeyDown
<1>. QED  BY <1>1, <1>2

(* process_key_up confirms chars and may type a tap output after them. *)
LEMMA KeyUpRewrites ==
  ASSUME TypeOK, NEW k \in Keys, KeyUp(k)
  PROVE  OwnRewrite
<1>. DEFINE tb == Confirmed(tentative, k)
<1>1. tb \in Seq(TentativeChar) /\ DOMAIN tb = DOMAIN tentative
  BY ConfirmedType DEF TypeOK
<1>2. \A i \in DOMAIN tentative :
        tb[i].kana = tentative[i].kana /\ tb[i].src = tentative[i].src
  <2>1. \A i \in DOMAIN tentative : tentative[i] \in TentativeChar
    BY SeqElement DEF TypeOK
  <2>. QED  BY <2>1 DEF Confirmed, TentativeChar
<1>3. \/ tentative' = tb
      \/ \E cell \in Seq(Token) : tentative' = Pushed(tb, cell, <<k>>)
  <2>1. CASE ModifierKeyUp(k) \/ TriggerUp(k) \/ RegularKeyUp(k)
    BY <2>1 DEF ModifierKeyUp, TriggerUp, RegularKeyUp
  <2>2. CASE ModifierTap(k)
    <3>1. PICK i \in ModifierIndex(k) :
            \/ tentative' = tb
            \/ k \in DOMAIN Layout.base /\ tentative' = Pushed(tb, Layout.base[k], <<k>>)
            \/ tentative' = Pushed(tb, Layout.modifiers[i].tapOutput, <<k>>)
      BY <2>2 DEF ModifierTap
    <3>2. k \in DOMAIN Layout.base => Layout.base[k] \in Seq(Token)
      BY LayoutCells
    <3>3. Layout.modifiers[i].tapOutput \in Seq(Token)
      BY ModifierIndexType, LayoutCells DEF ModifierDef
    <3>. QED  BY <3>1, <3>2, <3>3
  <2>. QED  BY <2>1, <2>2 DEF KeyUp
<1>4. ASSUME NEW i \in DOMAIN tentative
      PROVE  i \in DOMAIN tentative' /\ tentative'[i] = tb[i]
  BY <1>1, <1>3, PushedKeeps
<1>. QED  BY <1>2, <1>4 DEF OwnRewrite, Survives

(* tick sends tails and keeps every char. *)
LEMMA TickRewrites ==
  ASSUME TypeOK, Tick
  PROVE  OwnRewrite
<1>1. \A i \in DOMAIN tentative : tentative[i] \in TentativeChar
  BY SeqElement DEF TypeOK
<1>2. /\ DOMAIN tentative' = DOMAIN tentative
      /\ \A i \in DOMAIN tentative :
           \/ tentative'[i] = tentative[i]
           \/ tentative'[i] = [tentative[i] EXCEPT !.deadline = NoDeadline, !.tail = <<>>]
  BY DEF Tick
<1>3. \A i \in DOMAIN tentative : Survives(i)
  BY <1>1, <1>2 DEF Survives, TentativeChar
<1>. QED  BY <1>3 DEF OwnRewrite

-----------------------------------------------------------------------------
(* Whatever the layout and the order of events, a step that types kana     *)
(* keeps every char that somebody else produced or a release has locked.   *)
THEOREM RewritesOwnKana == Spec => RewriteOnlyOwn
<1>1. TypeOK /\ [Next]_vars => [OwnRewrite]_vars
  <2>1. SUFFICES ASSUME TypeOK, Next  PROVE OwnRewrite
    OBVIOUS
  <2>2. ASSUME NEW k \in Keys, NEW shift \in BOOLEAN, KeyDown(k, shift)
        PROVE  OwnRewrite
    BY <2>1, <2>2, KeyDownRewrites
  <2>3. ASSUME NEW k \in Keys, KeyUp(k)  PROVE OwnRewrite
    BY <2>1, <2>3, KeyUpRewrites
  <2>4. CASE Tick
    BY <2>1, <2>4, TickRewrites
  <2>5. CASE Reset
    BY <2>5, BackspacesSilent, NothingRewritten DEF Reset
  <2>6. CASE NotifyConversion \/ NotifyComposition \/ Advance
    <3>1. ~Types(<<>>)
      BY DEF Types
    <3>. QED  BY <2>6, <3>1, NothingRewritten DEF NotifyConversion, NotifyComposition, Advance
  <2>. QED  BY <2>1, <2>2, <2>3, <2>4, <2>5, <2>6 DEF Next
<1>. QED  BY <1>1, TypeCorrect, PTL DEF Spec, RewriteOnlyOwn, OwnRewrite

-----------------------------------------------------------------------------
(* Kanji input.                                                            *)

(* The tap actions of the layouts in layouts/: none of them types kana.    *)
TapsTypeNothing ==
  \A i \in DOMAIN Layout.modifiers : Layout.modifiers[i].tapAction \in {"Passthrough", "None"}

(* An empty buffer stays empty, however it is mapped. *)
LEMMA EmptyBuffer == \A k : Confirmed(<<>>, k) = <<>>
BY DEF Confirmed

(* While a direct trigger is active nothing is speculative, if no modifier *)
(* types something when it is tapped: such a kana would stay in the buffer *)
(* until the next kanji takes it back.                                     *)
THEOREM KanjiInputIsSilent ==
  ASSUME TapsTypeNothing
  PROVE  Spec => []DirectSilent
<1>1. Init => DirectSilent
  BY DEF Init, DirectSilent
<1>2. DirectSilent /\ [Next]_vars => DirectSilent'
  <2>1. SUFFICES ASSUME DirectSilent, [Next]_vars, trigger' = "Active"
                 PROVE  tentative' = <<>>
    BY DEF DirectSilent
  <2>2. ASSUME NEW k \in Keys, NEW shift \in BOOLEAN, KeyDown(k, shift)
        PROVE  tentative' = <<>>
    <3>1. CASE HeldKeyDown(k) \/ ModifierKeyDown(k) \/ TriggerOn(k) \/ TriggerOff(k)
      BY <2>1, <3>1 DEF HeldKeyDown, ModifierKeyDown, TriggerOn, TriggerOff, buffers,
                        trig, DirectSilent
    <3>2. CASE BackspaceDown(k)
      BY <2>1, <3>2 DEF BackspaceDown, trig, DirectSilent
    <3>3. CASE DirectKey(k)
      BY <2>1, <3>3 DEF DirectKey, TentativeAt, DirectSilent
    <3>4. ASSUME ~DirectActive, UNCHANGED trig  PROVE FALSE
      BY <2>1, <3>4 DEF DirectActive, trig
    <3>5. CASE LayerKey(k) \/ ChordKey(k)
      BY <3>4, <3>5 DEF LayerKey, ChordKey
    <3>6. CASE \/ RuleKey(k) \/ WaitingKey(k) \/ UnassignedKey(k, shift)
               \/ PassthroughKey(k) \/ WholeCellKey(k) \/ SpeculativeKey(k)
      <4>1. Speculative(k)
        BY <3>6 DEF RuleKey, WaitingKey, UnassignedKey, PassthroughKey, WholeCellKey,
                    SpeculativeKey, BaseKey, Unresolved
      <4>. QED  BY <3>4, <4>1 DEF Speculative
    <3>. QED  BY <2>2, <3>1, <3>2, <3>3, <3>5, <3>6 DEF KeyDown
  <2>3. ASSUME NEW k \in Keys, KeyUp(k)
        PROVE  tentative' = <<>>
    <3>1. tentative' = Confirmed(tentative, k)
      <4>1. CASE ModifierTap(k)
        <5>1. PICK i \in ModifierIndex(k) :
                Layout.modifiers[i].tapAction \in {"Passthrough", "None"}
                  => tentative' = Confirmed(tentative, k)
          BY <4>1 DEF ModifierTap
        <5>. QED  BY <5>1, ModifierIndexType DEF TapsTypeNothing
      <4>. QED  BY <2>3, <4>1 DEF KeyUp, ModifierKeyUp, TriggerUp, RegularKeyUp
    <3>2. trigger = "Active"
      BY <2>1, <2>3 DEF KeyUp, ModifierKeyUp, ModifierTap, TriggerUp, RegularKeyUp, trig
    <3>. QED  BY <2>1, <3>1, <3>2, EmptyBuffer DEF DirectSilent
  <2>4. CASE Tick
    <3>1. tentative = <<>>
      BY <2>1, <2>4 DEF Tick, trig, DirectSilent
    <3>2. /\ DOMAIN tentative' = {}
          /\ tentative' = [i \in DOMAIN tentative' |-> tentative'[i]]
      BY <2>4, <3>1 DEF Tick
    <3>. QED  BY <3>2
  <2>5. CASE Reset \/ NotifyConversion
    BY <2>1, <2>5 DEF Reset, NotifyConversion, trig, DirectSilent
  <2>6. CASE NotifyComposition \/ Advance \/ UNCHANGED vars
    BY <2>1, <2>6 DEF NotifyComposition, Advance, buffers, trig, vars, DirectSilent
  <2>. QED  BY <2>1, <2>2, <2>3, <2>4, <2>5, <2>6 DEF Next
<1>. QED  BY <1>1, <1>2, PTL DEF Spec
-----------------------------------------------------------------------------
(* A rule that fires takes back all it may.                                *)

(* A key whose release is still to come. *)
Owner(x, h) == x \in h \/ x \in MOZC_CONTROL_KEYS \/ IsModifier(x)

(* What the proof needs of a buffer: every unconfirmed char has a source   *)
(* key that is held (or not tracked in held_keys), a control key is in no  *)
(* rule of its own, and no unconfirmed char is covered by the next one.    *)
Grounded(tb, h) == \A i \in DOMAIN tb :
                     ~tb[i].confirmed => \E x \in ToSet(tb[i].src) : Owner(x, h)
Single(src)     == \A k \in MOZC_CONTROL_KEYS : ToSet(src) = {k} => src = <<k>>
Singles(tb)     == \A i \in DOMAIN tb : Single(tb[i].src)
NotCovered(char, src) ==
  \/ char.confirmed
  \/ char.src = src
  \/ ~(ToSet(char.src) \subseteq ToSet(src))
Unmixed(tb) == \A i \in DOMAIN tb :
                 i + 1 \in DOMAIN tb /\ ~tb[i + 1].confirmed => NotCovered(tb[i], tb[i + 1].src)
Complete(tb, h) == Grounded(tb, h) /\ Singles(tb) /\ Unmixed(tb)

(* new is tb with more chars, all of the source keys src. *)
Extension(new, tb, src) ==
  /\ Len(new) >= Len(tb)
  /\ \A i \in DOMAIN tb : new[i] = tb[i]
  /\ \A i \in DOMAIN new : i > Len(tb) => new[i].src = src

(* What emit_sequence makes of a buffer. *)
LEMMA PushedExtends ==
  ASSUME NEW tb \in Seq(TentativeChar), NEW cell \in Seq(Token), NEW src
  PROVE  Extension(Pushed(tb, cell, src), tb, src)
<1>. DEFINE kana == Retained(cell, {i \in DOMAIN cell : cell[i].kind = "kana"})
            more == [i \in DOMAIN kana |-> NewChar(kana[i].text, src, NoDeadline, <<>>)]
<1>1. kana \in Seq(Token) /\ DOMAIN kana = 1..Len(kana)
  BY RetainedSeq
<1>2. Pushed(tb, cell, src) = tb \o more
  BY DEF Pushed
<1>. HIDE DEF kana
<1>3. more \in Seq({more[i] : i \in DOMAIN more}) /\ DOMAIN more = 1..Len(more)
  BY <1>1
<1>4. \A i \in DOMAIN more : more[i].src = src
  BY DEF NewChar
<1>. HIDE DEF more
<1>5. /\ Len(tb \o more) = Len(tb) + Len(more)
      /\ \A i \in DOMAIN tb : (tb \o more)[i] = tb[i]
      /\ DOMAIN (tb \o more) = 1..(Len(tb) + Len(more))
      /\ \A i \in 1..(Len(tb) + Len(more)) : i > Len(tb) => (tb \o more)[i] = more[i - Len(tb)]
  BY <1>3
<1>6. Len(tb) \in Nat /\ Len(more) \in Nat
  BY <1>3
<1>7. ASSUME NEW i \in 1..(Len(tb) + Len(more)), i > Len(tb)
      PROVE  (tb \o more)[i].src = src
  <2>1. i - Len(tb) \in DOMAIN more
    BY <1>3, <1>6, <1>7
  <2>. QED  BY <1>4, <1>5, <1>7, <2>1
<1>8. Len(tb) + Len(more) >= Len(tb)
  BY <1>6
<1>. QED  BY <1>2, <1>5, <1>7, <1>8 DEF Extension

(* A prefix of such a buffer is one, and so is any with more keys held. *)
LEMMA CompletePrefix ==
  ASSUME NEW tb \in Seq(TentativeChar), NEW h, NEW n \in 0..Len(tb), Complete(tb, h)
  PROVE  Complete(SubSeq(tb, 1, n), h)
<1>1. /\ DOMAIN SubSeq(tb, 1, n) = 1..n /\ DOMAIN tb = 1..Len(tb) /\ Len(tb) \in Nat
      /\ \A i \in 1..n : i \in 1..Len(tb) /\ SubSeq(tb, 1, n)[i] = tb[i]
  OBVIOUS
<1>. QED  BY <1>1 DEF Complete, Grounded, Singles, Unmixed

(* A char stays owned when more keys are held. *)
LEMMA CompleteHeld ==
  ASSUME NEW tb, NEW h, NEW h2, h \subseteq h2, Complete(tb, h)
  PROVE  Complete(tb, h2)
BY DEF Complete, Grounded, Owner

(* More chars of one source, which neither is nor covers its neighbour. *)
LEMMA CompleteExtended ==
  ASSUME NEW tb \in Seq(TentativeChar), NEW new \in Seq(TentativeChar), NEW src \in Seq(Keys),
         NEW h, Complete(tb, h), Extension(new, tb, src),
         \E x \in ToSet(src) : Owner(x, h), Single(src),
         tb # <<>> => NotCovered(tb[Len(tb)], src)
  PROVE  Complete(new, h)
<1>1. /\ DOMAIN tb = 1..Len(tb) /\ DOMAIN new = 1..Len(new)
      /\ Len(tb) \in Nat /\ Len(new) \in Nat
  OBVIOUS
<1>2. \A i \in DOMAIN new : i \in DOMAIN tb \/ i > Len(tb)
  BY <1>1
<1>3. Grounded(new, h)
  BY <1>2 DEF Grounded, Complete, Extension
<1>4. Singles(new)
  BY <1>2 DEF Singles, Complete, Extension
<1>5. Unmixed(new)
  <2>1. SUFFICES ASSUME NEW i \in DOMAIN new, i + 1 \in DOMAIN new, ~new[i + 1].confirmed
                 PROVE  NotCovered(new[i], new[i + 1].src)
    BY DEF Unmixed
  <2>2. CASE i + 1 <= Len(tb)
    <3>1. i \in DOMAIN tb /\ i + 1 \in DOMAIN tb
      BY <1>1, <2>1, <2>2
    <3>. QED  BY <2>1, <3>1 DEF Unmixed, Complete, Extension
  <2>3. CASE i + 1 > Len(tb)
    <3>1. new[i + 1].src = src
      BY <2>1, <2>3 DEF Extension
    <3>2. CASE i = Len(tb)
      <4>1. tb # <<>> /\ i \in DOMAIN tb
        BY <1>1, <2>1, <3>2
      <4>. QED  BY <3>1, <3>2, <4>1 DEF Extension
    <3>3. CASE i # Len(tb)
      <4>1. i > Len(tb)
        BY <1>1, <2>1, <2>3, <3>3
      <4>. QED  BY <2>1, <3>1, <4>1 DEF Extension, NotCovered
    <3>. QED  BY <3>2, <3>3
  <2>. QED  BY <1>1, <2>1, <2>2, <2>3
<1>. QED  BY <1>3, <1>4, <1>5 DEF Complete

(* A release confirms what its key produced. *)
LEMMA CompleteConfirmed ==
  ASSUME NEW tb \in Seq(TentativeChar), NEW h, NEW k, Complete(tb, h)
  PROVE  /\ Complete(Confirmed(tb, k), h \ {k})
         /\ \A i \in DOMAIN Confirmed(tb, k) :
              ~Confirmed(tb, k)[i].confirmed => k \notin ToSet(Confirmed(tb, k)[i].src)
<1>. DEFINE c == Confirmed(tb, k)
<1>1. DOMAIN c = DOMAIN tb
  BY ConfirmedType
<1>2. \A i \in DOMAIN tb : tb[i] \in TentativeChar
  BY SeqElement
<1>3. \A i \in DOMAIN tb : c[i].src = tb[i].src
                          /\ (c[i].confirmed <=> tb[i].confirmed \/ k \in ToSet(tb[i].src))
  BY <1>2 DEF Confirmed, TentativeChar
<1>. HIDE DEF c
<1>4. Grounded(c, h \ {k})
  BY <1>1, <1>3 DEF Grounded, Complete, Owner
<1>5. Singles(c)
  BY <1>1, <1>3 DEF Singles, Complete
<1>6. Unmixed(c)
  BY <1>1, <1>3 DEF Unmixed, NotCovered, Complete
<1>7. \A i \in DOMAIN c : ~c[i].confirmed => k \notin ToSet(c[i].src)
  BY <1>1, <1>3
<1>. QED  BY <1>4, <1>5, <1>6, <1>7 DEF c, Complete

(* No rule takes a control key twice (space, then space): held_keys does   *)
(* not track those, so the key's second press would not be told from the   *)
(* first.  No layout in layouts/ has such a rule.                          *)
NoDoubles ==
  \A k \in MOZC_CONTROL_KEYS :
    /\ k \in DOMAIN Layout.prefix => k \notin DOMAIN Layout.prefix[k]
    /\ k \in DOMAIN Layout.postfix => k \notin DOMAIN Layout.postfix[k]
    /\ \A c \in TimedChords : ChordKeys(c) # {k}

(* prune_expired_pending keeps the key pressed now. *)
LEMMA NewestIsPending ==
  ASSUME TypeOK, NEW k \in Keys
  PROVE  \E j \in DOMAIN SpecPending(k) : SpecPending(k)[j].key = k
<1>. DEFINE new == [key |-> k, ts |-> now]
            p   == Append(PendingAt(k), new)
            I   == {i \in DOMAIN p : now - p[i].ts <= ChordWindowFor(p[i].key)}
<1>1. p \in Seq(PendingKey) /\ PendingAt(k) \in Seq(PendingKey)
  BY RegularTypes
<1>2. Len(p) \in DOMAIN p /\ p[Len(p)] = new
  BY <1>1
<1>3. new.key = k /\ new.ts = now
  OBVIOUS
<1>. HIDE DEF new, p
<1>4. CASE Pruned(p) = p
  BY <1>2, <1>3, <1>4 DEF SpecPending, p, new
<1>5. CASE Pruned(p) = Retained(p, I)
  <2>1. now - now <= ChordWindowFor(k)
    <3>1. now \in Nat /\ ChordWindowFor(k) \in Nat
      BY ChordWindowType DEF TypeOK
    <3>. QED  BY <3>1
  <2>2. I \in SUBSET DOMAIN p /\ Len(p) \in I
    BY <1>2, <1>3, <2>1
  <2>. HIDE DEF I
  <2>3. \E a \in DOMAIN Retained(p, I) : Retained(p, I)[a] = p[Len(p)]
    BY <1>1, <2>2, RetainedKeeps
  <2>. QED  BY <1>2, <1>3, <1>5, <2>3 DEF SpecPending, p, new
<1>. QED  BY <1>4, <1>5 DEF Pruned

(* The source keys of a rule contain the key that completes it, and none   *)
(* of them is a control key alone.                                         *)
LEMMA RuleSources ==
  ASSUME TypeOK, NoDoubles, NEW k \in Keys,
         NEW rule \in ResolvedRule(SpecPending(k), TentativeAt(k), k)
  PROVE  k \in ToSet(rule.src) /\ Single(rule.src)
<1>. DEFINE p  == SpecPending(k)
            tb == TentativeAt(k)
            names == PendingNames(p)
<1>1. /\ p \in Seq(PendingKey) /\ tb \in Seq(TentativeChar)
      /\ names \in Seq(Keys) /\ DOMAIN names = DOMAIN p
      /\ \A j \in DOMAIN p : names[j] = p[j].key
  BY RegularTypes, PendingNamesSeq DEF PendingNames
<1>2. k \in ToSet(names)
  <2>1. PICK j \in DOMAIN p : p[j].key = k
    BY NewestIsPending
  <2>. QED  BY <1>1, <2>1 DEF ToSet
<1>. HIDE DEF p, tb, names
<1>3. CASE rule \in PrefixRule(p)
  <2>1. /\ rule.src = names /\ Len(p) = 2
        /\ p[1].key \in DOMAIN Layout.prefix
        /\ p[2].key \in DOMAIN Layout.prefix[p[1].key]
    BY <1>3 DEF PrefixRule, names
  <2>2. 1 \in DOMAIN p /\ 2 \in DOMAIN p
    BY <1>1, <2>1
  <2>3. ASSUME NEW c \in MOZC_CONTROL_KEYS, ToSet(names) = {c}  PROVE FALSE
    <3>1. names[1] = c /\ names[2] = c
      BY <1>1, <2>2, <2>3 DEF ToSet
    <3>2. p[1].key = c /\ p[2].key = c
      BY <1>1, <2>2, <3>1
    <3>. QED  BY <2>1, <3>2 DEF NoDoubles
  <2>. QED  BY <1>2, <2>1, <2>3 DEF Single
<1>4. CASE rule \in TimedChordRule(p)
  <2>1. PICK c \in TimedChords : rule.src = names /\ ChordKeys(c) = ToSet(names)
    BY <1>4 DEF TimedChordRule, FirstOf, names
  <2>. QED  BY <1>2, <2>1 DEF Single, NoDoubles
<1>5. CASE rule \in PostfixRule(tb, k)
  <2>. DEFINE first == tb[Len(tb)].src
  <2>1. /\ rule.src = Append(first, k) /\ tb # <<>>
        /\ k \in DOMAIN Layout.postfix /\ first # <<>>
        /\ first[1] \in DOMAIN Layout.postfix[k]
    BY <1>5 DEF PostfixRule
  <2>2. tb[Len(tb)] \in TentativeChar
    BY <1>1, <2>1
  <2>3. first \in Seq(Keys)
    BY <2>2 DEF TentativeChar
  <2>. HIDE DEF first
  <2>4. k \in ToSet(Append(first, k)) /\ first[1] \in ToSet(Append(first, k))
    <3>1. /\ DOMAIN Append(first, k) = 1..(Len(first) + 1) /\ Len(first) \in Nat
          /\ Append(first, k)[Len(first) + 1] = k /\ Len(first) # 0
          /\ Append(first, k)[1] = first[1]
      BY <2>1, <2>3
    <3>2. Len(first) + 1 \in DOMAIN Append(first, k) /\ 1 \in DOMAIN Append(first, k)
      BY <3>1
    <3>. QED  BY <3>1, <3>2 DEF ToSet
  <2>5. ASSUME NEW c \in MOZC_CONTROL_KEYS, ToSet(Append(first, k)) = {c}  PROVE FALSE
    <3>1. k = c /\ first[1] = c
      BY <2>4, <2>5
    <3>. QED  BY <2>1, <3>1 DEF NoDoubles
  <2>. QED  BY <2>1, <2>4, <2>5 DEF Single
<1>. QED  BY <1>3, <1>4, <1>5 DEF ResolvedRule, p, tb

(* The source <<k>> of a key's own cell. *)
LEMMA OwnSource ==
  ASSUME NEW k \in Keys
  PROVE  <<k>> \in Seq(Keys) /\ ToSet(<<k>>) = {k} /\ Single(<<k>>)
<1>1. ToSet(<<k>>) = {k}
  BY DEF ToSet
<1>. QED  BY <1>1 DEF Single

(* A key that is not held covers no unconfirmed char but its own. *)
LEMMA OwnCellFollows ==
  ASSUME NEW k \in Keys, NEW h, NEW tb \in Seq(TentativeChar), Complete(tb, h),
         k \notin h, ~IsModifier(k), tb # <<>>
  PROVE  NotCovered(tb[Len(tb)], <<k>>)
<1>1. Len(tb) \in DOMAIN tb
  OBVIOUS
<1>2. SUFFICES ASSUME ~tb[Len(tb)].confirmed, ToSet(tb[Len(tb)].src) \subseteq {k}
               PROVE  tb[Len(tb)].src = <<k>>
  BY OwnSource DEF NotCovered
<1>3. PICK x \in ToSet(tb[Len(tb)].src) : Owner(x, h)
  BY <1>1, <1>2 DEF Complete, Grounded
<1>4. x = k /\ ToSet(tb[Len(tb)].src) = {k} /\ k \in MOZC_CONTROL_KEYS
  BY <1>2, <1>3 DEF Owner
<1>. QED  BY <1>1, <1>4 DEF Complete, Singles, Single

(* Nor does a rule cover the last char it may not touch. *)
LEMMA RuleFollows ==
  ASSUME NEW src \in Seq(Keys), NEW tb \in Seq(TentativeChar)
  PROVE  LET rest == SubSeq(tb, 1, Unaffected(tb, ToSet(src)))
         IN  rest # <<>> => NotCovered(rest[Len(rest)], src)
<1>. DEFINE n == Unaffected(tb, ToSet(src))
            rest == SubSeq(tb, 1, n)
<1>1. n \in 0..Len(tb)
  BY UnaffectedRange
<1>2. n # 0 => n \in Locked(tb, ToSet(src))
  <2>1. Len(tb) \in Nat /\ Locked(tb, ToSet(src)) \in SUBSET (1..Len(tb))
    BY DEF Locked
  <2>2. n \in {0} \cup Locked(tb, ToSet(src))
    BY <2>1, MaxOfIndices DEF Unaffected
  <2>. QED  BY <2>2
<1>. HIDE DEF n
<1>3. ASSUME rest # <<>>  PROVE NotCovered(rest[Len(rest)], src)
  <2>1. n # 0 /\ Len(rest) = n /\ rest[n] = tb[n]
    BY <1>1, <1>3
  <2>. QED  BY <1>2, <2>1 DEF Locked, NotCovered
<1>. QED  BY <1>3 DEF n

-----------------------------------------------------------------------------
(* Each call keeps the buffer complete.                                    *)

(* An empty buffer is complete. *)
LEMMA CompleteEmpty == \A h : Complete(<<>>, h)
BY DEF Complete, Grounded, Singles, Unmixed

(* So is the buffer a regular key finds. *)
LEMMA CompleteAt ==
  ASSUME NEW k, NEW h, Complete(tentative, h)
  PROVE  Complete(TentativeAt(k), h)
BY CompleteEmpty DEF TentativeAt

(* What a key adds to the buffer it finds, of its own source. *)
LEMMA OwnCellComplete ==
  ASSUME TypeOK, NEW k \in Keys, Complete(tentative, held), EnterRegular(k),
         tentative' \in Seq(TentativeChar), Extension(tentative', TentativeAt(k), <<k>>)
  PROVE  Complete(tentative', held')
<1>. DEFINE tb == TentativeAt(k)
<1>1. tb \in Seq(TentativeChar) /\ Complete(tb, held)
  BY RegularTypes, CompleteAt
<1>2. k \notin held /\ ~IsModifier(k) /\ held \subseteq held'
      /\ (k \in held' \/ k \in MOZC_CONTROL_KEYS)
  BY DEF EnterRegular, Regular, HeldAt
<1>3. Complete(tb, held')
  BY <1>1, <1>2, CompleteHeld
<1>4. tb # <<>> => NotCovered(tb[Len(tb)], <<k>>)
  BY <1>1, <1>2, OwnCellFollows
<1>5. \E x \in ToSet(<<k>>) : Owner(x, held')
  BY <1>2, OwnSource DEF Owner
<1>. HIDE DEF tb
<1>. QED  BY <1>1, <1>3, <1>4, <1>5, OwnSource, CompleteExtended DEF tb

(* What a rule leaves and adds. *)
LEMMA RuleComplete ==
  ASSUME TypeOK, NEW k \in Keys, Complete(tentative, held), EnterRegular(k),
         NEW cell \in Seq(Token), NEW src \in Seq(Keys), k \in ToSet(src), Single(src),
         LET tb == TentativeAt(k)
             n  == Unaffected(tb, ToSet(src))
         IN  tentative' = Pushed(SubSeq(tb, 1, n), cell, src)
  PROVE  Complete(tentative', held')
<1>. DEFINE tb   == TentativeAt(k)
            n    == Unaffected(tb, ToSet(src))
            rest == SubSeq(tb, 1, n)
<1>1. tb \in Seq(TentativeChar) /\ Complete(tb, held)
  BY RegularTypes, CompleteAt
<1>2. held \subseteq held' /\ (k \in held' \/ k \in MOZC_CONTROL_KEYS)
  BY DEF EnterRegular, Regular, HeldAt
<1>3. Complete(tb, held')
  BY <1>1, <1>2, CompleteHeld
<1>4. rest # <<>> => NotCovered(rest[Len(rest)], src)
  BY <1>1, RuleFollows
<1>5. n \in 0..Len(tb)
  BY <1>1, UnaffectedRange
<1>6. rest \in Seq(TentativeChar)
  BY <1>1, <1>5, PrefixSeq
<1>7. tentative' = Pushed(rest, cell, src)
  OBVIOUS
<1>. HIDE DEF tb, n
<1>8. Complete(rest, held')
  BY <1>1, <1>3, <1>5, CompletePrefix
<1>9. \E x \in ToSet(src) : Owner(x, held')
  BY <1>2 DEF Owner
<1>. HIDE DEF rest
<1>10. Pushed(rest, cell, src) \in Seq(TentativeChar)
  BY <1>6, PushedSeq
<1>11. Extension(Pushed(rest, cell, src), rest, src)
  BY <1>6, PushedExtends
<1>. QED  BY <1>4, <1>6, <1>7, <1>8, <1>9, <1>10, <1>11, CompleteExtended

(* process_key_down. *)
LEMMA KeyDownComplete ==
  ASSUME TypeOK, NoDoubles, Complete(tentative, held), NEW k \in Keys,
         NEW shift \in BOOLEAN, KeyDown(k, shift)
  PROVE  Complete(tentative', held')
<1>. DEFINE tb == TentativeAt(k)
<1>1. Complete(<<>>, held')
  BY DEF Complete, Grounded, Singles, Unmixed
<1>2. tb \in Seq(TentativeChar) /\ tentative \in Seq(TentativeChar)
  BY RegularTypes DEF TypeOK
<1>4. CASE HeldKeyDown(k) \/ ModifierKeyDown(k) \/ TriggerOff(k)
  BY <1>4 DEF HeldKeyDown, ModifierKeyDown, TriggerOff, buffers
<1>5. CASE TriggerOn(k)
  BY <1>1, <1>5 DEF TriggerOn
<1>6. CASE BackspaceDown(k)
  <2>1. held' = held
    BY <1>6 DEF BackspaceDown
  <2>2. CASE tentative = <<>>
    BY <1>6, <2>1, <2>2 DEF BackspaceDown
  <2>3. CASE tentative # <<>>
    <3>1. Len(tentative) - 1 \in 0..Len(tentative)
      BY <1>2, <2>3
    <3>2. tentative' = SubSeq(tentative, 1, Len(tentative) - 1)
      BY <1>6, <2>3 DEF BackspaceDown
    <3>. QED  BY <1>2, <2>1, <3>1, <3>2, CompletePrefix
  <2>. QED  BY <2>2, <2>3
<1>7. ASSUME EnterRegular(k), tentative' = tb
      PROVE  Complete(tentative', held')
  <2>1. Extension(tb, tb, <<k>>)
    <3>1. DOMAIN tb = 1..Len(tb) /\ Len(tb) \in Nat
      BY <1>2
    <3>. QED  BY <3>1 DEF Extension
  <2>. QED  BY <1>2, <1>7, <2>1, OwnCellComplete
<1>8. ASSUME EnterRegular(k), NEW cell \in Seq(Token), tentative' = Pushed(tb, cell, <<k>>)
      PROVE  Complete(tentative', held')
  <2>1. Pushed(tb, cell, <<k>>) \in Seq(TentativeChar)
    BY <1>2, OwnSource, PushedSeq
  <2>2. Extension(Pushed(tb, cell, <<k>>), tb, <<k>>)
    BY <1>2, PushedExtends
  <2>. QED  BY <1>8, <2>1, <2>2, OwnCellComplete
<1>9. CASE DirectKey(k)
  <2>1. EnterRegular(k) /\ tentative' \in {<<>>, tb}
    BY <1>9 DEF DirectKey
  <2>. QED  BY <1>1, <1>7, <2>1
<1>10. CASE LayerKey(k)
  <2>1. PICK i \in ModifiedLayer(k) :
          tentative' \in {tb, Pushed(tb, Layout.modified[i][k], <<k>>)}
    BY <1>10 DEF LayerKey
  <2>2. i \in DOMAIN Layout.modified /\ k \in DOMAIN Layout.modified[i]
    BY <2>1, LayoutAssumption DEF ModifiedLayer, FirstOf, TypeOK
  <2>3. Layout.modified[i][k] \in Seq(Token) /\ EnterRegular(k)
    BY <1>10, <2>2, LayoutCells DEF LayerKey
  <2>. QED  BY <1>7, <1>8, <2>1, <2>3
<1>11. CASE ChordKey(k)
  <2>1. PICK c \in MutualChordMatch(k, HeldAt(k)) :
          tentative' = Pushed(SubSeq(tb, 1, Unaffected(tb, ChordKeys(c))),
                              Layout.chords[c].output, Layout.chords[c].keys)
    BY <1>11 DEF ChordKey
  <2>2. c \in DOMAIN Layout.chords /\ k \in ChordKeys(c) /\ ChordKeys(c) \subseteq HeldAt(k)
    BY <2>1 DEF MutualChordMatch, MutualChords
  <2>3. EnterRegular(k) /\ k \notin held
    BY <1>11 DEF ChordKey, EnterRegular, Regular
  <2>4. Single(Layout.chords[c].keys)
    <3>1. ASSUME NEW x \in MOZC_CONTROL_KEYS, ChordKeys(c) = {x}  PROVE FALSE
      BY <2>2, <2>3, <3>1 DEF HeldAt
    <3>. QED  BY <3>1 DEF Single, ChordKeys
  <2>. QED  BY <2>1, <2>2, <2>3, <2>4, LayoutCells, RuleComplete DEF ChordKeys
<1>12. CASE RuleKey(k)
  <2>1. PICK rule \in ResolvedRule(SpecPending(k), tb, k) :
          tentative' = Pushed(SubSeq(tb, 1, Unaffected(tb, ToSet(rule.src))),
                              rule.output, rule.src)
    BY <1>12 DEF RuleKey
  <2>2. rule.output \in Seq(Token) /\ rule.src \in Seq(Keys)
    BY <1>2, RegularTypes, ResolvedRuleType
  <2>3. k \in ToSet(rule.src) /\ Single(rule.src)
    BY <2>1, RuleSources
  <2>4. EnterRegular(k)
    BY <1>12 DEF RuleKey, Speculative
  <2>. QED  BY <2>1, <2>2, <2>3, <2>4, RuleComplete
<1>13. CASE WaitingKey(k) \/ UnassignedKey(k, shift) \/ PassthroughKey(k)
  <2>1. EnterRegular(k) /\ tentative' \in {<<>>, tb}
    BY <1>13 DEF WaitingKey, UnassignedKey, PassthroughKey, Unresolved, Speculative
  <2>. QED  BY <1>1, <1>7, <2>1
<1>14. CASE WholeCellKey(k)
  <2>1. /\ EnterRegular(k) /\ Layout.base[k] \in Seq(Token)
        /\ tentative' = Pushed(tb, Layout.base[k], <<k>>)
    BY <1>14, LayoutCells DEF WholeCellKey, BaseKey, Unresolved, Speculative
  <2>. QED  BY <1>8, <2>1
<1>15. CASE SpeculativeKey(k)
  <2>1. EnterRegular(k)
    BY <1>15 DEF SpeculativeKey, BaseKey, Unresolved, Speculative
  <2>2. PICK char \in TentativeChar : tentative' = Append(tb, char)
    BY <1>15, SpeculativeChar
  <2>3. Last(tentative').src = <<k>>
    <3>1. \E kana, d, tail : tentative' = Append(tb, NewChar(kana, <<k>>, d, tail))
      BY <1>15 DEF SpeculativeKey
    <3>2. PICK kana, d, tail : tentative' = Append(tb, NewChar(kana, <<k>>, d, tail))
      BY <3>1
    <3>3. NewChar(kana, <<k>>, d, tail).src = <<k>>
      BY DEF NewChar
    <3>4. \A x : Last(Append(tb, x)) = x
      BY <1>2 DEF Last
    <3>. QED  BY <3>2, <3>3, <3>4
  <2>4. char.src = <<k>>
    <3>1. Last(Append(tb, char)) = char
      BY <1>2 DEF Last
    <3>. QED  BY <2>2, <2>3, <3>1
  <2>5. Extension(Append(tb, char), tb, <<k>>) /\ Append(tb, char) \in Seq(TentativeChar)
    BY <1>2, <2>4 DEF Extension
  <2>. QED  BY <2>1, <2>2, <2>5, OwnCellComplete
<1>. QED  BY <1>4, <1>5, <1>6, <1>9, <1>10, <1>11, <1>12, <1>13, <1>14, <1>15 DEF KeyDown

(* process_key_up: what a tap types is its modifier's, and everything else *)
(* the modifier produced is confirmed.                                     *)
LEMMA KeyUpComplete ==
  ASSUME TypeOK, Complete(tentative, held), NEW k \in Keys, KeyUp(k)
  PROVE  Complete(tentative', held')
<1>. DEFINE tb == Confirmed(tentative, k)
<1>1. /\ tentative \in Seq(TentativeChar) /\ tb \in Seq(TentativeChar)
      /\ Complete(tb, held \ {k})
      /\ \A i \in DOMAIN tb : ~tb[i].confirmed => k \notin ToSet(tb[i].src)
  BY ConfirmedType, CompleteConfirmed DEF TypeOK
<1>2. held' = held \ {k}
  BY DEF KeyUp, ModifierKeyUp, ModifierTap, TriggerUp, RegularKeyUp, LeaveHeld
<1>3. CASE tentative' = tb
  BY <1>1, <1>2, <1>3
<1>4. ASSUME NEW cell \in Seq(Token), tentative' = Pushed(tb, cell, <<k>>), IsModifier(k)
      PROVE  Complete(tentative', held')
  <2>1. Pushed(tb, cell, <<k>>) \in Seq(TentativeChar) /\ Extension(Pushed(tb, cell, <<k>>), tb, <<k>>)
    BY <1>1, OwnSource, PushedSeq, PushedExtends
  <2>2. \E x \in ToSet(<<k>>) : Owner(x, held')
    BY <1>4, OwnSource DEF Owner
  <2>3. tb # <<>> => NotCovered(tb[Len(tb)], <<k>>)
    <3>1. SUFFICES ASSUME tb # <<>>, ~tb[Len(tb)].confirmed,
                          ToSet(tb[Len(tb)].src) \subseteq {k}
                   PROVE  FALSE
      BY OwnSource DEF NotCovered
    <3>. HIDE DEF tb
    <3>2. Len(tb) \in DOMAIN tb
      BY <1>1, <3>1
    <3>3. \E x \in ToSet(tb[Len(tb)].src) : Owner(x, held \ {k})
      BY <1>1, <3>1, <3>2 DEF Complete, Grounded
    <3>. QED  BY <1>1, <3>1, <3>2, <3>3
  <2>. HIDE DEF tb
  <2>. QED  BY <1>1, <1>2, <1>4, <2>1, <2>2, <2>3, OwnSource, CompleteExtended
<1>5. CASE ModifierTap(k)
  <2>1. PICK i \in ModifierIndex(k) :
          \/ tentative' = tb
          \/ k \in DOMAIN Layout.base /\ tentative' = Pushed(tb, Layout.base[k], <<k>>)
          \/ tentative' = Pushed(tb, Layout.modifiers[i].tapOutput, <<k>>)
    BY <1>5 DEF ModifierTap
  <2>2. k \in DOMAIN Layout.base => Layout.base[k] \in Seq(Token)
    BY LayoutCells
  <2>3. Layout.modifiers[i].tapOutput \in Seq(Token)
    BY ModifierIndexType, LayoutCells DEF ModifierDef
  <2>4. IsModifier(k)
    BY <2>1 DEF IsModifier
  <2>. QED  BY <1>3, <1>4, <2>1, <2>2, <2>3, <2>4
<1>6. CASE ModifierKeyUp(k) \/ TriggerUp(k) \/ RegularKeyUp(k)
  BY <1>3, <1>6 DEF ModifierKeyUp, TriggerUp, RegularKeyUp
<1>. QED  BY <1>5, <1>6 DEF KeyUp

(* tick keeps every char's source. *)
LEMMA TickComplete ==
  ASSUME TypeOK, Complete(tentative, held), Tick
  PROVE  Complete(tentative', held')
<1>1. \A i \in DOMAIN tentative : tentative[i] \in TentativeChar
  BY SeqElement DEF TypeOK
<1>2. /\ DOMAIN tentative' = DOMAIN tentative
      /\ \A i \in DOMAIN tentative :
           \/ tentative'[i] = tentative[i]
           \/ tentative'[i] = [tentative[i] EXCEPT !.deadline = NoDeadline, !.tail = <<>>]
      /\ held' = held
  BY DEF Tick
<1>3. \A i \in DOMAIN tentative : /\ tentative'[i].src = tentative[i].src
                                 /\ tentative'[i].confirmed = tentative[i].confirmed
  BY <1>1, <1>2 DEF TentativeChar
<1>. QED  BY <1>2, <1>3 DEF Complete, Grounded, Singles, Unmixed, NotCovered

(* Whatever the order of events, a rule that fires takes back everything   *)
(* its own keys produced right before it: for every layout without a rule  *)
(* that takes a control key twice.                                         *)
THEOREM RulesTakeAll ==
  ASSUME NoDoubles
  PROVE  Spec => []RewriteComplete
<1>1. ASSUME Init  PROVE Complete(tentative, held)
  BY <1>1, CompleteEmpty DEF Init
<1>2. ASSUME TypeOK, Complete(tentative, held), [Next]_vars
      PROVE  Complete(tentative, held)'
  <2>1. ASSUME NEW k \in Keys, NEW shift \in BOOLEAN, KeyDown(k, shift)
        PROVE  Complete(tentative', held')
    BY <1>2, <2>1, KeyDownComplete
  <2>2. ASSUME NEW k \in Keys, KeyUp(k)  PROVE Complete(tentative', held')
    BY <1>2, <2>2, KeyUpComplete
  <2>3. CASE Tick
    BY <1>2, <2>3, TickComplete
  <2>4. CASE Reset \/ NotifyConversion
    BY <1>2, <2>4, CompleteEmpty DEF Reset, NotifyConversion
  <2>5. CASE NotifyComposition \/ Advance \/ UNCHANGED vars
    BY <1>2, <2>5 DEF NotifyComposition, Advance, buffers, vars
  <2>. QED  BY <1>2, <2>1, <2>2, <2>3, <2>4, <2>5 DEF Next, Complete, Grounded, Owner,
                Singles, Unmixed
<1>3. TypeOK /\ Complete(tentative, held) => RewriteComplete
  <2>1. SUFFICES ASSUME TypeOK, Complete(tentative, held),
                        NEW i \in 1..(Len(tentative) - 1), Ready(i),
                        tentative[i].src # tentative[i + 1].src
                 PROVE  ~(ToSet(tentative[i].src) \subseteq ToSet(tentative[i + 1].src))
    BY DEF RewriteComplete
  <2>2. i \in DOMAIN tentative /\ i + 1 \in DOMAIN tentative
    BY <2>1 DEF TypeOK
  <2>. QED  BY <2>1, <2>2 DEF Complete, Unmixed, NotCovered, Ready
<1>. QED  BY <1>1, <1>2, <1>3, TypeCorrect, PTL DEF Spec

-----------------------------------------------------------------------------
(* A timed chord forms only with keys still within their windows.          *)

(* The members of a timed chord form no other rule: the key of a sequence  *)
(* rule is in none, and no mutual chord has the same keys.  Behind a       *)
(* prefix trigger pending keys are not pruned, and a sequence or a mutual  *)
(* chord over the same keys fires without a window.                        *)
ChordsUnambiguous ==
  \A c \in TimedChords :
    /\ \A k \in ChordKeys(c) : k \notin DOMAIN Layout.prefix /\ k \notin DOMAIN Layout.postfix
    /\ \A m \in MutualChords : ChordKeys(m) # ChordKeys(c)

(* A char that waits for a deadline was typed by one key. *)
Alone(tb) == \A i \in DOMAIN tb : tb[i].deadline # NoDeadline => Len(tb[i].src) = 1

(* No char waits in an empty buffer. *)
LEMMA AloneEmpty == Alone(<<>>)
BY DEF Alone

(* The chars a rule leaves still wait alone. *)
LEMMA AlonePrefix ==
  ASSUME NEW tb \in Seq(TentativeChar), NEW n \in 0..Len(tb), Alone(tb)
  PROVE  Alone(SubSeq(tb, 1, n))
<1>1. \A i \in DOMAIN SubSeq(tb, 1, n) : i \in DOMAIN tb /\ SubSeq(tb, 1, n)[i] = tb[i]
  BY PrefixSeq
<1>. QED  BY <1>1 DEF Alone

(* The chars of a cell do not wait. *)
LEMMA AlonePushed ==
  ASSUME NEW tb \in Seq(TentativeChar), NEW cell \in Seq(Token), NEW src \in Seq(Keys),
         Alone(tb)
  PROVE  Alone(Pushed(tb, cell, src))
<1>. DEFINE new == Pushed(tb, cell, src)
<1>1. \A i \in DOMAIN new :
        \/ i \in DOMAIN tb /\ new[i] = tb[i]
        \/ new[i].deadline = NoDeadline
  BY PushedSeq
<1>. HIDE DEF new
<1>2. Alone(new)
  BY <1>1 DEF Alone
<1>. QED  BY <1>2 DEF new

(* A release changes no deadline and no source. *)
LEMMA AloneConfirmed ==
  ASSUME NEW tb \in Seq(TentativeChar), NEW k, Alone(tb)
  PROVE  Alone(Confirmed(tb, k))
<1>1. \A i \in DOMAIN tb : tb[i] \in TentativeChar
  BY SeqElement
<1>2. DOMAIN Confirmed(tb, k) = DOMAIN tb
  BY DEF Confirmed
<1>3. \A i \in DOMAIN tb : /\ Confirmed(tb, k)[i].deadline = tb[i].deadline
                          /\ Confirmed(tb, k)[i].src = tb[i].src
  BY <1>1 DEF Confirmed, TentativeChar
<1>. QED  BY <1>2, <1>3 DEF Alone

(* The char of a speculative key waits alone. *)
LEMMA AloneSpeculative ==
  ASSUME TypeOK, NEW k \in Keys, SpeculativeKey(k), Alone(tentative)
  PROVE  Alone(tentative') /\ Last(tentative').src = <<k>>
<1>. DEFINE tb == TentativeAt(k)
<1>1. tb \in Seq(TentativeChar) /\ Alone(tb)
  BY RegularTypes, AloneEmpty DEF TentativeAt
<1>2. \E kana, d, tail : tentative' = Append(tb, NewChar(kana, <<k>>, d, tail))
  BY DEF SpeculativeKey
<1>3. PICK kana, d, tail : tentative' = Append(tb, NewChar(kana, <<k>>, d, tail))
  BY <1>2
<1>. DEFINE char == NewChar(kana, <<k>>, d, tail)
<1>4. char.src = <<k>> /\ Len(char.src) = 1
  BY DEF NewChar
<1>. HIDE DEF char, tb
<1>5. \A i \in DOMAIN Append(tb, char) :
        \/ i \in DOMAIN tb /\ Append(tb, char)[i] = tb[i]
        \/ Append(tb, char)[i] = char
  BY <1>1
<1>6. Last(Append(tb, char)) = char
  BY <1>1 DEF Last
<1>7. Alone(Append(tb, char))
  BY <1>1, <1>4, <1>5 DEF Alone
<1>. QED  BY <1>3, <1>4, <1>6, <1>7 DEF char

(* process_key_down. *)
LEMMA KeyDownAlone ==
  ASSUME TypeOK, Alone(tentative), NEW k \in Keys, NEW shift \in BOOLEAN,
         KeyDown(k, shift)
  PROVE  Alone(tentative')
<1>. DEFINE tb == TentativeAt(k)
<1>1. tb \in Seq(TentativeChar) /\ Alone(tb) /\ tentative \in Seq(TentativeChar)
  BY RegularTypes, AloneEmpty DEF TentativeAt, TypeOK
<1>2. <<k>> \in Seq(Keys)
  OBVIOUS
<1>3. ASSUME NEW src \in Seq(Keys), NEW cell \in Seq(Token),
             tentative' = Pushed(SubSeq(tb, 1, Unaffected(tb, ToSet(src))), cell, src)
      PROVE  Alone(tentative')
  <2>1. Unaffected(tb, ToSet(src)) \in 0..Len(tb)
    BY <1>1, UnaffectedRange
  <2>. DEFINE rest == SubSeq(tb, 1, Unaffected(tb, ToSet(src)))
  <2>2. rest \in Seq(TentativeChar) /\ Alone(rest)
    BY <1>1, <2>1, PrefixSeq, AlonePrefix
  <2>. HIDE DEF rest
  <2>3. Alone(Pushed(rest, cell, src))
    BY <2>2, AlonePushed
  <2>. QED  BY <1>3, <2>3 DEF rest
<1>4. CASE \/ HeldKeyDown(k) \/ ModifierKeyDown(k) \/ TriggerOn(k) \/ TriggerOff(k)
           \/ DirectKey(k)
           \/ WaitingKey(k) \/ UnassignedKey(k, shift) \/ PassthroughKey(k)
  <2>1. tentative' \in {tentative, tb, <<>>}
    BY <1>4 DEF HeldKeyDown, ModifierKeyDown, TriggerOn, TriggerOff, DirectKey,
                WaitingKey, UnassignedKey, PassthroughKey, buffers
  <2>. QED  BY <1>1, <2>1, AloneEmpty
<1>5. CASE BackspaceDown(k)
  <2>1. CASE tentative = <<>>
    BY <1>5, <2>1 DEF BackspaceDown
  <2>2. CASE tentative # <<>>
    <3>1. Len(tentative) - 1 \in 0..Len(tentative)
      BY <1>1, <2>2
    <3>2. tentative' = SubSeq(tentative, 1, Len(tentative) - 1)
      BY <1>5, <2>2 DEF BackspaceDown
    <3>. QED  BY <1>1, <3>1, <3>2, AlonePrefix
  <2>. QED  BY <2>1, <2>2
<1>6. CASE LayerKey(k)
  <2>1. PICK i \in ModifiedLayer(k) :
          tentative' \in {tb, Pushed(tb, Layout.modified[i][k], <<k>>)}
    BY <1>6 DEF LayerKey
  <2>2. i \in DOMAIN Layout.modified /\ k \in DOMAIN Layout.modified[i]
    BY <2>1, LayoutAssumption DEF ModifiedLayer, FirstOf, TypeOK
  <2>3. Layout.modified[i][k] \in Seq(Token)
    BY <2>2, LayoutCells
  <2>. QED  BY <1>1, <1>2, <2>1, <2>3, AlonePushed
<1>7. CASE ChordKey(k)
  <2>1. PICK c \in MutualChordMatch(k, HeldAt(k)) :
          tentative' = Pushed(SubSeq(tb, 1, Unaffected(tb, ChordKeys(c))),
                              Layout.chords[c].output, Layout.chords[c].keys)
    BY <1>7 DEF ChordKey
  <2>2. c \in DOMAIN Layout.chords
    BY DEF MutualChordMatch, MutualChords
  <2>. QED  BY <1>3, <2>1, <2>2, LayoutCells DEF ChordKeys
<1>8. CASE RuleKey(k)
  <2>1. PICK rule \in ResolvedRule(SpecPending(k), tb, k) :
          tentative' = Pushed(SubSeq(tb, 1, Unaffected(tb, ToSet(rule.src))),
                              rule.output, rule.src)
    BY <1>8 DEF RuleKey
  <2>2. rule.output \in Seq(Token) /\ rule.src \in Seq(Keys)
    BY <1>1, RegularTypes, ResolvedRuleType
  <2>. QED  BY <1>3, <2>1, <2>2
<1>9. CASE WholeCellKey(k)
  <2>1. Layout.base[k] \in Seq(Token) /\ tentative' = Pushed(tb, Layout.base[k], <<k>>)
    BY <1>9, LayoutCells DEF WholeCellKey, BaseKey
  <2>. QED  BY <1>1, <1>2, <2>1, AlonePushed
<1>10. CASE SpeculativeKey(k)
  BY <1>10, AloneSpeculative
<1>. QED  BY <1>4, <1>5, <1>6, <1>7, <1>8, <1>9, <1>10 DEF KeyDown

(* What a release does to the buffer: it confirms, and a tap may type. *)
LEMMA KeyUpBuffer ==
  ASSUME TypeOK, NEW k \in Keys, KeyUp(k)
  PROVE  \/ tentative' = Confirmed(tentative, k) /\ ~Types(out')
         \/ \E cell \in Seq(Token) :
              /\ tentative' = Pushed(Confirmed(tentative, k), cell, <<k>>)
              /\ out' = Outputs(cell)
<1>. DEFINE tb == Confirmed(tentative, k)
<1>1. ~Types(<<>>) /\ \A x : ~Types(<<Action("Passthrough", x)>>)
                  /\ ~Types(<<Action("SendFunctionKey", <<k>>)>>)
  BY DEF Types, Action
<1>2. CASE ModifierTap(k)
  <2>1. PICK i \in ModifierIndex(k) :
          \/ /\ tentative' = tb
             /\ out' \in {<<>>, <<Action("Passthrough", <<k>>)>>,
                          <<Action("SendFunctionKey", <<k>>)>>}
          \/ /\ k \in DOMAIN Layout.base
             /\ tentative' = Pushed(tb, Layout.base[k], <<k>>) /\ out' = Outputs(Layout.base[k])
          \/ /\ tentative' = Pushed(tb, Layout.modifiers[i].tapOutput, <<k>>)
             /\ out' = Outputs(Layout.modifiers[i].tapOutput)
    BY <1>2 DEF ModifierTap
  <2>2. k \in DOMAIN Layout.base => Layout.base[k] \in Seq(Token)
    BY LayoutCells
  <2>3. Layout.modifiers[i].tapOutput \in Seq(Token)
    BY ModifierIndexType, LayoutCells DEF ModifierDef
  <2>. QED  BY <1>1, <2>1, <2>2, <2>3
<1>3. CASE ModifierKeyUp(k) \/ TriggerUp(k) \/ RegularKeyUp(k)
  BY <1>1, <1>3 DEF ModifierKeyUp, TriggerUp, RegularKeyUp
<1>. QED  BY <1>2, <1>3 DEF KeyUp


(* Pruning drops keys in place: the names left are elements of the pending *)
(* sequence within their windows, the newest key last.                     *)
LEMMA PrunedWithin ==
  ASSUME TypeOK, NEW k \in Keys, Len(SpecPending(k)) >= 2,
         ~PrefixPending(SpecPending(k))
  PROVE  \A j \in 1..(Len(SpecPending(k)) - 1) : WithinWindow(SpecPending(k)[j].key)
<1>. DEFINE new == [key |-> k, ts |-> now]
            old == PendingAt(k)
            q   == Append(old, new)
            I   == {i \in DOMAIN q : now - q[i].ts <= ChordWindowFor(q[i].key)}
<1>1. /\ old \in Seq(PendingKey) /\ q \in Seq(PendingKey)
      /\ SpecPending(k) = Pruned(q)
  BY RegularTypes DEF SpecPending
<1>. HIDE DEF new
<1>3. /\ Len(q) = Len(old) + 1 /\ Len(old) \in Nat
      /\ \A i \in 1..Len(old) : q[i] = old[i]
      /\ I \in SUBSET (1..(Len(old) + 1)) /\ I \in SUBSET DOMAIN q
  BY <1>1
<1>. HIDE DEF q
<1>2. Pruned(q) = Retained(q, I)
  <2>1. ~(Len(q) < 2 \/ PrefixPending(q))
    <3>1. SUFFICES ASSUME Len(q) < 2 \/ PrefixPending(q)  PROVE FALSE
      OBVIOUS
    <3>2. Pruned(q) = q
      BY <3>1 DEF Pruned
    <3>3. Len(q) \in Nat
      BY <1>1
    <3>. QED  BY <1>1, <3>1, <3>2, <3>3
  <2>. QED  BY <2>1 DEF Pruned
<1>6. ASSUME NEW i \in I  PROVE now - q[i].ts <= ChordWindowFor(q[i].key)
  OBVIOUS
<1>. HIDE DEF I
<1>. DEFINE n == Cardinality(I)
<1>4. n \in Nat /\ \E nth \in [1..n -> I] :
        Increasing(nth, n) /\ Retained(q, I) = [a \in 1..n |-> q[nth[a]]]
  BY <1>1, <1>3, RetainedIs
<1>5. PICK nth \in [1..n -> I] :
        Increasing(nth, n) /\ Retained(q, I) = [a \in 1..n |-> q[nth[a]]]
  BY <1>4
<1>. HIDE DEF n
<1>7. Len(SpecPending(k)) = n /\ n >= 2
  BY <1>1, <1>2, <1>4, <1>5
<1>8. ASSUME NEW j \in 1..(n - 1)
      PROVE  WithinWindow(SpecPending(k)[j].key)
  <2>1. j \in 1..n /\ n \in 1..n /\ j < n
    BY <1>4, <1>7
  <2>2. nth[j] < nth[n] /\ nth[j] \in I /\ nth[n] \in I
    BY <1>5, <2>1 DEF Increasing
  <2>3. nth[j] \in 1..Len(old)
    BY <1>3, <2>2
  <2>4. SpecPending(k)[j] = q[nth[j]] /\ q[nth[j]] = old[nth[j]]
    BY <1>1, <1>2, <1>3, <1>5, <2>1, <2>3
  <2>5. now - old[nth[j]].ts <= ChordWindowFor(old[nth[j]].key)
    BY <1>6, <2>2, <2>4
  <2>6. old = pending
    BY <2>3 DEF PendingAt
  <2>7. nth[j] \in DOMAIN pending
    BY <1>1, <2>3, <2>6
  <2>. HIDE DEF old
  <2>. QED  BY <2>4, <2>5, <2>6, <2>7 DEF WithinWindow
<1>. QED  BY <1>7, <1>8

(* A rule whose keys are those of a timed chord is that of a timed chord,  *)
(* and its other keys are within their windows.                            *)
LEMMA TimedRuleWithin ==
  ASSUME TypeOK, ChordsUnambiguous, NEW k \in Keys,
         NEW rule \in ResolvedRule(SpecPending(k), TentativeAt(k), k),
         NEW c \in TimedChords, ChordKeys(c) = ToSet(rule.src)
  PROVE  \A x \in ToSet(Front(rule.src)) : WithinWindow(x)
<1>. DEFINE p  == SpecPending(k)
            tb == TentativeAt(k)
            names == PendingNames(p)
<1>1. /\ p \in Seq(PendingKey) /\ tb \in Seq(TentativeChar)
      /\ names \in Seq(Keys) /\ DOMAIN names = DOMAIN p
      /\ \A j \in DOMAIN p : names[j] = p[j].key
  BY RegularTypes, PendingNamesSeq DEF PendingNames
<1>2. ASSUME rule \in PostfixRule(tb, k)  PROVE FALSE
  <2>1. /\ rule.src = Append(tb[Len(tb)].src, k) /\ tb # <<>> /\ k \in DOMAIN Layout.postfix
    BY <1>2 DEF PostfixRule
  <2>2. Len(tb) \in DOMAIN tb
    BY <1>1, <2>1
  <2>3. tb[Len(tb)].src \in Seq(Keys)
    <3>1. tb[Len(tb)] \in TentativeChar
      BY <1>1, <2>2, SeqElement
    <3>. QED  BY <3>1 DEF TentativeChar
  <2>. DEFINE s == tb[Len(tb)].src
  <2>. HIDE DEF s
  <2>4. Len(s) + 1 \in DOMAIN Append(s, k) /\ Append(s, k)[Len(s) + 1] = k
    BY <2>3 DEF s
  <2>5. k \in ToSet(Append(s, k))
    BY <2>4 DEF ToSet
  <2>. QED  BY <2>1, <2>5 DEF s, ChordsUnambiguous
<1>. HIDE DEF tb
<1>3. rule.src = names /\ Len(p) >= 2
  <2>1. rule \in PrefixRule(p) \/ rule \in TimedChordRule(p)
    BY <1>2 DEF ResolvedRule, p, tb
  <2>. HIDE DEF p
  <2>2. Len(p) \in Nat
    BY <1>1
  <2>3. CASE rule \in PrefixRule(p)
    BY <2>3 DEF PrefixRule, names
  <2>4. CASE rule \in TimedChordRule(p)
    <3>1. ~(Len(p) < 2)
      BY <2>4 DEF TimedChordRule
    <3>2. \E i \in TimedChords : rule.src = names
      BY <2>4 DEF TimedChordRule, FirstOf, names
    <3>. QED  BY <2>2, <3>1, <3>2
  <2>. QED  BY <2>1, <2>3, <2>4
<1>. HIDE DEF names, p
<1>4. ~PrefixPending(p)
  <2>1. SUFFICES ASSUME p[1].key \in DOMAIN Layout.prefix  PROVE FALSE
    BY DEF PrefixPending
  <2>2. 1 \in DOMAIN names /\ names[1] = p[1].key
    BY <1>1, <1>3
  <2>3. names[1] \in ToSet(names)
    BY <2>2 DEF ToSet
  <2>. QED  BY <1>3, <2>1, <2>2, <2>3 DEF ChordsUnambiguous
<1>5. ASSUME NEW x \in ToSet(Front(names))
      PROVE  \E j \in 1..(Len(p) - 1) : x = p[j].key
  <2>1. Len(names) = Len(p) /\ Len(p) \in Nat /\ DOMAIN p = 1..Len(p)
    BY <1>1
  <2>2. DOMAIN Front(names) = 1..(Len(p) - 1)
        /\ \A j \in 1..(Len(p) - 1) : Front(names)[j] = names[j]
    BY <1>1, <1>3, <2>1 DEF Front
  <2>3. PICK j \in 1..(Len(p) - 1) : x = names[j]
    BY <2>2 DEF ToSet
  <2>. QED  BY <1>1, <2>1, <2>3
<1>. QED  BY <1>3, <1>4, <1>5, PrunedWithin DEF p

(* What one step owes the window of a chord. *)
FiresWithin ==
  FiresTimedChord => \A k \in ToSet(Front(Last(tentative').src)) : WithinWindow(k)

(* A char of one key, and a step that types nothing, owe nothing. *)
LEMMA OneKeyFiresNothing ==
  ASSUME Len(Last(tentative').src) = 1 \/ ~Types(out')
  PROVE  FiresWithin
<1>1. FiresTimedChord => Len(Last(tentative').src) > 1 /\ Types(out')
  BY DEF FiresTimedChord
<1>2. ~FiresTimedChord
  <2>. DEFINE n == Len(Last(tentative').src)
  <2>1. FiresTimedChord => n > 1
    BY <1>1
  <2>2. n = 1 => ~(n > 1)
    <3>. HIDE DEF n
    <3>. QED  OBVIOUS
  <2>. QED  BY <1>1, <2>1, <2>2
<1>. QED  BY <1>2 DEF FiresWithin

(* process_key_down. *)
LEMMA KeyDownWithin ==
  ASSUME TypeOK, ChordsUnambiguous, Alone(tentative), NEW k \in Keys,
         NEW shift \in BOOLEAN, KeyDown(k, shift)
  PROVE  FiresWithin
<1>. DEFINE tb == TentativeAt(k)
<1>1. tb \in Seq(TentativeChar)
  BY RegularTypes
<1>2. <<k>> \in Seq(Keys) /\ Len(<<k>>) = 1
  OBVIOUS
<1>3. ASSUME NEW cell \in Seq(Token), out' = Outputs(cell),
             tentative' = Pushed(tb, cell, <<k>>)
      PROVE  FiresWithin
  <2>1. SUFFICES ASSUME Types(Outputs(cell))  PROVE FiresWithin
    BY <1>3, OneKeyFiresNothing
  <2>2. \E i \in DOMAIN cell : cell[i].kind = "kana"
    BY <2>1, OutputsKana
  <2>3. Last(tentative').src = <<k>>
    BY <1>1, <1>2, <1>3, <2>2, PushedLast
  <2>. QED  BY <1>2, <2>3, OneKeyFiresNothing
<1>4. ASSUME NEW src \in Seq(Keys), NEW cell \in Seq(Token),
             tentative' = Pushed(SubSeq(tb, 1, Unaffected(tb, ToSet(src))), cell, src),
             out' = Backspaces(tb, Unaffected(tb, ToSet(src))) \o Outputs(cell),
             Types(out')
      PROVE  Last(tentative').src = src
  <2>. DEFINE n    == Unaffected(tb, ToSet(src))
              rest == SubSeq(tb, 1, n)
  <2>1. n \in 0..Len(tb) /\ rest \in Seq(TentativeChar)
    BY <1>1, UnaffectedRange, PrefixSeq
  <2>2. n \in Nat
    BY <1>1, <2>1
  <2>. HIDE DEF n, rest
  <2>3. Types(Outputs(cell))
    BY <1>1, <1>4, <2>2, RewriteKana DEF n
  <2>4. Last(Pushed(rest, cell, src)).src = src
    BY <2>1, <2>3, OutputsKana, PushedLast
  <2>. QED  BY <1>4, <2>4 DEF rest, n
<1>5. ~Types(<<>>) /\ \A x : \A act \in ActionNames \ {"SendKana"} : ~Types(<<Action(act, x)>>)
  BY DEF Types, Action
<1>6. CASE \/ HeldKeyDown(k) \/ ModifierKeyDown(k) \/ TriggerOn(k) \/ TriggerOff(k)
           \/ WaitingKey(k) \/ PassthroughKey(k)
  <2>1. ~Types(out')
    BY <1>5, <1>6, BackspacesSilent DEF HeldKeyDown, ModifierKeyDown, TriggerOn, TriggerOff,
              WaitingKey, PassthroughKey, ActionNames
  <2>. QED  BY <2>1, OneKeyFiresNothing
<1>7. CASE UnassignedKey(k, shift)
  <2>1. \E act \in ActionNames \ {"SendKana"} : out' = <<Action(act, <<k>>)>>
    BY <1>7 DEF UnassignedKey, ActionNames
  <2>. QED  BY <1>5, <2>1, OneKeyFiresNothing
<1>8. CASE BackspaceDown(k)
  <2>1. \/ out' = Backspaces(tentative, Len(tentative) - 1)
        \/ out' = <<>> \/ out' = <<Action("Backspace", <<>>)>>
    BY <1>8 DEF BackspaceDown
  <2>2. ~Types(<<Action("Backspace", <<>>)>>)
    BY <1>5 DEF ActionNames
  <2>. QED  BY <1>5, <2>1, <2>2, BackspacesSilent, OneKeyFiresNothing
<1>9. CASE DirectKey(k)
  BY <1>9, DirectTypesNothing, OneKeyFiresNothing
<1>10. CASE LayerKey(k)
  <2>1. PICK i \in ModifiedLayer(k) :
          \/ out' = <<Action("Passthrough", <<k>>)>>
          \/ /\ out' = Outputs(Layout.modified[i][k])
             /\ tentative' = Pushed(tb, Layout.modified[i][k], <<k>>)
    BY <1>10 DEF LayerKey
  <2>2. i \in DOMAIN Layout.modified /\ k \in DOMAIN Layout.modified[i]
    BY <2>1, LayoutAssumption DEF ModifiedLayer, FirstOf, TypeOK
  <2>3. Layout.modified[i][k] \in Seq(Token)
    BY <2>2, LayoutCells
  <2>4. ~Types(<<Action("Passthrough", <<k>>)>>)
    BY <1>5 DEF ActionNames
  <2>. QED  BY <1>3, <2>1, <2>3, <2>4, OneKeyFiresNothing
<1>11. CASE ChordKey(k)
  <2>1. PICK m \in MutualChordMatch(k, HeldAt(k)) :
          /\ tentative' = Pushed(SubSeq(tb, 1, Unaffected(tb, ChordKeys(m))),
                                 Layout.chords[m].output, Layout.chords[m].keys)
          /\ out' = Backspaces(tb, Unaffected(tb, ChordKeys(m))) \o Outputs(Layout.chords[m].output)
    BY <1>11 DEF ChordKey
  <2>2. m \in MutualChords /\ m \in DOMAIN Layout.chords
    BY DEF MutualChordMatch, MutualChords
  <2>3. Types(out') => Last(tentative').src = Layout.chords[m].keys
    BY <1>4, <2>1, <2>2, LayoutCells DEF ChordKeys
  <2>. QED  BY <2>2, <2>3 DEF FiresWithin, FiresTimedChord, ChordsUnambiguous, ChordKeys
<1>12. CASE RuleKey(k)
  <2>1. PICK rule \in ResolvedRule(SpecPending(k), tb, k) :
          /\ tentative' = Pushed(SubSeq(tb, 1, Unaffected(tb, ToSet(rule.src))),
                                 rule.output, rule.src)
          /\ out' = Backspaces(tb, Unaffected(tb, ToSet(rule.src))) \o Outputs(rule.output)
    BY <1>12 DEF RuleKey
  <2>2. rule.output \in Seq(Token) /\ rule.src \in Seq(Keys)
    BY <1>1, RegularTypes, ResolvedRuleType
  <2>3. Types(out') => Last(tentative').src = rule.src
    BY <1>4, <2>1, <2>2
  <2>. QED  BY <2>1, <2>3, TimedRuleWithin DEF FiresWithin, FiresTimedChord
<1>13. CASE WholeCellKey(k)
  <2>1. /\ Layout.base[k] \in Seq(Token) /\ out' = Outputs(Layout.base[k])
        /\ tentative' = Pushed(tb, Layout.base[k], <<k>>)
    BY <1>13, LayoutCells DEF WholeCellKey, BaseKey
  <2>. QED  BY <1>3, <2>1
<1>14. CASE SpeculativeKey(k)
  BY <1>2, <1>14, AloneSpeculative, OneKeyFiresNothing
<1>. QED  BY <1>6, <1>7, <1>8, <1>9, <1>10, <1>11, <1>12, <1>13, <1>14 DEF KeyDown

(* process_key_up: a tap types chars of one key. *)
LEMMA KeyUpWithin ==
  ASSUME TypeOK, Alone(tentative), NEW k \in Keys, KeyUp(k)
  PROVE  FiresWithin /\ Alone(tentative')
<1>. DEFINE tb == Confirmed(tentative, k)
<1>1. tb \in Seq(TentativeChar) /\ Alone(tb) /\ <<k>> \in Seq(Keys) /\ Len(<<k>>) = 1
  BY ConfirmedType, AloneConfirmed DEF TypeOK
<1>2. CASE tentative' = tb /\ ~Types(out')
  BY <1>1, <1>2, OneKeyFiresNothing
<1>3. ASSUME NEW cell \in Seq(Token), tentative' = Pushed(tb, cell, <<k>>),
             out' = Outputs(cell)
      PROVE  FiresWithin /\ Alone(tentative')
  <2>1. Alone(tentative')
    BY <1>1, <1>3, AlonePushed
  <2>2. Types(out') => Last(tentative').src = <<k>>
    BY <1>1, <1>3, OutputsKana, PushedLast
  <2>. QED  BY <1>1, <2>1, <2>2, OneKeyFiresNothing
<1>. QED  BY <1>2, <1>3, KeyUpBuffer

(* tick clears deadlines, of chars of one key. *)
LEMMA TickWithin ==
  ASSUME TypeOK, Alone(tentative), Tick
  PROVE  FiresWithin /\ Alone(tentative')
<1>1. \A i \in DOMAIN tentative : tentative[i] \in TentativeChar
  BY SeqElement DEF TypeOK
<1>2. /\ DOMAIN tentative' = DOMAIN tentative
      /\ \A i \in DOMAIN tentative :
           \/ tentative'[i] = tentative[i]
           \/ /\ tentative'[i] = [tentative[i] EXCEPT !.deadline = NoDeadline, !.tail = <<>>]
              /\ tentative[i].deadline # NoDeadline
  BY DEF Tick
<1>3. Alone(tentative')
  <2>1. SUFFICES ASSUME NEW i \in DOMAIN tentative, tentative'[i].deadline # NoDeadline
                 PROVE  Len(tentative'[i].src) = 1
    BY <1>2 DEF Alone
  <2>2. [tentative[i] EXCEPT !.deadline = NoDeadline, !.tail = <<>>].deadline = NoDeadline
    BY <1>1 DEF TentativeChar
  <2>3. tentative'[i] = tentative[i]
    BY <1>2, <2>1, <2>2
  <2>. QED  BY <2>1, <2>3 DEF Alone
<1>4. ASSUME FiresTimedChord  PROVE FALSE
  <2>1. tentative' \in Seq(TentativeChar)
    BY TickBuffer
  <2>. DEFINE n == Len(tentative')
  <2>2. n \in DOMAIN tentative' /\ Last(tentative') = tentative'[n]
    BY <1>4, <2>1 DEF FiresTimedChord, Last
  <2>. HIDE DEF n
  <2>3. tentative'[n] # tentative[n]
    BY <1>2, <1>4, <2>2 DEF FiresTimedChord, ToSet
  <2>4. tentative'[n].src = tentative[n].src /\ Len(tentative[n].src) = 1
    BY <1>1, <1>2, <2>2, <2>3 DEF Alone, TentativeChar
  <2>. QED  BY <1>4, <2>2, <2>4 DEF FiresTimedChord
<1>. QED  BY <1>3, <1>4 DEF FiresWithin

(* C1, for every order of events and whether or not a tick comes in        *)
(* between: for every layout whose timed chords share no key set with a    *)
(* mutual chord and no key with the triggers of its sequences.             *)
THEOREM ChordsFormInTime ==
  ASSUME ChordsUnambiguous
  PROVE  Spec => ChordWithinWindow
<1>1. Init => Alone(tentative)
  BY AloneEmpty DEF Init
<1>2. ASSUME TypeOK, Alone(tentative), Next
      PROVE  FiresWithin /\ Alone(tentative')
  <2>1. ASSUME NEW k \in Keys, NEW shift \in BOOLEAN, KeyDown(k, shift)
        PROVE  FiresWithin /\ Alone(tentative')
    BY <1>2, <2>1, KeyDownWithin, KeyDownAlone
  <2>2. ASSUME NEW k \in Keys, KeyUp(k)  PROVE FiresWithin /\ Alone(tentative')
    BY <1>2, <2>2, KeyUpWithin
  <2>3. CASE Tick
    BY <1>2, <2>3, TickWithin
  <2>4. CASE Reset \/ NotifyConversion \/ NotifyComposition \/ Advance
    <3>1. ~Types(<<>>)
      BY DEF Types
    <3>2. ~Types(out')
      <4>1. out' \in {<<>>, Backspaces(tentative, 0)}
        BY <2>4 DEF Reset, NotifyConversion, NotifyComposition, Advance
      <4>. QED  BY <3>1, <4>1, BackspacesSilent
    <3>3. tentative' \in {tentative, <<>>}
      BY <2>4 DEF Reset, NotifyConversion, NotifyComposition, Advance, buffers
    <3>. QED  BY <1>2, <3>2, <3>3, OneKeyFiresNothing, AloneEmpty
  <2>. QED  BY <1>2, <2>1, <2>2, <2>3, <2>4 DEF Next
<1>3. TypeOK /\ Alone(tentative) /\ [Next]_vars
        => Alone(tentative)' /\ [FiresTimedChord =>
             \A k \in ToSet(Front(Last(tentative').src)) : WithinWindow(k)]_vars
  BY <1>2 DEF FiresWithin, vars
<1>. QED  BY <1>1, <1>3, TypeCorrect, PTL DEF Spec, ChordWithinWindow

=============================================================================
