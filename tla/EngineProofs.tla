---------------------------- MODULE EngineProofs ----------------------------
(***************************************************************************)
(* The engine, for every layout, session and order of events:              *)
(*   ShownIsMozcs   the preedit and the candidates shown are the session's *)
(*                  as long as no batch has failed.                        *)
(* and, for every layout of plain kana cells (KanaLayout of Engine):       *)
(*   KanaReachScreen   the kana of a cell that is typed end up last on the *)
(*                     screen, with or without Mozc;                       *)
(*   RewritableIsLast  the characters the state machine may still rewrite  *)
(*                     are the last of Mozc's preedit;                     *)
(*   RewritesAreExact  a rewrite takes just those characters off the       *)
(*                     screen and puts its own in their place;             *)
(*   EngineIsEditor    no step of the engine touches any others: it        *)
(*                     implements Editor.                                  *)
(***************************************************************************)
EXTENDS Engine, RewriteProofs

-----------------------------------------------------------------------------
(* Types of the dispatch loop.                                             *)

Sessions == [text : Seq(STRING), converting : BOOLEAN]
Replied  == [text : Seq(STRING), converting : BOOLEAN, result : Seq(STRING),
             consumed : BOOLEAN]
Modes    == {"Composition", "Conversion"}

(* What the application gets: text and keys.  (All of them are strings, but *)
(* the provers do not know that a literal is one.)                         *)
Names == STRING \cup {"BackSpace", "Return"}

LoopState == [replies : Seq(Replied), alive : BOOLEAN, commit : Seq(STRING),
              passthrough : Seq(Names), forward : Seq(STRING), consumed : BOOLEAN,
              preedit : Seq(STRING), candidates : Seq(STRING), mode : Modes,
              cleared : BOOLEAN]

(* Every op has a reply. *)
LEMMA ServedType ==
  ASSUME NEW s \in Sessions \cup Replied, NEW a \in Actions, HasOp(a)
  PROVE  Served(s, a) \in Replied
<1>1. s.text \in Seq(STRING) /\ s.converting \in BOOLEAN
  BY DEF Sessions, Replied
<1>2. \A text \in Seq(STRING), converting \in BOOLEAN, result \in Seq(STRING),
         consumed_ \in BOOLEAN : Reply(text, converting, result, consumed_) \in Replied
  BY DEF Reply, Replied
<1>3. <<>> \in Seq(STRING)
  BY NoElements
<1>4. BackspaceKey(s) \in Replied
  <2>1. Front(s.text) \in Seq(STRING)
    BY <1>1, FrontType
  <2>. QED  BY <1>1, <1>2, <1>3, <2>1 DEF BackspaceKey
<1>5. \A name \in Seq(STRING) : FunctionKey(s, name) \in Replied
  BY <1>1, <1>2, <1>3, <1>4 DEF FunctionKey
<1>6. a.text \in Seq(STRING) /\ a.act \in ActionNames
  BY DEF Actions
<1>7. s.text \o a.text \in Seq(STRING)
  BY <1>1, <1>6
<1>. QED  BY <1>1, <1>2, <1>3, <1>4, <1>5, <1>6, <1>7 DEF Served, HasOp, ActionNames

(* The replies answer the ops one by one, each in the session the one      *)
(* before left.                                                            *)
LEMMA RepliesAre ==
  ASSUME session \in Sessions, NEW ops \in Seq(Actions), \A i \in DOMAIN ops : HasOp(ops[i])
  PROVE  /\ Replies(ops) \in Seq(Replied) /\ Len(Replies(ops)) = Len(ops)
         /\ \A i \in 1..Len(ops) :
              Replies(ops)[i] = Served(IF i = 1 THEN session ELSE Replies(ops)[i - 1], ops[i])
<1>. DEFINE n == Len(ops)
            V == Sessions \cup Replied
            step == [x \in V \X (1..n) |-> Served(x[1], ops[x[2]])]
            reply == Replies(ops)
<1>1. n \in Nat /\ \A i \in 1..n : ops[i] \in Actions /\ HasOp(ops[i])
  OBVIOUS
<1>2. \A x \in V \X (1..n) : Served(x[1], ops[x[2]]) \in Replied
  <2>1. ASSUME NEW x \in V \X (1..n)  PROVE Served(x[1], ops[x[2]]) \in Replied
    <3>1. x[1] \in V /\ x[2] \in 1..n
      BY <2>1
    <3>. QED  BY <1>1, <3>1, ServedType
  <2>. QED  BY <2>1
<1>3. step \in [V \X (1..n) -> V] /\ session \in V
  BY <1>2
<1>. HIDE DEF n
<1>4. \A v \in V, i \in 1..n : step[<<v, i>>] = Served(v, ops[i])
  OBVIOUS
<1>. HIDE DEF step
<1>5. PICK f \in [0..n -> V] : Iterates(f, n, session, step)
  <2>. HIDE DEF V
  <2>. QED  BY <1>1, <1>3, Iteration
<1>6. f[0] = session /\ \A i \in 1..n : f[i] = Served(f[i - 1], ops[i])
  <2>1. \A i \in 1..n : f[i - 1] \in V
    BY <1>1
  <2>. QED  BY <1>4, <1>5, <2>1 DEF Iterates
<1>. DEFINE g == [i \in 1..n |-> f[i]]
<1>7. g = [i \in 1..n |-> Served(IF i = 1 THEN session ELSE g[i - 1], ops[i])]
  <2>1. ASSUME NEW i \in 1..n
        PROVE  g[i] = Served(IF i = 1 THEN session ELSE g[i - 1], ops[i])
    <3>1. CASE i = 1
      BY <1>1, <1>6, <3>1
    <3>2. CASE i # 1
      <4>1. i - 1 \in 1..n
        BY <1>1, <3>2
      <4>. QED  BY <1>6, <3>2, <4>1
    <3>. QED  BY <3>1, <3>2
  <2>. HIDE DEF g
  <2>2. DOMAIN g = 1..n
    BY DEF g
  <2>. QED  BY <2>1, <2>2 DEF g
<1>. HIDE DEF g
<1>8. reply = [i \in 1..n |-> Served(IF i = 1 THEN session ELSE reply[i - 1], ops[i])]
  BY <1>7 DEF Replies, n
<1>. HIDE DEF reply
<1>9. \A i \in 1..n : reply[i] = Served(IF i = 1 THEN session ELSE reply[i - 1], ops[i])
  BY <1>8
<1>. DEFINE P == {i \in 0..n : i = 0 \/ reply[i] \in Replied}
<1>10. \A i \in 0..n : i \in P
  <2>1. 0 \in P
    BY <1>1
  <2>2. ASSUME NEW i \in 1..n, i - 1 \in P  PROVE i \in P
    <3>1. (IF i = 1 THEN session ELSE reply[i - 1]) \in Sessions \cup Replied
      BY <1>1, <2>2
    <3>2. reply[i] \in Replied
      BY <1>1, <1>9, <3>1, ServedType
    <3>. QED  BY <1>1, <3>2
  <2>. HIDE DEF P
  <2>. QED  BY <1>1, <2>1, <2>2, UpTo
<1>11. reply \in [1..n -> Replied]
  <2>1. \A i \in 1..n : reply[i] \in Replied
    <3>1. \A i \in 1..n : i \in 0..n /\ i # 0
      BY <1>1
    <3>. QED  BY <1>10, <3>1
  <2>2. DOMAIN reply = 1..n
    BY <1>8
  <2>3. reply = [i \in 1..n |-> reply[i]]
    BY <1>8
  <2>. QED  BY <2>1, <2>3
<1>. QED  BY <1>1, <1>9, <1>11 DEF reply, n

-----------------------------------------------------------------------------
(* The actions a call returns.                                             *)

(* A length is a natural number. *)
LEMMA LenType ==
  ASSUME NEW S, NEW s \in Seq(S)
  PROVE  Len(s) \in Nat
OBVIOUS

(* One element is a sequence. *)
LEMMA OneElement ==
  ASSUME NEW S, NEW x \in S
  PROVE  <<x>> \in Seq(S)
OBVIOUS

(* One action that names a key. *)
LEMMA OneAction ==
  ASSUME NEW act \in ActionNames, NEW k \in Keys
  PROVE  <<Action(act, <<k>>)>> \in Seq(Actions)
<1>1. <<k>> \in Seq(STRING)
  <2>1. k \in STRING
    BY KeysAssumption
  <2>. QED  BY <2>1, OneElement
<1>2. Action(act, <<k>>) \in Actions
  BY <1>1, ActionType
<1>. QED  BY <1>2

(* BackSpaces and a cell are actions. *)
LEMMA RewriteType ==
  ASSUME NEW tb \in Seq(TentativeChar), NEW n \in Nat, NEW cell \in Seq(Token)
  PROVE  Backspaces(tb, n) \o Outputs(cell) \in Seq(Actions)
<1>1. Backspaces(tb, n) \in Seq(Actions) /\ Outputs(cell) \in Seq(Actions)
  BY BackspacesType, OutputsType
<1>. QED  BY <1>1

(* process_key_down returns actions. *)
LEMMA KeyDownActions ==
  ASSUME TypeOK, NEW k \in Keys, NEW shift \in BOOLEAN, KeyDown(k, shift)
  PROVE  out' \in Seq(Actions)
<1>. DEFINE tb == TentativeAt(k)
<1>1. <<>> \in Seq(Actions)
  BY NoElements
<1>2. tentative \in Seq(TentativeChar) /\ tb \in Seq(TentativeChar)
  BY RegularTypes DEF TypeOK
<1>3. CASE HeldKeyDown(k) \/ ModifierKeyDown(k) \/ TriggerOff(k) \/ WaitingKey(k)
  BY <1>1, <1>3 DEF HeldKeyDown, ModifierKeyDown, TriggerOff, WaitingKey
<1>4. CASE TriggerOn(k)
  BY <1>2, <1>4, BackspacesType DEF TriggerOn
<1>5. CASE BackspaceDown(k)
  <2>1. CASE tentative # <<>>
    <3>1. Len(tentative) - 1 \in Nat
      BY <1>2, <2>1
    <3>. QED  BY <1>2, <1>5, <2>1, <3>1, BackspacesType DEF BackspaceDown
  <2>2. CASE tentative = <<>>
    <3>1. <<>> \in Seq(STRING)
      BY NoElements
    <3>2. Action("Backspace", <<>>) \in Actions
      BY <3>1, ActionType DEF ActionNames
    <3>3. <<Action("Backspace", <<>>)>> \in Seq(Actions)
      BY <3>2
    <3>. QED  BY <1>1, <1>5, <2>2, <3>3 DEF BackspaceDown
  <2>. QED  BY <2>1, <2>2
<1>6. CASE DirectKey(k)
  BY <1>6, DirectTypesNothing
<1>7. CASE LayerKey(k)
  <2>1. PICK i \in ModifiedLayer(k) :
          out' \in {<<Action("Passthrough", <<k>>)>>, Outputs(Layout.modified[i][k])}
    BY <1>7 DEF LayerKey
  <2>2. i \in DOMAIN Layout.modified /\ k \in DOMAIN Layout.modified[i]
    BY <2>1, LayoutAssumption DEF ModifiedLayer, FirstOf, TypeOK
  <2>3. Outputs(Layout.modified[i][k]) \in Seq(Actions)
    BY <2>2, LayoutCells, OutputsType
  <2>4. <<Action("Passthrough", <<k>>)>> \in Seq(Actions)
    BY OneAction DEF ActionNames
  <2>. QED  BY <2>1, <2>3, <2>4
<1>8. CASE ChordKey(k)
  <2>1. PICK c \in MutualChordMatch(k, HeldAt(k)) :
          out' = Backspaces(tb, Unaffected(tb, ChordKeys(c)))
                 \o Outputs(Layout.chords[c].output)
    BY <1>8 DEF ChordKey
  <2>2. Layout.chords[c].output \in Seq(Token)
    BY LayoutCells DEF MutualChordMatch, MutualChords
  <2>3. Unaffected(tb, ChordKeys(c)) \in Nat
    BY <1>2, UnaffectedRange
  <2>. QED  BY <1>2, <2>1, <2>2, <2>3, RewriteType
<1>9. CASE RuleKey(k)
  <2>1. PICK rule \in ResolvedRule(SpecPending(k), tb, k) :
          out' = Backspaces(tb, Unaffected(tb, ToSet(rule.src))) \o Outputs(rule.output)
    BY <1>9 DEF RuleKey
  <2>2. rule.output \in Seq(Token)
    BY <1>2, RegularTypes, ResolvedRuleType
  <2>3. Unaffected(tb, ToSet(rule.src)) \in Nat
    BY <1>2, UnaffectedRange
  <2>. QED  BY <1>2, <2>1, <2>2, <2>3, RewriteType
<1>10. CASE UnassignedKey(k, shift) \/ PassthroughKey(k)
  <2>1. \E act \in ActionNames : out' = <<Action(act, <<k>>)>>
    BY <1>10 DEF UnassignedKey, PassthroughKey, ActionNames
  <2>. QED  BY <2>1, OneAction
<1>11. CASE WholeCellKey(k)
  BY <1>11, LayoutCells, OutputsType DEF WholeCellKey, BaseKey
<1>12. CASE SpeculativeKey(k)
  <2>1. Layout.base[k] \in Seq(Token) /\ Layout.base[k] # <<>>
    BY <1>12, LayoutCells DEF SpeculativeKey, BaseKey
  <2>2. <<Layout.base[k][1]>> \in Seq(Token)
    BY <2>1
  <2>. QED  BY <1>12, <2>2, OutputsType DEF SpeculativeKey
<1>. QED  BY <1>3, <1>4, <1>5, <1>6, <1>7, <1>8, <1>9, <1>10, <1>11, <1>12 DEF KeyDown

(* So does process_key_up. *)
LEMMA KeyUpActions ==
  ASSUME TypeOK, NEW k \in Keys, KeyUp(k)
  PROVE  out' \in Seq(Actions)
<1>1. <<>> \in Seq(Actions)
  BY NoElements
<1>2. <<Action("Passthrough", <<k>>)>> \in Seq(Actions)
      /\ <<Action("SendFunctionKey", <<k>>)>> \in Seq(Actions)
  BY OneAction DEF ActionNames
<1>3. CASE ModifierTap(k)
  <2>1. PICK i \in ModifierIndex(k) :
          \/ out' \in {<<>>, <<Action("Passthrough", <<k>>)>>,
                       <<Action("SendFunctionKey", <<k>>)>>}
          \/ k \in DOMAIN Layout.base /\ out' = Outputs(Layout.base[k])
          \/ out' = Outputs(Layout.modifiers[i].tapOutput)
    BY <1>3 DEF ModifierTap
  <2>2. k \in DOMAIN Layout.base => Outputs(Layout.base[k]) \in Seq(Actions)
    BY LayoutCells, OutputsType
  <2>3. Layout.modifiers[i].tapOutput \in Seq(Token)
    BY ModifierIndexType, LayoutCells DEF ModifierDef
  <2>. QED  BY <1>1, <1>2, <2>1, <2>2, <2>3, OutputsType
<1>. QED  BY <1>1, <1>2, <1>3 DEF KeyUp, ModifierKeyUp, TriggerUp, RegularKeyUp

(* And tick, the tails it sends. *)
LEMMA TickActions ==
  ASSUME TypeOK, Tick
  PROVE  out' \in Seq(Actions)
<1>1. PICK E \in SUBSET DOMAIN tentative :
        out' = FlattenSeq([i \in DOMAIN tentative |->
                 IF i \in E THEN Outputs(tentative[i].tail) ELSE <<>>])
  BY DEF Tick
<1>. DEFINE part(i) == IF i \in E THEN Outputs(tentative[i].tail) ELSE <<>>
            T == Seq(Actions)
<1>2. tentative \in Seq(TentativeChar) /\ DOMAIN tentative = 1..Len(tentative)
  BY DEF TypeOK
<1>3. \A i \in 1..Len(tentative) : part(i) \in T
  <2>1. SUFFICES ASSUME NEW i \in 1..Len(tentative)  PROVE part(i) \in T
    OBVIOUS
  <2>2. tentative[i] \in TentativeChar
    BY <1>2
  <2>3. tentative[i].tail \in Seq(Token)
    BY <2>2 DEF TentativeChar
  <2>. QED  BY <2>3, OutputsType, NoElements
<1>. HIDE DEF part, T
<1>4. [i \in 1..Len(tentative) |-> part(i)] \in Seq(T)
  BY <1>2, <1>3
<1>. USE DEF T
<1>5. FlattenSeq([i \in 1..Len(tentative) |-> part(i)]) \in Seq(Actions)
  BY <1>4, FlattenType
<1>. QED  BY <1>1, <1>2, <1>5 DEF part

-----------------------------------------------------------------------------
(* The loop of dispatch_actions.                                           *)

(* apply_mozc_output on the first reply. *)
LEMMA AppliedIs ==
  ASSUME NEW r \in LoopState, r.replies # <<>>
  PROVE  LET o == r.replies[1] IN
         /\ o \in Replied
         /\ Applied(r) \in LoopState
         /\ Applied(r).replies = Tail(r.replies)
         /\ Applied(r).preedit = o.text
         /\ Applied(r).candidates = IF o.converting THEN o.text ELSE <<>>
<1>. DEFINE o == r.replies[1]
            mode == IF o.converting THEN "Conversion" ELSE "Composition"
<1>1. r.replies \in Seq(Replied) /\ r.commit \in Seq(STRING) /\ r.cleared \in BOOLEAN
  BY DEF LoopState
<1>2. o \in Replied /\ Head(r.replies) = o /\ Tail(r.replies) \in Seq(Replied)
  BY <1>1
<1>3. o.text \in Seq(STRING) /\ o.result \in Seq(STRING) /\ o.converting \in BOOLEAN
  BY <1>2 DEF Replied
<1>4. <<>> \in Seq(STRING) /\ r.commit \o o.result \in Seq(STRING)
  BY <1>1, <1>3
<1>5. (IF o.converting THEN o.text ELSE <<>>) \in Seq(STRING) /\ mode \in Modes
  BY <1>3, <1>4 DEF Modes
<1>6. (r.cleared \/ (o.converting /\ r.mode # "Conversion")) \in BOOLEAN
  OBVIOUS
<1>7. Applied(r) =
        [r EXCEPT !.replies = Tail(r.replies), !.preedit = o.text,
                  !.candidates = IF o.converting THEN o.text ELSE <<>>,
                  !.commit = r.commit \o o.result, !.mode = mode,
                  !.cleared = r.cleared \/ (o.converting /\ r.mode # "Conversion")]
  BY <1>2 DEF Applied
<1>. HIDE DEF o, mode
<1>8. Applied(r) \in LoopState
  BY <1>2, <1>3, <1>4, <1>5, <1>6, <1>7 DEF LoopState
<1>9. /\ Applied(r).replies = Tail(r.replies)
      /\ Applied(r).preedit = o.text
      /\ Applied(r).candidates = IF o.converting THEN o.text ELSE <<>>
  BY <1>7 DEF LoopState
<1>. QED  BY <1>2, <1>8, <1>9 DEF o

(* x has the replies left, and shows, what y does. *)
Shows(x, y) == /\ x.replies = y.replies
               /\ x.preedit = y.preedit
               /\ x.candidates = y.candidates

(* A text is also something the application can get. *)
LEMMA StringsAreNames ==
  ASSUME NEW text \in Seq(STRING)
  PROVE  text \in Seq(Names)
<1>1. \A i \in 1..Len(text) : text[i] \in Names
  BY DEF Names
<1>2. text = [i \in 1..Len(text) |-> text[i]] /\ Len(text) \in Nat
  BY SeqIsFunction
<1>. QED  BY <1>1, <1>2

(* One action: it takes a reply if there is one and it is not of the two   *)
(* that issue no op; what the addon will show is that reply's.             *)
LEMMA HandledIs ==
  ASSUME NEW r \in LoopState, NEW a \in Actions
  PROVE  /\ Handled(r, a) \in LoopState
         /\ Shows(Handled(r, a),
                  IF a.act \in {"Passthrough", "CommitDirect"} \/ r.replies = <<>>
                  THEN r ELSE Applied(r))
<1>1. a.act \in ActionNames /\ a.text \in Seq(STRING)
  BY DEF Actions
<1>2. a.text \in Seq(Names)
  BY <1>1, StringsAreNames
<1>3. Fallback(a) \in Seq(Names)
  <2>1. <<>> \in Seq(Names)
    BY NoElements
  <2>2. "BackSpace" \in Names /\ "Return" \in Names
    BY DEF Names
  <2>3. <<"BackSpace">> \in Seq(Names) /\ <<"Return">> \in Seq(Names)
    BY <2>2, OneElement
  <2>. QED  BY <1>2, <2>1, <2>3 DEF Fallback
<1>. DEFINE answered == r.replies # <<>>
            taken    == answered /\ Head(r.replies).consumed
            s        == IF answered THEN Applied(r) ELSE r
<1>4. s \in LoopState
  BY AppliedIs
<1>5. /\ s.forward \in Seq(STRING) /\ s.commit \in Seq(STRING)
      /\ r.commit \in Seq(STRING) /\ r.commit \o a.text \in Seq(STRING)
  BY <1>1, <1>4 DEF LoopState
<1>. DEFINE passed(x, p)    == [x EXCEPT !.passthrough = p]
            committed(x, c) == [x EXCEPT !.commit = c, !.consumed = TRUE]
            forwarded(x, f) == [x EXCEPT !.forward = f, !.consumed = TRUE]
            swallowed(x)    == [x EXCEPT !.consumed = TRUE]
<1>6. /\ \A x \in LoopState, p \in Seq(Names) :
           passed(x, p) \in LoopState /\ Shows(passed(x, p), x)
      /\ \A x \in LoopState, c \in Seq(STRING) :
           committed(x, c) \in LoopState /\ Shows(committed(x, c), x)
      /\ \A x \in LoopState, f \in Seq(STRING) :
           forwarded(x, f) \in LoopState /\ Shows(forwarded(x, f), x)
      /\ \A x \in LoopState : swallowed(x) \in LoopState /\ Shows(swallowed(x), x)
  BY DEF LoopState, Shows
<1>8. CASE a.act = "Passthrough"
  <2>1. Handled(r, a) = passed(r, a.text)
    BY <1>8 DEF Handled
  <2>. HIDE DEF passed
  <2>. QED  BY <1>2, <1>6, <1>8, <2>1
<1>9. CASE a.act = "CommitDirect"
  <2>1. Handled(r, a) = committed(r, a.text)
    BY <1>9 DEF Handled
  <2>. HIDE DEF committed
  <2>. QED  BY <1>1, <1>6, <1>9, <2>1
<1>10. CASE a.act \notin {"Passthrough", "CommitDirect"}
  <2>1. \/ \E p \in Seq(Names) : Handled(r, a) = passed(s, p)
        \/ \E f \in Seq(STRING) : Handled(r, a) = forwarded(s, f)
        \/ ~answered /\ \E c \in Seq(STRING) : Handled(r, a) = committed(r, c)
        \/ Handled(r, a) = swallowed(s)
    <3>1. CASE a.act = "SubmitThenPassthrough"
      <4>1. Handled(r, a) = [s EXCEPT !.passthrough = a.text]
        BY <3>1 DEF Handled
      <4>. QED  BY <1>2, <4>1
    <3>2. CASE a.act = "SendModifiedKey"
      <4>1. Handled(r, a) = [s EXCEPT !.forward = IF taken THEN s.forward ELSE a.text,
                                      !.consumed = TRUE]
        BY <3>2 DEF Handled
      <4>. QED  BY <1>1, <1>5, <4>1
    <3>3. CASE a.act = "SendKana"
      <4>1. \/ ~answered /\ Handled(r, a) = [r EXCEPT !.commit = r.commit \o a.text,
                                                     !.consumed = TRUE]
            \/ Handled(r, a) = [s EXCEPT !.consumed = TRUE]
        BY <3>3 DEF Handled
      <4>. QED  BY <1>5, <4>1
    <3>4. CASE a.act \in {"Backspace", "MozcSubmit", "SendFunctionKey"}
      <4>1. \/ Handled(r, a) = [s EXCEPT !.passthrough = Fallback(a)]
            \/ Handled(r, a) = [s EXCEPT !.consumed = TRUE]
        BY <3>4 DEF Handled
      <4>. QED  BY <1>3, <4>1
    <3>. QED  BY <1>1, <1>10, <3>1, <3>2, <3>3, <3>4 DEF ActionNames
  <2>2. Handled(r, a) \in LoopState /\ Shows(Handled(r, a), s)
    <3>1. ~answered => s = r
      OBVIOUS
    <3>. HIDE DEF s, answered, passed, committed, forwarded, swallowed
    <3>. QED  BY <1>4, <1>6, <2>1, <3>1
  <2>. QED  BY <1>10, <2>2
<1>. QED  BY <1>1, <1>8, <1>9, <1>10

(* The states of the loop, from none to all of the actions handled. *)
Loop(done, replies, alive) ==
  /\ done[0] = Undispatched(replies, alive)
  /\ \A i \in 1..Len(out) : done[i] = Handled(done[i - 1], out[i])

(* The loop runs, in typed states, and its last state is the result.       *)
LEMMA DispatchedIs ==
  ASSUME out \in Seq(Actions), preedit \in Seq(STRING), candidates \in Seq(STRING),
         mozcMode \in Modes, NEW replies \in Seq(Replied), NEW alive \in BOOLEAN
  PROVE  \E done \in [0..Len(out) -> LoopState] :
           Loop(done, replies, alive) /\ Dispatched(replies, alive) = done[Len(out)]
<1>. DEFINE n == Len(out)
            first == Undispatched(replies, alive)
            step == [x \in LoopState \X (1..n) |-> Handled(x[1], out[x[2]])]
<1>1. n \in Nat /\ \A i \in 1..n : out[i] \in Actions
  OBVIOUS
<1>2. first \in LoopState
  <2>1. <<>> \in Seq(STRING) /\ <<>> \in Seq(Names)
    BY NoElements
  <2>. QED  BY <2>1 DEF Undispatched, LoopState
<1>3. step \in [LoopState \X (1..n) -> LoopState]
  <2>1. ASSUME NEW x \in LoopState \X (1..n)  PROVE Handled(x[1], out[x[2]]) \in LoopState
    <3>1. x[1] \in LoopState /\ out[x[2]] \in Actions
      BY <1>1, <2>1
    <3>. QED  BY <3>1, HandledIs
  <2>. QED  BY <2>1
<1>. HIDE DEF n, first
<1>4. \A v \in LoopState, i \in 1..n : step[<<v, i>>] = Handled(v, out[i])
  OBVIOUS
<1>. HIDE DEF step
<1>5. PICK f \in [0..n -> LoopState] : Iterates(f, n, first, step)
  BY <1>1, <1>2, <1>3, Iteration
<1>6. f[0] = first /\ \A i \in 1..n : f[i] = Handled(f[i - 1], out[i])
  <2>1. \A i \in 1..n : f[i - 1] \in LoopState
    BY <1>1
  <2>. QED  BY <1>4, <1>5, <2>1 DEF Iterates
<1>. DEFINE done == CHOOSE d : d = [i \in 0..n |-> IF i = 0 THEN first
                                                    ELSE Handled(d[i - 1], out[i])]
<1>7. f = [i \in 0..n |-> IF i = 0 THEN first ELSE Handled(f[i - 1], out[i])]
  <2>1. \A i \in 0..n : i # 0 => i \in 1..n
    BY <1>1
  <2>. QED  BY <1>6, <2>1
<1>8. done = [i \in 0..n |-> IF i = 0 THEN first ELSE Handled(done[i - 1], out[i])]
  BY <1>7
<1>. HIDE DEF done
<1>9. done[0] = first /\ \A i \in 1..n : done[i] = Handled(done[i - 1], out[i])
  <2>1. 0 \in 0..n /\ \A i \in 1..n : i \in 0..n /\ i # 0
    BY <1>1
  <2>. QED  BY <1>8, <2>1
<1>10. \A i \in 0..n : done[i] = f[i]
  <2>. DEFINE P == {i \in 0..n : done[i] = f[i]}
  <2>1. 0 \in P
    BY <1>1, <1>6, <1>9
  <2>2. ASSUME NEW i \in 1..n, i - 1 \in P  PROVE i \in P
    BY <1>1, <1>6, <1>9, <2>2
  <2>3. \A i \in 0..n : i \in P
    <3>. HIDE DEF P
    <3>. QED  BY <1>1, <2>1, <2>2, UpTo
  <2>. QED  BY <2>3
<1>11. done \in [0..n -> LoopState]
  <2>1. \A i \in 0..n : done[i] \in LoopState
    BY <1>10
  <2>2. done = [i \in 0..n |-> done[i]]
    BY <1>8
  <2>. QED  BY <2>1, <2>2
<1>12. Dispatched(replies, alive) = done[n]
  BY DEF Dispatched, done, n, first
<1>. QED  BY <1>9, <1>11, <1>12 DEF Loop, n, first

-----------------------------------------------------------------------------
(* A batch that is answered.                                               *)

(* The ops of a call are those of its actions that have one. *)
LEMMA OpsType ==
  ASSUME out \in Seq(Actions)
  PROVE  Ops \in Seq(Actions) /\ \A i \in DOMAIN Ops : HasOp(Ops[i])
<1>1. {i \in DOMAIN out : HasOp(out[i])} \in SUBSET DOMAIN out
  OBVIOUS
<1>. QED  BY <1>1, RetainedSeq DEF Ops

(* Every reply is taken: the actions that take one are at least those that *)
(* issue an op.  So the addon shows what the last reply holds.             *)
LEMMA LastReplyShown ==
  ASSUME out \in Seq(Actions), preedit \in Seq(STRING), candidates \in Seq(STRING),
         mozcMode \in Modes, NEW replies \in Seq(Replied), Len(replies) = Len(Ops),
         Ops # <<>>
  PROVE  LET r == Dispatched(replies, TRUE)
             o == replies[Len(replies)]
         IN  /\ r.preedit = o.text
             /\ r.candidates = IF o.converting THEN o.text ELSE <<>>
<1>. DEFINE I == {i \in DOMAIN out : HasOp(out[i])}
            c == Cardinality(I)
            n == Len(out)
            m == Len(replies)
<1>0. I \in SUBSET DOMAIN out
  OBVIOUS
<1>1. /\ c \in Nat
      /\ \E nth \in [1..c -> I] : /\ Increasing(nth, c)
                                 /\ Retained(out, I) = [a \in 1..c |-> out[nth[a]]]
  <2>. HIDE DEF I
  <2>1. Cardinality(I) \in Nat
    BY <1>0, RetainedIs
  <2>2. \E nth \in [1..Cardinality(I) -> I] :
          /\ Increasing(nth, Cardinality(I))
          /\ Retained(out, I) = [a \in 1..Cardinality(I) |-> out[nth[a]]]
    BY <1>0, RetainedIs
  <2>. QED  BY <2>1, <2>2
<1>. HIDE DEF c
<1>11. PICK nth \in [1..c -> I] :
         Increasing(nth, c) /\ Retained(out, I) = [a \in 1..c |-> out[nth[a]]]
  BY <1>1
<1>2. c = m /\ m \in Nat /\ m # 0
  <2>1. Len([a \in 1..c |-> out[nth[a]]]) = c
    BY <1>1
  <2>2. Len(Ops) = c
    BY <1>11, <2>1 DEF Ops
  <2>3. Ops # <<>> => Len(Ops) # 0
    BY OpsType
  <2>. QED  BY <1>1, <2>2, <2>3
<1>3. /\ n \in Nat
      /\ \A i \in 1..n : out[i] \in Actions
      /\ \A j \in 1..m : nth[j] \in 1..n /\ HasOp(out[nth[j]])
      /\ \A j \in 1..m : j - 1 \in 1..m => nth[j - 1] < nth[j]
  <2>1. \A j \in 1..m : nth[j] \in I
    BY <1>2, <1>11
  <2>2. \A j \in 1..m : j - 1 \in 1..m => nth[j - 1] < nth[j]
    BY <1>2, <1>11 DEF Increasing
  <2>. QED  BY <2>1, <2>2
<1>4. PICK done \in [0..n -> LoopState] :
        Loop(done, replies, TRUE) /\ Dispatched(replies, TRUE) = done[n]
  BY DispatchedIs
<1>41. \A i \in 1..n : done[i] = Handled(done[i - 1], out[i])
  BY <1>4 DEF Loop
<1>42. \A t \in 0..m : LET s == SubSeq(replies, t + 1, m) IN
         /\ s = <<>> <=> t = m
         /\ t # m => s[1] = replies[t + 1] /\ Tail(s) = SubSeq(replies, t + 2, m)
  <2>1. SUFFICES ASSUME NEW t \in 0..m
                 PROVE  LET s == SubSeq(replies, t + 1, m) IN
                        /\ s = <<>> <=> t = m
                        /\ t # m => s[1] = replies[t + 1] /\ Tail(s) = SubSeq(replies, t + 2, m)
    OBVIOUS
  <2>. DEFINE s == SubSeq(replies, t + 1, m)
  <2>2. s \in Seq(Replied)
    OBVIOUS
  <2>6. Len(s) = m - t
    OBVIOUS
  <2>3. s = <<>> <=> Len(s) = 0
    <3>. HIDE DEF s
    <3>. QED  BY <2>2
  <2>4. t # m => s[1] = replies[t + 1] /\ Tail(s) = SubSeq(replies, t + 2, m)
    OBVIOUS
  <2>5. s = <<>> <=> t = m
    <3>. HIDE DEF s
    <3>. QED  BY <1>2, <2>6, <2>3
  <2>. QED  BY <2>4, <2>5
<1>. HIDE DEF I, n, m
<1>. DEFINE Taken(r, t) ==
              /\ r.replies = SubSeq(replies, t + 1, m)
              /\ t > 0 => /\ r.preedit = replies[t].text
                          /\ r.candidates = IF replies[t].converting
                                            THEN replies[t].text ELSE <<>>
            P == {i \in 0..n : \E t \in 0..m :
                    Taken(done[i], t) /\ \A j \in 1..m : nth[j] <= i => j <= t}
<1>5. 0 \in P
  <2>1. done[0].replies = replies
    BY <1>4 DEF Loop, Undispatched
  <2>2. SubSeq(replies, 1, m) = replies
    BY DEF m
  <2>3. Taken(done[0], 0)
    BY <2>1, <2>2
  <2>4. \A j \in 1..m : ~(nth[j] <= 0)
    BY <1>3
  <2>5. 0 \in 0..n /\ 0 \in 0..m
    BY <1>2, <1>3
  <2>. HIDE DEF Taken
  <2>. QED  BY <2>3, <2>4, <2>5
<1>6. ASSUME NEW i \in 1..n, i - 1 \in P  PROVE i \in P
  <2>1. PICK t \in 0..m :
          Taken(done[i - 1], t) /\ \A j \in 1..m : nth[j] <= i - 1 => j <= t
    BY <1>6
  <2>2. /\ i \in 0..n /\ i - 1 \in 0..n /\ out[i] \in Actions /\ done[i - 1] \in LoopState
        /\ done[i] = Handled(done[i - 1], out[i])
    BY <1>3, <1>41
  <2>3. Shows(done[i], IF out[i].act \in {"Passthrough", "CommitDirect"}
                          \/ done[i - 1].replies = <<>>
                       THEN done[i - 1] ELSE Applied(done[i - 1]))
    BY <2>2, HandledIs
  <2>4. done[i - 1].replies = <<>> <=> t = m
    BY <1>42, <2>1
  <2>5. ASSUME NEW j \in 1..m, nth[j] = i
        PROVE  j - 1 <= t
    <3>1. CASE j = 1
      BY <3>1
    <3>2. CASE j # 1
      <4>1. j - 1 \in 1..m
        BY <1>2, <3>2
      <4>2. nth[j - 1] <= i - 1
        BY <1>3, <2>5, <4>1
      <4>. QED  BY <2>1, <4>1, <4>2
    <3>. QED  BY <3>1, <3>2
  <2>6. ASSUME NEW j \in 1..m, nth[j] <= i
        PROVE  nth[j] <= i - 1 \/ nth[j] = i
    BY <1>3, <2>6
  <2>7. CASE out[i].act \in {"Passthrough", "CommitDirect"}
    <3>1. ~HasOp(out[i])
      BY <2>7 DEF HasOp
    <3>2. \A j \in 1..m : nth[j] # i
      BY <1>3, <3>1
    <3>3. Taken(done[i], t)
      BY <2>1, <2>3, <2>7 DEF Shows
    <3>. QED  BY <2>1, <2>2, <2>6, <3>2, <3>3
  <2>8. CASE out[i].act \notin {"Passthrough", "CommitDirect"} /\ t = m
    <3>1. Taken(done[i], t)
      BY <2>1, <2>3, <2>4, <2>8 DEF Shows
    <3>2. \A j \in 1..m : j <= t
      BY <1>2, <2>8
    <3>. HIDE DEF Taken
    <3>. QED  BY <2>2, <3>1, <3>2
  <2>9. CASE out[i].act \notin {"Passthrough", "CommitDirect"} /\ t # m
    <3>1. Shows(done[i], Applied(done[i - 1])) /\ done[i - 1].replies # <<>>
      BY <2>3, <2>4, <2>9
    <3>2. t + 1 \in 1..m /\ t + 1 \in 0..m
      BY <1>2, <2>9
    <3>3. /\ done[i - 1].replies[1] = replies[t + 1]
          /\ Tail(done[i - 1].replies) = SubSeq(replies, t + 2, m)
      BY <1>42, <2>1, <2>9
    <3>4. Taken(done[i], t + 1)
      <4>1. (t + 1) + 1 = t + 2
        OBVIOUS
      <4>. QED  BY <2>2, <3>1, <3>3, <4>1, AppliedIs DEF Shows
    <3>5. \A j \in 1..m : nth[j] <= i => j <= t + 1
      BY <2>1, <2>5, <2>6
    <3>. HIDE DEF Taken
    <3>. QED  BY <2>2, <3>2, <3>4, <3>5
  <2>. QED  BY <2>7, <2>8, <2>9
<1>7. n \in P
  <2>1. \A i \in 0..n : i \in P
    <3>. HIDE DEF P
    <3>. QED  BY <1>3, <1>5, <1>6, UpTo
  <2>2. n \in 0..n
    BY <1>3
  <2>. QED  BY <2>1, <2>2
<1>8. PICK t \in 0..m : Taken(done[n], t) /\ \A j \in 1..m : nth[j] <= n => j <= t
  BY <1>7
<1>9. t = m
  <2>1. m \in 1..m /\ nth[m] <= n
    BY <1>2, <1>3
  <2>. QED  BY <1>2, <1>8, <2>1
<1>10. m > 0
  BY <1>2
<1>. QED  BY <1>4, <1>8, <1>9, <1>10 DEF m

-----------------------------------------------------------------------------
(* The types of the engine.                                                *)

(* Every field of the engine, the session and the application has its      *)
(* type, and so have the actions to be dispatched.                         *)
EngineTypeOK ==
  /\ TypeOK
  /\ out \in Seq(Actions)
  /\ call \in [kind : {"idle", "down", "up", "tick"}, key : Keys \cup {""}]
  /\ call.kind = "down" => call.key \in Keys
  /\ mozc \in BOOLEAN
  /\ session \in Sessions
  /\ preedit \in Seq(STRING)
  /\ candidates \in Seq(STRING)
  /\ app \in Seq(Names)
  /\ failures \in Nat
  /\ open \in Nat

(* A key that reaches the application leaves it a text. *)
LEMMA AppKeysType ==
  ASSUME NEW text \in Seq(Names), NEW keys \in Seq(Names)
  PROVE  AppKeys(text, keys) \in Seq(Names)
<1>1. CASE keys = <<>>
  BY <1>1 DEF AppKeys
<1>2. CASE keys # <<>>
  <2>1. keys[1] \in Names
    BY <1>2
  <2>2. Append(text, keys[1]) \in Seq(Names)
    BY <2>1
  <2>3. SubSeq(text, 1, Max({0, Len(text) - 1})) \in Seq(Names)
    <3>1. CASE text = <<>>
      <4>1. Max({0, Len(text) - 1}) = 0
        BY <3>1 DEF Max
      <4>2. SubSeq(text, 1, 0) \in Seq(Names)
        OBVIOUS
      <4>. QED  BY <4>1, <4>2
    <3>2. CASE text # <<>>
      <4>1. Len(text) - 1 \in Nat
        BY <3>2
      <4>2. Max({0, Len(text) - 1}) = Len(text) - 1
        BY <4>1 DEF Max
      <4>3. SubSeq(text, 1, Len(text) - 1) \in Seq(Names)
        BY <4>1
      <4>. QED  BY <4>2, <4>3
    <3>. QED  BY <3>1, <3>2
  <2>. QED  BY <1>2, <2>2, <2>3 DEF AppKeys, AppKey
<1>. QED  BY <1>1, <1>2

(* What the addon makes of a result is a text. *)
LEMMA ShownType ==
  ASSUME EngineTypeOK, NEW r \in LoopState
  PROVE  Shown(r) \in Seq(Names)
<1>1. r.commit \in Seq(Names) /\ r.forward \in Seq(Names) /\ r.passthrough \in Seq(Names)
  BY StringsAreNames DEF LoopState
<1>. DEFINE key == IF r.passthrough # <<>> /\ call.kind = "down" THEN <<call.key>> ELSE <<>>
<1>2. key \in Seq(Names)
  <2>1. call.kind = "down" => call.key \in Names
    BY KeysAssumption DEF EngineTypeOK, Names
  <2>2. call.kind = "down" => <<call.key>> \in Seq(Names)
    BY <2>1, OneElement
  <2>. QED  BY <2>2, NoElements
<1>3. app \in Seq(Names)
  BY DEF EngineTypeOK
<1>4. AppKeys(AppKeys(app, r.passthrough) \o r.commit, r.forward) \in Seq(Names)
  <2>1. AppKeys(app, r.passthrough) \in Seq(Names)
    BY <1>1, <1>3, AppKeysType
  <2>2. AppKeys(app, r.passthrough) \o r.commit \in Seq(Names)
    BY <1>1, <2>1
  <2>. QED  BY <1>1, <2>2, AppKeysType
<1>5. AppKeys(AppKeys(app \o r.commit, r.forward), key) \in Seq(Names)
  <2>1. app \o r.commit \in Seq(Names)
    BY <1>1, <1>3
  <2>2. AppKeys(app \o r.commit, r.forward) \in Seq(Names)
    BY <1>1, <2>1, AppKeysType
  <2>. QED  BY <1>2, <2>2, AppKeysType
<1>. QED  BY <1>4, <1>5 DEF Shown

(* A dispatched call leaves every field typed, but for the session, whose  *)
(* type its case gives.                                                    *)
LEMMA FinishType ==
  ASSUME EngineTypeOK, NEW replies \in Seq(Replied), NEW alive \in BOOLEAN,
         Finish(replies, alive), session' \in Sessions, mozc' \in BOOLEAN, failures' \in Nat
  PROVE  EngineTypeOK'
<1>. DEFINE r == Dispatched(replies, alive)
<1>1. r \in LoopState
  <2>1. mozcMode \in Modes
    BY DEF EngineTypeOK, TypeOK, Modes
  <2>2. PICK done \in [0..Len(out) -> LoopState] : Dispatched(replies, alive) = done[Len(out)]
    BY <2>1, DispatchedIs DEF EngineTypeOK
  <2>3. Len(out) \in 0..Len(out)
    <3>1. out \in Seq(Actions)
      BY DEF EngineTypeOK
    <3>2. Len(out) \in Nat
      BY <3>1
    <3>. QED  BY <3>2
  <2>. QED  BY <2>2, <2>3
<1>2. Finish(replies, alive)
  OBVIOUS
<1>. HIDE DEF r
<1>3. Shown(r) \in Seq(Names)
  BY <1>1, ShownType
<1>4. /\ app' = Shown(r) /\ preedit' = r.preedit /\ candidates' = r.candidates
      /\ mozcMode' = r.mode /\ call' = Idle /\ out' = <<>> /\ open' = 0
      /\ \/ tentative' = <<>> /\ pending' = <<>> /\ held' = {} /\ consumed' = {}
         \/ UNCHANGED <<tentative, pending, held, consumed>>
      /\ UNCHANGED <<modifiers, trig, chordDeadline, now>>
  BY <1>2 DEF Finish, r
<1>5. TypeOK'
  <2>1. mozcMode' \in {"Composition", "Conversion"}
    BY <1>1, <1>4 DEF LoopState, Modes
  <2>2. tentative' \in Seq(TentativeChar) /\ pending' \in Seq(PendingKey)
        /\ held' \in SUBSET Keys /\ consumed' \in SUBSET Keys
    BY <1>4, NoElements DEF EngineTypeOK, TypeOK
  <2>. QED  BY <1>4, <2>1, <2>2 DEF EngineTypeOK, TypeOK, trig
<1>6. preedit' \in Seq(STRING) /\ candidates' \in Seq(STRING)
  BY <1>1, <1>4 DEF LoopState
<1>7. call' \in [kind : {"idle", "down", "up", "tick"}, key : Keys \cup {""}]
      /\ call'.kind # "down"
  BY <1>4 DEF Idle
<1>8. out' \in Seq(Actions)
  BY <1>4, NoElements
<1>. QED  BY <1>3, <1>4, <1>5, <1>6, <1>7, <1>8 DEF EngineTypeOK

(* What a call leaves to be dispatched. *)
LEMMA CalledType ==
  ASSUME EngineTypeOK, TypeOK', out' \in Seq(Actions), NEW kind \in {"down", "up", "tick"},
         NEW key \in Keys \cup {""}, kind = "down" => key \in Keys, Called(kind, key)
  PROVE  EngineTypeOK'
<1>1. call' \in [kind : {"idle", "down", "up", "tick"}, key : Keys \cup {""}]
      /\ (call'.kind = "down" => call'.key \in Keys)
  BY DEF Called, Idle
<1>2. open' \in Nat
  <2>1. TextOf(tentative) \in Seq(STRING)
    BY TextType DEF EngineTypeOK, TypeOK
  <2>2. Len(TextOf(tentative)) \in Nat
    BY <2>1, LenType
  <2>. QED  BY <2>2 DEF Called
<1>. QED  BY <1>1, <1>2 DEF EngineTypeOK, Called, link, ui

(* Every op has a reply, the session is that of the last one, and the      *)
(* addon shows it.                                                         *)
LEMMA AnsweredShown ==
  ASSUME EngineTypeOK, DispatchAnswered
  PROVE  /\ EngineTypeOK'
         /\ preedit' = session'.text
         /\ candidates' = IF session'.converting THEN session'.text ELSE <<>>
<1>. DEFINE replies == Replies(Ops)
            o == replies[Len(replies)]
<1>1. out \in Seq(Actions) /\ session \in Sessions /\ preedit \in Seq(STRING)
      /\ candidates \in Seq(STRING) /\ mozcMode \in Modes
  BY DEF EngineTypeOK, TypeOK, Modes
<1>2. Ops \in Seq(Actions) /\ (\A i \in DOMAIN Ops : HasOp(Ops[i])) /\ Ops # <<>>
  BY <1>1, OpsType DEF DispatchAnswered
<1>3. replies \in Seq(Replied) /\ Len(replies) = Len(Ops)
  BY <1>1, <1>2, RepliesAre
<1>4. Len(replies) \in 1..Len(replies) /\ o \in Replied
  <2>1. Len(Ops) \in Nat /\ Len(Ops) # 0
    BY <1>2
  <2>. QED  BY <1>3, <2>1
<1>5. session' = [text |-> o.text, converting |-> o.converting]
  BY DEF DispatchAnswered, Last
<1>6. session' \in Sessions
  BY <1>4, <1>5 DEF Replied, Sessions
<1>7. Finish(replies, TRUE) /\ UNCHANGED <<mozc, failures>>
  BY DEF DispatchAnswered
<1>8. LET r == Dispatched(replies, TRUE)
      IN  /\ r.preedit = o.text
          /\ r.candidates = IF o.converting THEN o.text ELSE <<>>
  BY <1>1, <1>2, <1>3, LastReplyShown
<1>. HIDE DEF replies, o
<1>9. EngineTypeOK'
  <2>1. mozc' \in BOOLEAN /\ failures' \in Nat
    BY <1>7 DEF EngineTypeOK
  <2>. QED  BY <1>3, <1>6, <1>7, <2>1, FinishType
<1>10. /\ preedit' = session'.text
       /\ candidates' = IF session'.converting THEN session'.text ELSE <<>>
  BY <1>5, <1>7, <1>8 DEF Finish
<1>. QED  BY <1>9, <1>10

-----------------------------------------------------------------------------
(* What the addon shows is what Mozc holds.                                *)

(* The inductive invariant: it is so in the middle of a call, too, and     *)
(* without Mozc there is no session.                                       *)
ShownInv ==
  /\ EngineTypeOK
  /\ ~mozc => session = NewSession
  /\ failures = 0 =>
       /\ preedit = session.text
       /\ candidates = IF session.converting THEN session.text ELSE <<>>

(* The empty session is one, and shows nothing. *)
LEMMA NewSessionType == NewSession \in Sessions /\ NewSession.text = <<>> /\ ~NewSession.converting
BY NoElements DEF NewSession, Sessions

(* Without replies the loop changes nothing the addon shows. *)
LEMMA NothingTaken ==
  ASSUME EngineTypeOK, NEW alive \in BOOLEAN
  PROVE  /\ Dispatched(<<>>, alive).preedit = preedit
         /\ Dispatched(<<>>, alive).candidates = candidates
<1>. DEFINE n == Len(out)
<1>1. /\ out \in Seq(Actions) /\ preedit \in Seq(STRING) /\ candidates \in Seq(STRING)
      /\ mozcMode \in Modes /\ <<>> \in Seq(Replied)
  BY NoElements DEF EngineTypeOK, TypeOK, Modes
<1>2. PICK done \in [0..n -> LoopState] :
        Loop(done, <<>>, alive) /\ Dispatched(<<>>, alive) = done[n]
  BY <1>1, DispatchedIs
<1>3. n \in Nat /\ \A i \in 1..n : out[i] \in Actions /\ done[i] = Handled(done[i - 1], out[i])
  BY <1>1, <1>2 DEF Loop
<1>. HIDE DEF n
<1>. DEFINE Untouched(r) == /\ r.replies = <<>>
                            /\ r.preedit = preedit
                            /\ r.candidates = candidates
            P == {i \in 0..n : Untouched(done[i])}
<1>4. 0 \in P
  BY <1>2, <1>3 DEF Loop, Undispatched
<1>5. ASSUME NEW i \in 1..n, i - 1 \in P  PROVE i \in P
  <2>1. i \in 0..n /\ i - 1 \in 0..n
    BY <1>3
  <2>2. done[i - 1] \in LoopState /\ done[i - 1].replies = <<>>
    BY <1>2, <1>5, <2>1
  <2>3. Shows(done[i], done[i - 1])
    BY <1>3, <2>2, HandledIs
  <2>. QED  BY <1>5, <2>1, <2>3 DEF Shows
<1>6. \A i \in 0..n : i \in P
  <2>. HIDE DEF P
  <2>. QED  BY <1>3, <1>4, <1>5, UpTo
<1>7. n \in 0..n
  BY <1>3
<1>. QED  BY <1>2, <1>6, <1>7

(* Dispatching a call keeps it. *)
LEMMA DispatchShows ==
  ASSUME ShownInv, Dispatch
  PROVE  ShownInv'
<1>1. EngineTypeOK /\ <<>> \in Seq(Replied)
  BY NoElements DEF ShownInv
<1>2. CASE DispatchAnswered
  <2>1. /\ EngineTypeOK' /\ preedit' = session'.text
        /\ candidates' = IF session'.converting THEN session'.text ELSE <<>>
    BY <1>1, <1>2, AnsweredShown
  <2>2. mozc'
    BY <1>2 DEF DispatchAnswered
  <2>. QED  BY <2>1, <2>2 DEF ShownInv
<1>3. CASE DispatchFailed
  <2>1. /\ mozc' = FALSE /\ session' = NewSession /\ failures' = failures + 1
        /\ Finish(<<>>, FALSE)
    BY <1>3 DEF DispatchFailed, LoseMozc
  <2>2. failures' \in Nat /\ failures' # 0
    <3>1. failures \in Nat
      BY <1>1 DEF EngineTypeOK
    <3>. QED  BY <2>1, <3>1
  <2>3. EngineTypeOK'
    BY <1>1, <2>1, <2>2, FinishType, NewSessionType
  <2>. QED  BY <2>1, <2>2, <2>3 DEF ShownInv
<1>4. CASE DispatchAlone
  <2>1. Finish(<<>>, FALSE) /\ UNCHANGED <<mozc, session, failures>>
    BY <1>4 DEF DispatchAlone, link
  <2>2. EngineTypeOK'
    <3>1. session' \in Sessions /\ mozc' \in BOOLEAN /\ failures' \in Nat
      BY <1>1, <2>1 DEF EngineTypeOK
    <3>. QED  BY <1>1, <2>1, <3>1, FinishType
  <2>3. preedit' = preedit /\ candidates' = candidates
    BY <1>1, <2>1, NothingTaken DEF Finish
  <2>. QED  BY <2>1, <2>2, <2>3 DEF ShownInv
<1>. QED  BY <1>2, <1>3, <1>4 DEF Dispatch

(* Reset returns actions. *)
LEMMA ResetActions ==
  ASSUME TypeOK, Reset
  PROVE  out' \in Seq(Actions)
BY BackspacesType DEF Reset, TypeOK

(* It holds at first. *)
LEMMA ShownInit ==
  ASSUME EngineInit
  PROVE  ShownInv
<1>1. TypeOK
  BY InitType DEF EngineInit
<1>2. <<>> \in Seq(STRING) /\ <<>> \in Seq(Names) /\ <<>> \in Seq(Actions)
  BY NoElements
<1>3. out = <<>> /\ call = Idle /\ mozc \in BOOLEAN
  BY EngineAssumption DEF EngineInit, Init
<1>4. EngineTypeOK
  <2>1. /\ call \in [kind : {"idle", "down", "up", "tick"}, key : Keys \cup {""}]
        /\ call.kind # "down"
    BY <1>3 DEF Idle
  <2>2. out \in Seq(Actions) /\ preedit \in Seq(STRING) /\ candidates \in Seq(STRING)
        /\ app \in Seq(Names) /\ session \in Sessions
    BY <1>2, <1>3, NewSessionType DEF EngineInit
  <2>3. failures \in Nat /\ open \in Nat
    BY DEF EngineInit
  <2>. QED  BY <1>1, <1>3, <2>1, <2>2, <2>3 DEF EngineTypeOK
<1>. QED  BY <1>4, NewSessionType DEF EngineInit, ShownInv

(* Every step keeps it. *)
LEMMA ShownStep ==
  ASSUME ShownInv, [EngineNext]_evars
  PROVE  ShownInv'
<1>1. EngineTypeOK /\ TypeOK
  BY DEF ShownInv, EngineTypeOK
<1>2. ASSUME TypeOK', out' \in Seq(Actions), NEW kind \in {"down", "up", "tick"},
             NEW key \in Keys \cup {""}, kind = "down" => key \in Keys, Called(kind, key)
      PROVE  ShownInv'
  <2>1. EngineTypeOK'
    BY <1>1, <1>2, CalledType
  <2>. QED  BY <1>2, <2>1 DEF ShownInv, Called, link, ui
<1>3. ASSUME NEW k \in Keys, NEW shift \in BOOLEAN, KeyDownCall(k, shift)
      PROVE  ShownInv'
  BY <1>1, <1>2, <1>3, KeyDownType, KeyDownActions DEF KeyDownCall
<1>4. ASSUME NEW k \in Keys, KeyUpCall(k)  PROVE ShownInv'
  BY <1>1, <1>2, <1>4, KeyUpType, KeyUpActions DEF KeyUpCall
<1>5. CASE TickCall
  <2>1. TypeOK'
    BY <1>1, <1>5, NextType DEF TickCall, Next
  <2>. QED  BY <1>1, <1>2, <1>5, <2>1, TickActions DEF TickCall
<1>6. CASE Dispatch
  BY <1>6, DispatchShows
<1>7. CASE Reconnect
  BY <1>1, <1>7 DEF Reconnect, ShownInv, EngineTypeOK, TypeOK, vars, ui
<1>8. CASE ResetCall
  <2>1. /\ TypeOK' /\ out' \in Seq(Actions)
        /\ preedit' = <<>> /\ candidates' = <<>> /\ UNCHANGED <<call, app, open>>
    BY <1>1, <1>8, NextType, ResetActions DEF ResetCall, ClearUi, Next
  <2>2. \/ ~mozc /\ UNCHANGED <<mozc, session, failures>>
        \/ mozc /\ session' = NewSession /\ UNCHANGED <<mozc, failures>>
        \/ mozc' = FALSE /\ session' = NewSession /\ failures' = failures + 1
        \/ mozc /\ mozc' = mozc /\ session' \in {session, NewSession} /\ failures' = failures + 1
    BY <1>8 DEF ResetCall, LoseMozc, RevertFails, link
  <2>3. /\ session' \in Sessions /\ mozc' \in BOOLEAN /\ failures' \in Nat
        /\ ~mozc' \/ failures' = 0 => session' = NewSession
    <3>1. mozc \in BOOLEAN /\ failures \in Nat /\ session \in Sessions
      BY <1>1 DEF EngineTypeOK
    <3>2. ~mozc => session = NewSession
      BY DEF ShownInv
    <3>3. failures + 1 \in Nat /\ failures + 1 # 0
      BY <3>1
    <3>. QED  BY <2>2, <3>1, <3>2, <3>3, NewSessionType
  <2>. QED  BY <1>1, <2>1, <2>3, NewSessionType, NoElements DEF ShownInv, EngineTypeOK
<1>9. CASE SelectCandidate
  <2>1. /\ TypeOK' /\ out' \in Seq(Actions)
        /\ preedit' = <<>> /\ candidates' = <<>> /\ UNCHANGED <<call, open>>
    BY <1>1, <1>9, NextType, ResetActions DEF SelectCandidate, ClearUi, Next
  <2>2. \/ ~mozc /\ UNCHANGED <<mozc, session, failures, app>>
        \/ /\ mozc /\ UNCHANGED <<mozc, failures>>
           /\ app' = IF session.converting THEN app \o session.text ELSE app
           /\ session' = IF session.converting THEN NewSession ELSE session
        \/ mozc' = FALSE /\ session' = NewSession /\ failures' = failures + 1 /\ UNCHANGED app
    BY <1>9 DEF SelectCandidate, LoseMozc, link
  <2>3. /\ mozc' \in BOOLEAN /\ failures' \in Nat /\ session' \in Sessions
        /\ ~mozc' => session' = NewSession
    <3>1. mozc \in BOOLEAN /\ failures \in Nat /\ session \in Sessions
      BY <1>1 DEF EngineTypeOK
    <3>2. ~mozc => session = NewSession
      BY DEF ShownInv
    <3>3. failures + 1 \in Nat
      BY <3>1
    <3>. QED  BY <2>2, <3>1, <3>2, <3>3, NewSessionType
  <2>4. app' \in Seq(Names)
    <3>1. app \in Seq(Names) /\ session.text \in Seq(Names)
      BY <1>1, StringsAreNames DEF EngineTypeOK, Sessions
    <3>2. app \o session.text \in Seq(Names)
      BY <3>1
    <3>. QED  BY <2>2, <3>1, <3>2
  <2>5. failures' = 0 => session' = NewSession
    <3>1. CASE failures = 0
      <4>1. candidates # <<>>
        BY <1>9 DEF SelectCandidate
      <4>. QED  BY <1>1, <2>2, <3>1, <4>1 DEF ShownInv, NewSession
    <3>2. CASE failures # 0
      BY <1>1, <2>2, <3>2 DEF EngineTypeOK
    <3>. QED  BY <3>1, <3>2
  <2>. QED  BY <1>1, <2>1, <2>3, <2>4, <2>5, NewSessionType, NoElements
            DEF ShownInv, EngineTypeOK
<1>10. CASE Wait
  <2>1. TypeOK' /\ out' \in Seq(Actions)
    BY <1>1, <1>10, NextType, NoElements DEF Wait, Next, Advance
  <2>. QED  BY <1>1, <1>10, <2>1 DEF Wait, ShownInv, EngineTypeOK, link, ui
<1>11. CASE UNCHANGED evars
  BY <1>1, <1>11 DEF evars, ShownInv, EngineTypeOK, TypeOK, vars
<1>. QED  BY <1>3, <1>4, <1>5, <1>6, <1>7, <1>8, <1>9, <1>10, <1>11 DEF EngineNext

(* Whatever the layout, the keys and the order of events, once a call is   *)
(* over the preedit the addon shows is Mozc's, and candidates are on offer *)
(* exactly while Mozc converts that text.                                  *)
THEOREM ShownIsMozcs == EngineSpec => []ShownIsSession
<1>1. EngineInit => ShownInv
  BY ShownInit
<1>2. ShownInv /\ [EngineNext]_evars => ShownInv'
  BY ShownStep
<1>3. ShownInv => ShownIsSession
  BY DEF ShownInv, ShownIsSession
<1>. QED  BY <1>1, <1>2, <1>3, PTL DEF EngineSpec

-----------------------------------------------------------------------------
(* Cells and the text they type.                                           *)

(* The text of a cell. *)
CellText(cell) == FlattenSeq([i \in DOMAIN cell |-> cell[i].text])

(* A filter that retains everything changes nothing. *)
LEMMA RetainedAll ==
  ASSUME NEW S, NEW s \in Seq(S)
  PROVE  Retained(s, DOMAIN s) = s
<1>. DEFINE n == Len(s)
            c == Cardinality(DOMAIN s)
<1>1. n \in Nat /\ DOMAIN s = 1..n /\ s = [a \in 1..n |-> s[a]]
  OBVIOUS
<1>2. c = n
  BY <1>1, FS_Interval
<1>3. \E nth \in [1..c -> DOMAIN s] :
         Increasing(nth, c) /\ Retained(s, DOMAIN s) = [a \in 1..c |-> s[nth[a]]]
  <2>. DEFINE I == DOMAIN s
  <2>1. I \in SUBSET DOMAIN s
    OBVIOUS
  <2>. HIDE DEF I
  <2>2. \E nth \in [1..Cardinality(I) -> I] :
          /\ Increasing(nth, Cardinality(I))
          /\ Retained(s, I) = [a \in 1..Cardinality(I) |-> s[nth[a]]]
    BY <2>1, RetainedIs
  <2>. QED  BY <2>2 DEF I
<1>. HIDE DEF n, c
<1>4. PICK nth \in [1..n -> 1..n] :
         Increasing(nth, n) /\ Retained(s, DOMAIN s) = [a \in 1..n |-> s[nth[a]]]
  BY <1>1, <1>2, <1>3
<1>. DEFINE P == {i \in 0..n : i = 0 \/ i <= nth[i]}
            Q == {i \in 0..n : i = n \/ nth[n - i] <= n - i}
<1>5. \A i \in 0..n : i \in P
  <2>1. 0 \in P
    BY <1>1
  <2>2. ASSUME NEW i \in 1..n, i - 1 \in P  PROVE i \in P
    <3>1. CASE i = 1
      <4>1. nth[1] \in 1..n
        BY <1>4, <3>1
      <4>. QED  BY <1>1, <3>1, <4>1
    <3>2. CASE i # 1
      <4>1. i - 1 \in 1..n /\ i - 1 < i
        BY <1>1, <3>2
      <4>2. nth[i - 1] < nth[i] /\ nth[i - 1] \in 1..n /\ nth[i] \in 1..n
        BY <1>4, <4>1 DEF Increasing
      <4>. QED  BY <1>1, <2>2, <3>2, <4>1, <4>2
    <3>. QED  BY <3>1, <3>2
  <2>. HIDE DEF P
  <2>. QED  BY <1>1, <2>1, <2>2, UpTo
<1>6. \A i \in 0..n : i \in Q
  <2>1. 0 \in Q
    <3>1. n # 0 => nth[n] \in 1..n
      BY <1>1, <1>4
    <3>. QED  BY <1>1, <3>1
  <2>2. ASSUME NEW i \in 1..n, i - 1 \in Q  PROVE i \in Q
    <3>1. CASE i = n
      BY <1>1, <3>1
    <3>2. CASE i # n
      <4>1. n - i \in 1..n /\ n - (i - 1) \in 1..n /\ n - i < n - (i - 1) /\ i - 1 # n
        BY <1>1, <3>2
      <4>2. /\ nth[n - i] < nth[n - (i - 1)] /\ nth[n - i] \in 1..n
            /\ nth[n - (i - 1)] \in 1..n
        BY <1>4, <4>1 DEF Increasing
      <4>3. nth[n - (i - 1)] <= n - (i - 1)
        BY <2>2, <4>1
      <4>. QED  BY <1>1, <4>1, <4>2, <4>3
    <3>. QED  BY <3>1, <3>2
  <2>. HIDE DEF Q
  <2>. QED  BY <1>1, <2>1, <2>2, UpTo
<1>7. \A i \in 1..n : nth[i] = i
  <2>1. ASSUME NEW i \in 1..n  PROVE nth[i] = i
    <3>1. i \in 0..n /\ i # 0 /\ n - i \in 0..n /\ n - i # n /\ n - (n - i) = i
      BY <1>1
    <3>2. i <= nth[i] /\ nth[i] <= i /\ nth[i] \in 1..n
      BY <1>4, <1>5, <1>6, <3>1
    <3>. QED  BY <1>1, <3>2
  <2>. QED  BY <2>1
<1>. QED  BY <1>1, <1>4, <1>7

(* One that retains nothing leaves nothing. *)
LEMMA RetainedNone ==
  ASSUME NEW s
  PROVE  Retained(s, {}) = <<>>
<1>1. Cardinality({}) = 0
  BY FS_EmptySet
<1>. QED  BY <1>1 DEF Retained

(* Texts are put together in any order. *)
LEMMA Regroup ==
  ASSUME NEW S, NEW a \in Seq(S), NEW b \in Seq(S), NEW c \in Seq(S)
  PROVE  (a \o b) \o c = a \o (b \o c) /\ a \o b \in Seq(S)
BY ConcatAssociative, ConcatProperties

(* The same of texts. *)
LEMMA TextRegroup ==
  ASSUME NEW a \in Seq(STRING), NEW b \in Seq(STRING), NEW c \in Seq(STRING)
  PROVE  (a \o b) \o c = a \o (b \o c)
BY Regroup

(* Text and text is text. *)
LEMMA TextJoin ==
  ASSUME NEW a \in Seq(STRING), NEW b \in Seq(STRING)
  PROVE  a \o b \in Seq(STRING)
BY Regroup

(* What the application and the session hold, one after the other. *)
LEMMA NamesRegroup ==
  ASSUME NEW a \in Seq(Names), NEW b \in Seq(Names), NEW c \in Seq(Names)
  PROVE  (a \o b) \o c = a \o (b \o c)
BY Regroup

(* The one and the other is such a text again. *)
LEMMA NamesJoin ==
  ASSUME NEW a \in Seq(Names), NEW b \in Seq(Names)
  PROVE  a \o b \in Seq(Names)
BY Regroup

(* The texts of a cell's tokens. *)
LEMMA CellTexts ==
  ASSUME NEW cell \in Seq(Token)
  PROVE  /\ [i \in DOMAIN cell |-> cell[i].text] \in Seq(Seq(STRING))
         /\ CellText(cell) \in Seq(STRING)
<1>. DEFINE T == Seq(STRING)
<1>1. DOMAIN cell = 1..Len(cell) /\ Len(cell) \in Nat
  OBVIOUS
<1>2. \A i \in 1..Len(cell) : cell[i].text \in T
  <2>1. \A i \in 1..Len(cell) : cell[i] \in Token
    OBVIOUS
  <2>. QED  BY <2>1 DEF Token
<1>. HIDE DEF T
<1>3. [i \in 1..Len(cell) |-> cell[i].text] \in Seq(T)
  BY <1>1, <1>2
<1>. USE DEF T
<1>. QED  BY <1>1, <1>3, FlattenType DEF CellText

(* Two buffers with the same kana have the same text. *)
LEMMA SameKana ==
  ASSUME NEW a, NEW b, DOMAIN a = DOMAIN b, \A i \in DOMAIN a : a[i].kana = b[i].kana
  PROVE  TextOf(a) = TextOf(b)
<1>1. [i \in DOMAIN a |-> a[i].kana] = [i \in DOMAIN b |-> b[i].kana]
  OBVIOUS
<1>. QED  BY <1>1 DEF TextOf

(* What emit_sequence pushes for a cell of kana: the cell's text.          *)
LEMMA PushedText ==
  ASSUME NEW tb \in Seq(TentativeChar), NEW cell \in Seq(Token), NEW src \in Seq(Keys),
         KanaCell(cell)
  PROVE  /\ Pushed(tb, cell, src) = tb \o [i \in DOMAIN cell |->
                                             NewChar(cell[i].text, src, NoDeadline, <<>>)]
         /\ TextOf(Pushed(tb, cell, src)) = TextOf(tb) \o CellText(cell)
<1>. DEFINE more == [i \in DOMAIN cell |-> NewChar(cell[i].text, src, NoDeadline, <<>>)]
<1>1. Retained(cell, {i \in DOMAIN cell : cell[i].kind = "kana"}) = cell
  <2>1. {i \in DOMAIN cell : cell[i].kind = "kana"} = DOMAIN cell
    BY DEF KanaCell
  <2>. QED  BY <2>1, RetainedAll
<1>2. Pushed(tb, cell, src) = tb \o more
  BY <1>1 DEF Pushed
<1>3. more \in Seq(TentativeChar)
  <2>1. DOMAIN cell = 1..Len(cell) /\ Len(cell) \in Nat /\ \A i \in 1..Len(cell) : cell[i] \in Token
    OBVIOUS
  <2>2. \A i \in 1..Len(cell) : NewChar(cell[i].text, src, NoDeadline, <<>>) \in TentativeChar
    <3>1. \A i \in 1..Len(cell) : cell[i].text \in Seq(STRING)
      BY <2>1 DEF Token
    <3>2. <<>> \in Seq(Token) /\ NoDeadline \in Nat \cup {NoDeadline}
      BY NoElements
    <3>. QED  BY <3>1, <3>2, NewCharType
  <2>. QED  BY <2>1, <2>2
<1>4. TextOf(more) = CellText(cell)
  <2>1. [i \in DOMAIN more |-> more[i].kana] = [i \in DOMAIN cell |-> cell[i].text]
    BY DEF NewChar
  <2>. QED  BY <2>1 DEF TextOf, CellText
<1>5. TextOf(tb \o more) = TextOf(tb) \o TextOf(more)
  BY <1>3, TextConcat
<1>. QED  BY <1>2, <1>4, <1>5

(* The text of one char more. *)
LEMMA AppendText ==
  ASSUME NEW tb \in Seq(TentativeChar), NEW char \in TentativeChar
  PROVE  TextOf(Append(tb, char)) = TextOf(tb) \o char.kana
<1>. DEFINE T == Seq(STRING)
            kana(s) == [i \in DOMAIN s |-> s[i].kana]
<1>1. kana(tb) \in Seq(T) /\ char.kana \in T
  BY KanaSeq DEF TentativeChar
<1>2. kana(Append(tb, char)) = Append(kana(tb), char.kana)
  OBVIOUS
<1>3. FlattenSeq(Append(kana(tb), char.kana)) = FlattenSeq(kana(tb)) \o char.kana
  BY <1>1, FlattenAppend
<1>. QED  BY <1>2, <1>3 DEF TextOf

(* The text of a buffer is that of any beginning and of the rest. *)
LEMMA TextSplit ==
  ASSUME NEW tb \in Seq(TentativeChar), NEW n \in 0..Len(tb)
  PROVE  /\ SubSeq(tb, 1, n) \in Seq(TentativeChar)
         /\ SubSeq(tb, n + 1, Len(tb)) \in Seq(TentativeChar)
         /\ TextOf(tb) = TextOf(SubSeq(tb, 1, n)) \o TextOf(SubSeq(tb, n + 1, Len(tb)))
<1>1. /\ SubSeq(tb, 1, n) \in Seq(TentativeChar)
      /\ SubSeq(tb, n + 1, Len(tb)) \in Seq(TentativeChar)
      /\ tb = SubSeq(tb, 1, n) \o SubSeq(tb, n + 1, Len(tb))
  <2>1. /\ 1 \in 1..(Len(tb) + 1) /\ n \in (1 - 1)..Len(tb) /\ Len(tb) \in n..Len(tb)
        /\ SubSeq(tb, 1, n) \in Seq(TentativeChar)
        /\ SubSeq(tb, n + 1, Len(tb)) \in Seq(TentativeChar)
    OBVIOUS
  <2>2. SubSeq(tb, 1, n) \o SubSeq(tb, n + 1, Len(tb)) = SubSeq(tb, 1, Len(tb))
    BY <2>1, ConcatAdjacentSubSeq
  <2>. QED  BY <2>1, <2>2, SubSeqFull
<1>2. TextOf(SubSeq(tb, 1, n) \o SubSeq(tb, n + 1, Len(tb)))
        = TextOf(SubSeq(tb, 1, n)) \o TextOf(SubSeq(tb, n + 1, Len(tb)))
  BY <1>1, TextConcat
<1>. QED  BY <1>1, <1>2

(* A release confirms chars and changes no text. *)
LEMMA ConfirmedText ==
  ASSUME NEW tb \in Seq(TentativeChar), NEW k
  PROVE  TextOf(Confirmed(tb, k)) = TextOf(tb)
<1>1. DOMAIN Confirmed(tb, k) = DOMAIN tb
  BY ConfirmedType
<1>2. \A i \in DOMAIN tb : Confirmed(tb, k)[i].kana = tb[i].kana
  <2>1. \A i \in DOMAIN tb : tb[i] \in TentativeChar
    OBVIOUS
  <2>. QED  BY <2>1 DEF Confirmed, TentativeChar
<1>. QED  BY <1>1, <1>2, SameKana

(* The text of a cell up to its j-th token. *)
LEMMA CellTextStep ==
  ASSUME NEW cell \in Seq(Token)
  PROVE  /\ CellText(SubSeq(cell, 1, 0)) = <<>>
         /\ CellText(SubSeq(cell, 1, Len(cell))) = CellText(cell)
         /\ \A j \in 0..Len(cell) : CellText(SubSeq(cell, 1, j)) \in Seq(STRING)
         /\ \A j \in 1..Len(cell) :
              CellText(SubSeq(cell, 1, j)) = CellText(SubSeq(cell, 1, j - 1)) \o cell[j].text
<1>. DEFINE T == Seq(STRING)
            texts(c) == [i \in DOMAIN c |-> c[i].text]
<1>1. CellText(SubSeq(cell, 1, 0)) = <<>>
  <2>1. texts(SubSeq(cell, 1, 0)) = <<>>
    OBVIOUS
  <2>. QED  BY <2>1, FlattenEmpty DEF CellText
<1>2. CellText(SubSeq(cell, 1, Len(cell))) = CellText(cell)
  BY SubSeqFull
<1>3. \A j \in 0..Len(cell) : SubSeq(cell, 1, j) \in Seq(Token)
  OBVIOUS
<1>4. \A j \in 0..Len(cell) : CellText(SubSeq(cell, 1, j)) \in Seq(STRING)
  BY <1>3, CellTexts
<1>5. ASSUME NEW j \in 1..Len(cell)
      PROVE  CellText(SubSeq(cell, 1, j)) = CellText(SubSeq(cell, 1, j - 1)) \o cell[j].text
  <2>. DEFINE before == SubSeq(cell, 1, j - 1)
  <2>1. j - 1 \in 0..Len(cell) /\ before \in Seq(Token) /\ cell[j] \in Token
    OBVIOUS
  <2>2. SubSeq(cell, 1, j) = Append(before, cell[j])
    OBVIOUS
  <2>3. texts(before) \in Seq(T) /\ cell[j].text \in T
    BY <2>1, CellTexts DEF Token
  <2>4. texts(Append(before, cell[j])) = Append(texts(before), cell[j].text)
    <3>. HIDE DEF before
    <3>. QED  BY <2>1
  <2>5. FlattenSeq(Append(texts(before), cell[j].text)) = FlattenSeq(texts(before)) \o cell[j].text
    BY <2>3, FlattenAppend
  <2>. QED  BY <2>2, <2>4, <2>5 DEF CellText
<1>. QED  BY <1>1, <1>2, <1>4, <1>5

-----------------------------------------------------------------------------
(* A rewrite: m BackSpaces, then the kana of a cell.                       *)

Erasing(m)       == [c \in 1..m |-> Action("Backspace", <<>>)]
Rewrite(m, cell) == Erasing(m) \o Outputs(cell)

(* Its actions, one by one; each has an op.                                *)
LEMMA RewriteIs ==
  ASSUME NEW m \in Nat, NEW cell \in Seq(Token), KanaCell(cell)
  PROVE  /\ Rewrite(m, cell) \in Seq(Actions)
         /\ Len(Rewrite(m, cell)) = m + Len(cell)
         /\ DOMAIN Rewrite(m, cell) = 1..(m + Len(cell))
         /\ \A i \in 1..m : Rewrite(m, cell)[i] = Action("Backspace", <<>>)
         /\ \A j \in 1..Len(cell) : Rewrite(m, cell)[m + j] = Action("SendKana", cell[j].text)
         /\ \A i \in DOMAIN Rewrite(m, cell) : HasOp(Rewrite(m, cell)[i])
<1>1. Erasing(m) \in Seq(Actions) /\ Len(Erasing(m)) = m
      /\ \A i \in 1..m : Erasing(m)[i] = Action("Backspace", <<>>)
  <2>1. <<>> \in Seq(STRING)
    BY NoElements
  <2>2. Action("Backspace", <<>>) \in Actions
    BY <2>1, ActionType DEF ActionNames
  <2>. QED  BY <2>2 DEF Erasing
<1>2. Outputs(cell) \in Seq(Actions) /\ Len(Outputs(cell)) = Len(cell)
      /\ \A j \in 1..Len(cell) : Outputs(cell)[j] = Action("SendKana", cell[j].text)
  <2>1. Outputs(cell) \in Seq(Actions)
    BY OutputsType
  <2>2. \A j \in 1..Len(cell) : cell[j].kind = "kana"
    BY DEF KanaCell
  <2>3. Outputs(cell) = [j \in 1..Len(cell) |-> Action(ActionName(cell[j].kind), cell[j].text)]
    BY DEF Outputs
  <2>4. \A j \in 1..Len(cell) : Outputs(cell)[j] = Action("SendKana", cell[j].text)
    BY <2>2, <2>3 DEF ActionName
  <2>5. DOMAIN Outputs(cell) = 1..Len(cell)
    BY <2>3
  <2>6. Len(cell) \in Nat
    OBVIOUS
  <2>. QED  BY <2>1, <2>4, <2>5, <2>6
<1>. DEFINE e == Erasing(m)
            o == Outputs(cell)
            w == e \o o
<1>3. Len(cell) \in Nat
  OBVIOUS
<1>. HIDE DEF e, o
<1>4. w \in Seq(Actions) /\ Len(w) = m + Len(cell) /\ DOMAIN w = 1..(m + Len(cell))
      /\ \A i \in 1..(m + Len(cell)) : w[i] = IF i <= m THEN e[i] ELSE o[i - m]
  <2>1. e \in Seq(Actions) /\ o \in Seq(Actions) /\ Len(e) = m /\ Len(o) = Len(cell)
    BY <1>1, <1>2 DEF e, o
  <2>2. /\ w \in Seq(Actions) /\ Len(w) = Len(e) + Len(o)
        /\ \A i \in 1..(Len(e) + Len(o)) : w[i] = IF i <= Len(e) THEN e[i] ELSE o[i - Len(e)]
    BY <2>1, ConcatProperties
  <2>. HIDE DEF w
  <2>3. Len(w) = m + Len(cell)
    BY <2>1, <2>2
  <2>4. DOMAIN w = 1..Len(w)
    BY <2>2
  <2>. QED  BY <2>1, <2>2, <2>3, <2>4
<1>. HIDE DEF w
<1>5. \A i \in 1..m : w[i] = Action("Backspace", <<>>)
  <2>1. \A i \in 1..m : i \in 1..(m + Len(cell)) /\ i <= m
    BY <1>3
  <2>. QED  BY <1>1, <1>4, <2>1 DEF e
<1>6. \A j \in 1..Len(cell) : w[m + j] = Action("SendKana", cell[j].text)
  <2>1. \A j \in 1..Len(cell) :
          m + j \in 1..(m + Len(cell)) /\ ~(m + j <= m) /\ (m + j) - m = j
    BY <1>3
  <2>. QED  BY <1>2, <1>4, <2>1 DEF o
<1>7. \A i \in DOMAIN w : HasOp(w[i])
  <2>1. ASSUME NEW i \in 1..(m + Len(cell))  PROVE HasOp(w[i])
    <3>1. CASE i <= m
      <4>1. i \in 1..m
        BY <3>1
      <4>. QED  BY <1>5, <4>1 DEF HasOp, Action
    <3>2. CASE ~(i <= m)
      <4>1. i - m \in 1..Len(cell) /\ m + (i - m) = i
        BY <1>3, <3>2
      <4>2. w[m + (i - m)] = Action("SendKana", cell[i - m].text)
        BY <1>6, <4>1
      <4>3. w[i].act = "SendKana"
        BY <4>1, <4>2 DEF Action
      <4>. QED  BY <4>3 DEF HasOp
    <3>. QED  BY <3>1, <3>2
  <2>. QED  BY <1>4, <2>1
<1>. QED  BY <1>4, <1>5, <1>6, <1>7 DEF Rewrite, w, e, o

(* All of them are ops. *)
LEMMA RewriteOps ==
  ASSUME NEW m \in Nat, NEW cell \in Seq(Token), KanaCell(cell), out = Rewrite(m, cell)
  PROVE  Ops = out
<1>1. {i \in DOMAIN out : HasOp(out[i])} = DOMAIN out /\ out \in Seq(Actions)
  BY RewriteIs
<1>. QED  BY <1>1, RetainedAll DEF Ops

(* The session the i-th op of a batch finds. *)
Before(replies, i) == IF i = 1 THEN session ELSE replies[i - 1]

(* After its BackSpaces the kana of a rewrite go to the end of the text,   *)
(* the first one in place of a text that is being converted.               *)
LEMMA KanaReplies ==
  ASSUME session \in Sessions, NEW m \in Nat, NEW cell \in Seq(Token), KanaCell(cell)
  PROVE  LET replies == Replies(Rewrite(m, cell))
             s       == Before(replies, m + 1)
             base    == IF s.converting THEN <<>> ELSE s.text
         IN  \A j \in 1..Len(cell) :
               replies[m + j] = Reply(base \o CellText(SubSeq(cell, 1, j)), FALSE,
                                      IF s.converting /\ j = 1 THEN s.text ELSE <<>>, TRUE)
<1>. DEFINE replies == Replies(Rewrite(m, cell))
            s       == Before(replies, m + 1)
            base    == IF s.converting THEN <<>> ELSE s.text
            T(j)    == CellText(SubSeq(cell, 1, j))
            n       == Len(cell)
            expected(j) == Reply(base \o T(j), FALSE,
                                 IF s.converting /\ j = 1 THEN s.text ELSE <<>>, TRUE)
<1>1. n \in Nat /\ T(0) = <<>> /\ \A j \in 1..n : cell[j].text \in Seq(STRING)
  <2>1. \A j \in 1..n : cell[j] \in Token
    OBVIOUS
  <2>2. \A j \in 1..n : cell[j].text \in Seq(STRING)
    BY <2>1 DEF Token
  <2>3. T(0) = <<>>
    BY CellTextStep
  <2>. QED  BY <2>2, <2>3
<1>2. (\A j \in 0..n : T(j) \in Seq(STRING)) /\ (\A j \in 1..n : T(j) = T(j - 1) \o cell[j].text)
  BY CellTextStep
<1>3. /\ replies \in Seq(Replied) /\ Len(replies) = m + n
      /\ \A i \in 1..(m + n) : replies[i] = Served(Before(replies, i), Rewrite(m, cell)[i])
  <2>. DEFINE w == Rewrite(m, cell)
  <2>1. w \in Seq(Actions) /\ Len(w) = m + n /\ \A i \in DOMAIN w : HasOp(w[i])
    BY RewriteIs
  <2>. HIDE DEF w
  <2>2. /\ Replies(w) \in Seq(Replied) /\ Len(Replies(w)) = Len(w)
        /\ \A i \in 1..Len(w) :
             Replies(w)[i] = Served(IF i = 1 THEN session ELSE Replies(w)[i - 1], w[i])
    BY <2>1, RepliesAre
  <2>. QED  BY <2>1, <2>2 DEF w, Before
<1>. HIDE DEF replies, n, T
<1>4. ASSUME NEW j \in 1..n
      PROVE  replies[m + j] = Served(Before(replies, m + j), Action("SendKana", cell[j].text))
  <2>1. m + j \in 1..(m + n) /\ j \in 1..Len(cell)
    BY <1>1 DEF n
  <2>. QED  BY <1>3, <2>1, RewriteIs
<1>5. \A x, text : Served(x, Action("SendKana", text)) =
                     IF x.converting THEN Reply(text, FALSE, x.text, TRUE)
                                     ELSE Reply(x.text \o text, FALSE, <<>>, TRUE)
  BY DEF Served, Action
<1>6. ASSUME n # 0  PROVE s.text \in Seq(STRING) /\ s.converting \in BOOLEAN
  <2>1. CASE m = 0
    BY <2>1 DEF Before, Sessions
  <2>2. CASE m # 0
    <3>1. m \in 1..(m + n) /\ (m + 1) - 1 = m /\ m + 1 # 1
      BY <1>1, <2>2
    <3>2. replies[m] \in Replied
      BY <1>3, <3>1
    <3>. QED  BY <3>1, <3>2 DEF Before, Replied
  <2>. QED  BY <2>1, <2>2
<1>. HIDE DEF s
<1>. DEFINE P == {j \in 0..n : j = 0 \/ replies[m + j] = expected(j)}
<1>7. ASSUME NEW j \in 1..n, j - 1 \in P  PROVE j \in P
  <2>0. n # 0 /\ j \in 0..n
    BY <1>1
  <2>1. CASE j = 1
    <3>1. replies[m + 1] = Served(s, Action("SendKana", cell[1].text))
      BY <1>4, <2>1 DEF s
    <3>2. T(1) = cell[1].text /\ base \in Seq(STRING) /\ T(1) \in Seq(STRING)
      <4>0. 1 \in 1..n /\ 1 - 1 = 0
        BY <2>1
      <4>1. T(1) = T(1 - 1) \o cell[1].text /\ cell[1].text \in Seq(STRING)
        BY <1>1, <1>2, <4>0
      <4>2. T(1) = <<>> \o cell[1].text
        BY <1>1, <4>0, <4>1
      <4>3. T(1) = cell[1].text
        BY <4>1, <4>2, ConcatEmptySeq
      <4>. QED  BY <1>6, <2>0, <4>1, <4>3, NoElements
    <3>3. s.converting => base \o T(1) = cell[1].text
      BY <3>2, ConcatEmptySeq
    <3>4. ~s.converting => base = s.text
      OBVIOUS
    <3>5. replies[m + 1] = expected(1)
      BY <1>5, <1>6, <2>0, <3>1, <3>2, <3>3, <3>4
    <3>. QED  BY <2>0, <2>1, <3>5
  <2>2. CASE j # 1
    <3>1. j - 1 \in 1..n /\ j - 1 # 0 /\ (m + j) - 1 = m + (j - 1) /\ m + j # 1
      BY <1>1, <2>2
    <3>2. replies[m + (j - 1)] = expected(j - 1)
      BY <1>7, <3>1
    <3>3. Before(replies, m + j) = expected(j - 1)
      BY <3>1, <3>2 DEF Before
    <3>4. /\ expected(j - 1).text = base \o T(j - 1)
          /\ ~expected(j - 1).converting
      BY DEF Reply
    <3>5. replies[m + j] = Reply((base \o T(j - 1)) \o cell[j].text, FALSE, <<>>, TRUE)
      <4>1. replies[m + j] = Served(expected(j - 1), Action("SendKana", cell[j].text))
        BY <1>4, <3>3
      <4>. HIDE DEF expected, P
      <4>. QED  BY <1>5, <3>4, <4>1
    <3>6. (base \o T(j - 1)) \o cell[j].text = base \o T(j)
      <4>1. base \in Seq(STRING)
        BY <1>6, <2>0, NoElements
      <4>2. j - 1 \in 0..n
        BY <1>1
      <4>3. T(j - 1) \in Seq(STRING) /\ cell[j].text \in Seq(STRING)
        BY <1>1, <1>2, <4>2
      <4>. HIDE DEF base
      <4>4. (base \o T(j - 1)) \o cell[j].text = base \o (T(j - 1) \o cell[j].text)
        <5>1. \A a, b, c \in Seq(STRING) : (a \o b) \o c = a \o (b \o c)
          BY TextRegroup
        <5>. QED  BY <4>1, <4>3, <5>1
      <4>. QED  BY <1>2, <4>4
    <3>7. replies[m + j] = expected(j)
      BY <2>2, <3>5, <3>6
    <3>. QED  BY <2>0, <3>7
  <2>. QED  BY <2>1, <2>2
<1>8. \A j \in 1..n : replies[m + j] = expected(j)
  <2>1. 0 \in P
    BY <1>1
  <2>2. \A j \in 0..n : j \in P
    <3>. HIDE DEF P
    <3>. QED  BY <1>1, <1>7, <2>1, UpTo
  <2>3. \A j \in 1..n : j \in 0..n /\ j # 0
    BY <1>1
  <2>. QED  BY <2>2, <2>3
<1>. QED  BY <1>8 DEF replies, s, n, T

(* Each BackSpace of a rewrite erases one character, as long as there is   *)
(* one and nothing is being converted.                                     *)
LEMMA BackspaceReplies ==
  ASSUME session \in Sessions, NEW m \in Nat, NEW cell \in Seq(Token), KanaCell(cell),
         m <= Len(session.text), session.converting => m = 0
  PROVE  \A i \in 1..m :
           Replies(Rewrite(m, cell))[i] =
             Reply(SubSeq(session.text, 1, Len(session.text) - i), FALSE, <<>>, TRUE)
<1>. DEFINE w == Rewrite(m, cell)
            replies == Replies(w)
            text == session.text
            expected(i) == Reply(SubSeq(text, 1, Len(text) - i), FALSE, <<>>, TRUE)
<1>1. text \in Seq(STRING) /\ Len(text) \in Nat /\ m <= Len(text) /\ (session.converting => m = 0)
  BY DEF Sessions
<1>2. w \in Seq(Actions) /\ Len(w) = m + Len(cell) /\ (\A i \in DOMAIN w : HasOp(w[i]))
      /\ (\A i \in 1..m : w[i] = Action("Backspace", <<>>)) /\ Len(cell) \in Nat
  <2>1. Len(cell) \in Nat
    OBVIOUS
  <2>2. \A i \in 1..m : w[i] = Action("Backspace", <<>>)
    BY RewriteIs
  <2>3. w \in Seq(Actions) /\ Len(w) = m + Len(cell) /\ (\A i \in DOMAIN w : HasOp(w[i]))
    BY RewriteIs
  <2>. QED  BY <2>1, <2>2, <2>3
<1>. HIDE DEF w
<1>3. \A i \in 1..Len(w) : replies[i] = Served(Before(replies, i), w[i])
  BY <1>2, RepliesAre DEF Before
<1>. HIDE DEF replies, text
<1>4. ASSUME NEW i \in 1..m
      PROVE  replies[i] = BackspaceKey(Before(replies, i))
  <2>1. i \in 1..Len(w) /\ w[i] = Action("Backspace", <<>>)
    BY <1>2
  <2>2. replies[i] = Served(Before(replies, i), w[i]) /\ w[i].act = "Backspace"
    BY <1>3, <2>1 DEF Action
  <2>. QED  BY <2>2 DEF Served
<1>5. ASSUME NEW s, NEW i \in 1..m, s.text = SubSeq(text, 1, Len(text) - (i - 1)), ~s.converting
      PROVE  BackspaceKey(s) = expected(i)
  <2>1. s.text \in Seq(STRING) /\ Len(s.text) = Len(text) - (i - 1) /\ Len(s.text) # 0
    BY <1>1, <1>5
  <2>2. s.text # <<>>
    BY <2>1
  <2>3. Front(s.text) = SubSeq(text, 1, Len(text) - i)
    <3>1. Len(s.text) - 1 = Len(text) - i /\ Len(text) - i \in 0..(Len(text) - (i - 1))
          /\ Len(text) - (i - 1) \in 0..Len(text)
      BY <1>1, <2>1
    <3>2. SubSeq(s.text, 1, Len(text) - i) = SubSeq(text, 1, Len(text) - i)
      BY <1>1, <1>5, <3>1
    <3>. QED  BY <3>1, <3>2 DEF Front
  <2>4. BackspaceKey(s) = Reply(Front(s.text), FALSE, <<>>, TRUE)
    BY <1>5, <2>2 DEF BackspaceKey
  <2>. QED  BY <2>3, <2>4
<1>. DEFINE P == {i \in 0..m : i = 0 \/ replies[i] = expected(i)}
<1>6. ASSUME NEW i \in 1..m, i - 1 \in P  PROVE i \in P
  <2>0. i \in 0..m /\ m # 0
    BY <1>1
  <2>1. /\ Before(replies, i).text = SubSeq(text, 1, Len(text) - (i - 1))
        /\ ~Before(replies, i).converting
    <3>1. CASE i = 1
      <4>1. SubSeq(text, 1, Len(text) - (1 - 1)) = text
        BY <1>1
      <4>. QED  BY <1>1, <2>0, <3>1, <4>1 DEF Before, text
    <3>2. CASE i # 1
      <4>1. i - 1 # 0
        BY <3>2
      <4>2. Before(replies, i) = expected(i - 1)
        BY <1>6, <3>2, <4>1 DEF Before
      <4>. QED  BY <4>2 DEF Reply
    <3>. QED  BY <3>1, <3>2
  <2>. HIDE DEF expected
  <2>2. replies[i] = expected(i)
    BY <1>4, <1>5, <2>1
  <2>. QED  BY <2>0, <2>2
<1>7. \A i \in 1..m : replies[i] = expected(i)
  <2>1. 0 \in P
    OBVIOUS
  <2>2. \A i \in 0..m : i \in P
    <3>. HIDE DEF P
    <3>. QED  BY <1>6, <2>1, UpTo
  <2>3. \A i \in 1..m : i \in 0..m /\ i # 0
    OBVIOUS
  <2>. QED  BY <2>2, <2>3
<1>. QED  BY <1>7 DEF replies, w, text

(* The session the kana of a rewrite find, when there are enough           *)
(* characters for its BackSpaces.                                          *)
LEMMA ErasedTo ==
  ASSUME session \in Sessions, NEW m \in Nat, NEW cell \in Seq(Token), KanaCell(cell),
         m <= Len(session.text), session.converting => m = 0
  PROVE  LET s == Before(Replies(Rewrite(m, cell)), m + 1) IN
         /\ s.text = SubSeq(session.text, 1, Len(session.text) - m)
         /\ s.converting = session.converting
<1>1. session.text \in Seq(STRING) /\ Len(session.text) \in Nat /\ session.converting \in BOOLEAN
  BY DEF Sessions
<1>2. CASE m = 0
  <2>1. SubSeq(session.text, 1, Len(session.text) - 0) = session.text
    BY <1>1
  <2>. QED  BY <1>2, <2>1 DEF Before
<1>3. CASE m # 0
  <2>1. m \in 1..m /\ m + 1 # 1 /\ (m + 1) - 1 = m
    BY <1>3
  <2>2. Replies(Rewrite(m, cell))[m] =
          Reply(SubSeq(session.text, 1, Len(session.text) - m), FALSE, <<>>, TRUE)
    BY <2>1, BackspaceReplies
  <2>3. session.converting = FALSE
    BY <1>1, <1>3
  <2>4. Before(Replies(Rewrite(m, cell)), m + 1) = Replies(Rewrite(m, cell))[m]
    BY <2>1 DEF Before
  <2>. DEFINE s == Before(Replies(Rewrite(m, cell)), m + 1)
              text == SubSeq(session.text, 1, Len(session.text) - m)
  <2>5. s = Reply(text, FALSE, <<>>, TRUE)
    BY <2>2, <2>4
  <2>. HIDE DEF s, text
  <2>6. s.text = text /\ s.converting = session.converting
    BY <2>3, <2>5 DEF Reply
  <2>. QED  BY <2>6 DEF s, text
<1>. QED  BY <1>2, <1>3

-----------------------------------------------------------------------------
(* A batch that Mozc takes: nothing is passed through, nothing is cleared. *)

(* What an action that Mozc takes without converting leaves. *)
Swallowed(x, r, o) ==
  /\ x.replies = Tail(r.replies)
  /\ x.mode = "Composition"
  /\ x.commit = r.commit \o o.result
  /\ x.cleared = r.cleared
  /\ x.passthrough = r.passthrough
  /\ x.forward = r.forward
  /\ x.consumed = TRUE

(* A kana or BackSpace Mozc takes in its composition does just that.       *)
LEMMA SwallowedIs ==
  ASSUME NEW r \in LoopState, NEW a \in Actions, a.act \in {"SendKana", "Backspace"},
         r.replies # <<>>, r.replies[1].consumed, ~r.replies[1].converting
  PROVE  Swallowed(Handled(r, a), r, r.replies[1])
<1>. DEFINE o == r.replies[1]
            applied == [r EXCEPT !.replies = Tail(r.replies), !.preedit = o.text,
                                 !.candidates = <<>>, !.commit = r.commit \o o.result,
                                 !.mode = "Composition", !.cleared = r.cleared]
<1>1. r.replies \in Seq(Replied) /\ r.cleared \in BOOLEAN
  BY DEF LoopState
<1>2. Head(r.replies) = o /\ o \in Replied
  BY <1>1
<1>3. o.converting = FALSE /\ (r.cleared \/ (o.converting /\ r.mode # "Conversion")) = r.cleared
  BY <1>1, <1>2 DEF Replied
<1>4. Applied(r) = applied
  BY <1>2, <1>3 DEF Applied
<1>. DEFINE tail == Tail(r.replies)
            commit == r.commit \o o.result
<1>5. Handled(r, a) = [applied EXCEPT !.consumed = TRUE]
  <2>1. Head(r.replies).consumed
    BY <1>2
  <2>. HIDE DEF applied, o
  <2>. QED  BY <1>4, <2>1 DEF Handled
<1>6. Swallowed([applied EXCEPT !.consumed = TRUE], r, o)
  BY DEF LoopState, Swallowed
<1>. QED  BY <1>5, <1>6

(* A batch of kana and BackSpaces, all of them taken, and of which only    *)
(* the first may commit something: that is all the application gets.       *)
LEMMA SwallowedBatch ==
  ASSUME EngineTypeOK, out # <<>>, NEW replies \in Seq(Replied), Len(replies) = Len(out),
         \A i \in 1..Len(out) :
           /\ out[i].act \in {"SendKana", "Backspace"}
           /\ replies[i].consumed /\ ~replies[i].converting
           /\ i # 1 => replies[i].result = <<>>
  PROVE  LET r == Dispatched(replies, TRUE)
         IN  /\ r.mode = "Composition" /\ r.cleared = FALSE
             /\ r.commit = replies[1].result /\ r.passthrough = <<>> /\ r.forward = <<>>
             /\ r.consumed = TRUE
<1>. DEFINE n == Len(out)
<1>1. /\ out \in Seq(Actions) /\ preedit \in Seq(STRING) /\ candidates \in Seq(STRING)
      /\ mozcMode \in Modes
  BY DEF EngineTypeOK, TypeOK, Modes
<1>2. PICK done \in [0..n -> LoopState] :
        Loop(done, replies, TRUE) /\ Dispatched(replies, TRUE) = done[n]
  BY <1>1, DispatchedIs
<1>3. /\ n \in Nat /\ n # 0 /\ Len(replies) = n
      /\ done[0] = Undispatched(replies, TRUE)
      /\ \A i \in 1..n : /\ out[i] \in Actions /\ done[i] = Handled(done[i - 1], out[i])
                         /\ out[i].act \in {"SendKana", "Backspace"}
                         /\ replies[i].consumed /\ ~replies[i].converting
                         /\ i # 1 => replies[i].result = <<>>
  BY <1>1, <1>2 DEF Loop
<1>4. replies[1].result \in Seq(STRING) /\ \A i \in 1..n : replies[i] \in Replied
  <2>1. \A i \in 1..n : replies[i] \in Replied
    BY <1>3
  <2>2. 1 \in 1..n
    BY <1>3
  <2>. QED  BY <2>1, <2>2 DEF Replied
<1>. HIDE DEF n
<1>5. \A i \in 1..n : LET s == SubSeq(replies, i, n) IN
        s # <<>> /\ s[1] = replies[i] /\ Tail(s) = SubSeq(replies, i + 1, n)
  <2>1. SUFFICES ASSUME NEW i \in 1..n
                 PROVE  LET s == SubSeq(replies, i, n) IN
                        s # <<>> /\ s[1] = replies[i] /\ Tail(s) = SubSeq(replies, i + 1, n)
    OBVIOUS
  <2>. DEFINE s == SubSeq(replies, i, n)
  <2>2. /\ s \in Seq(Replied) /\ Len(s) = n - i + 1
        /\ s[1] = replies[i] /\ Tail(s) = SubSeq(replies, i + 1, n)
    BY <1>3
  <2>3. s # <<>>
    <3>. HIDE DEF s
    <3>1. Len(s) # 0
      BY <1>3, <2>2
    <3>. QED  BY <2>2, <3>1
  <2>. QED  BY <2>2, <2>3
<1>. DEFINE Quiet(r, i) ==
              /\ r.replies = SubSeq(replies, i + 1, n)
              /\ r.cleared = FALSE
              /\ r.commit = IF i = 0 THEN <<>> ELSE replies[1].result
              /\ r.passthrough = <<>> /\ r.forward = <<>>
              /\ i # 0 => r.mode = "Composition" /\ r.consumed = TRUE
            P == {i \in 0..n : Quiet(done[i], i)}
<1>6. 0 \in P
  <2>1. SubSeq(replies, 0 + 1, n) = replies
    BY <1>3
  <2>. QED  BY <1>3, <2>1 DEF Undispatched
<1>7. ASSUME NEW i \in 1..n, i - 1 \in P  PROVE i \in P
  <2>1. /\ i \in 0..n /\ i - 1 \in 0..n /\ (i - 1) + 1 = i /\ i # 0
    BY <1>3
  <2>2. done[i - 1] \in LoopState /\ done[i - 1].replies = SubSeq(replies, i, n)
    BY <1>7, <2>1
  <2>3. Swallowed(done[i], done[i - 1], replies[i])
    <3>1. done[i - 1].replies # <<>> /\ done[i - 1].replies[1] = replies[i]
      BY <1>5, <2>2
    <3>. QED  BY <1>3, <2>2, <3>1, SwallowedIs
  <2>4. done[i].replies = SubSeq(replies, i + 1, n)
    BY <1>5, <2>2, <2>3 DEF Swallowed
  <2>5. done[i].commit = replies[1].result
    <3>1. CASE i = 1
      <4>0. i - 1 = 0
        BY <3>1
      <4>2. done[i - 1].commit = <<>>
        BY <1>7, <4>0
      <4>1. done[i].commit = <<>> \o replies[1].result
        <5>. HIDE DEF P, Quiet
        <5>. QED  BY <2>3, <3>1, <4>2 DEF Swallowed
      <4>. QED  BY <1>4, <4>1, ConcatEmptySeq
    <3>2. CASE i # 1
      <4>1. i - 1 # 0
        BY <3>2
      <4>2. done[i].commit = replies[1].result \o <<>>
        BY <1>3, <1>7, <2>3, <3>2, <4>1 DEF Swallowed
      <4>. QED  BY <1>4, <4>2, ConcatEmptySeq
    <3>. QED  BY <3>1, <3>2
  <2>6. /\ done[i].cleared = FALSE /\ done[i].passthrough = <<>> /\ done[i].forward = <<>>
        /\ done[i].mode = "Composition" /\ done[i].consumed = TRUE
    BY <1>7, <2>3 DEF Swallowed
  <2>. QED  BY <2>1, <2>4, <2>5, <2>6
<1>8. Quiet(done[n], n)
  <2>1. \A i \in 0..n : i \in P
    <3>. HIDE DEF P
    <3>. QED  BY <1>3, <1>6, <1>7, UpTo
  <2>2. n \in 0..n
    BY <1>3
  <2>. QED  BY <2>1, <2>2
<1>. QED  BY <1>2, <1>3, <1>8

(* Where a rewrite lands: in place of the last m characters of the text    *)
(* being composed; or, while Mozc converts, in a composition of its own,   *)
(* after the text that was being converted.                                *)
LEMMA RewriteLands ==
  ASSUME EngineTypeOK, DispatchAnswered,
         NEW cell \in Seq(Token), KanaCell(cell),
         NEW p \in Seq(STRING), NEW v \in Seq(STRING),
         session.text = p \o v, session.converting => v = <<>>,
         out = Rewrite(Len(v), cell)
  PROVE  /\ session'.text = (IF session.converting THEN <<>> ELSE p) \o CellText(cell)
         /\ session'.converting = FALSE
         /\ app' = app \o (IF session.converting THEN p ELSE <<>>)
         /\ mozcMode' = "Composition"
         /\ tentative' = tentative
<1>. DEFINE m == Len(v)
            k == Len(cell)
            n == Len(out)
            replies == Replies(out)
            base == IF session.converting THEN <<>> ELSE p
            flushed == IF session.converting THEN p ELSE <<>>
            T(j) == CellText(SubSeq(cell, 1, j))
<1>1. /\ session \in Sessions /\ out \in Seq(Actions) /\ app \in Seq(Names)
      /\ session.text \in Seq(STRING) /\ session.converting \in BOOLEAN
  BY DEF EngineTypeOK, Sessions
<1>2. m \in Nat /\ k \in Nat
  OBVIOUS
<1>3. /\ Len(session.text) = Len(p) + m /\ m <= Len(session.text)
      /\ Len(session.text) - m = Len(p)
      /\ SubSeq(session.text, 1, Len(p)) = p
  <2>1. Len(p) \in Nat /\ Len(p \o v) = Len(p) + m
    OBVIOUS
  <2>2. SubSeq(p \o v, 1, Len(p)) = p
    OBVIOUS
  <2>3. m \in Nat /\ session.text = p \o v
    OBVIOUS
  <2>. HIDE DEF m
  <2>. QED  BY <2>1, <2>2, <2>3
<1>4. session.converting => m = 0 /\ session.text = p
  <2>1. session.converting => session.text = p \o <<>>
    OBVIOUS
  <2>. QED  BY <2>1, ConcatEmptySeq
<1>5. /\ n = m + k /\ n \in Nat /\ n # 0 /\ Ops = out /\ Ops # <<>>
      /\ \A i \in 1..m : out[i] = Action("Backspace", <<>>)
      /\ \A j \in 1..k : out[m + j] = Action("SendKana", cell[j].text)
      /\ \A i \in DOMAIN out : HasOp(out[i])
  <2>1. n = m + k
    BY RewriteIs
  <2>. DEFINE w == Rewrite(m, cell)
  <2>0. out = w
    OBVIOUS
  <2>7. \A i \in 1..m : w[i] = Action("Backspace", <<>>)
    BY <1>2, RewriteIs
  <2>8. \A j \in 1..k : w[m + j] = Action("SendKana", cell[j].text)
    BY <1>2, RewriteIs
  <2>. HIDE DEF w, m, k
  <2>2. \A i \in 1..m : out[i] = Action("Backspace", <<>>)
    BY <2>0, <2>7
  <2>3. \A j \in 1..k : out[m + j] = Action("SendKana", cell[j].text)
    BY <2>0, <2>8
  <2>4. (\A i \in DOMAIN out : HasOp(out[i])) /\ Ops = out
    BY RewriteIs, RewriteOps
  <2>5. Ops # <<>>
    BY DEF DispatchAnswered
  <2>6. n # 0
    BY <1>1, <2>4, <2>5
  <2>9. n = m + k => n \in Nat
    BY <1>2
  <2>. HIDE DEF n
  <2>. QED  BY <2>1, <2>2, <2>3, <2>4, <2>5, <2>6, <2>9
<1>6. /\ replies \in Seq(Replied) /\ Len(replies) = n
      /\ \A i \in 1..n : replies[i] = Served(Before(replies, i), out[i])
  BY <1>1, <1>5, RepliesAre DEF Before
<1>7. \A i \in 1..m :
        replies[i] = Reply(SubSeq(session.text, 1, Len(session.text) - i), FALSE, <<>>, TRUE)
  BY <1>1, <1>2, <1>3, <1>4, BackspaceReplies
<1>8. /\ Before(replies, m + 1).text = p
      /\ Before(replies, m + 1).converting = session.converting
  BY <1>1, <1>2, <1>3, <1>4, ErasedTo
<1>9. \A j \in 1..k :
        replies[m + j] = Reply(base \o T(j), FALSE,
                               IF session.converting /\ j = 1 THEN p ELSE <<>>, TRUE)
  <2>. DEFINE s == Before(replies, m + 1)
  <2>1. \A j \in 1..k :
          replies[m + j] = Reply((IF s.converting THEN <<>> ELSE s.text) \o T(j), FALSE,
                                 IF s.converting /\ j = 1 THEN s.text ELSE <<>>, TRUE)
    BY <1>1, <1>2, KanaReplies
  <2>. HIDE DEF s, replies, T, k, m
  <2>2. s.text = p /\ s.converting = session.converting
    BY <1>8 DEF s
  <2>. QED  BY <2>1, <2>2
<1>. HIDE DEF m, k, n, replies, T
<1>18. \A i \in 1..m : /\ replies[i].result = <<>> /\ ~replies[i].converting
                      /\ replies[i].consumed
  <2>1. ASSUME NEW i \in 1..m
        PROVE  /\ replies[i].result = <<>> /\ ~replies[i].converting
               /\ replies[i].consumed
    <3>. DEFINE text == SubSeq(session.text, 1, Len(session.text) - i)
    <3>1. replies[i] = Reply(text, FALSE, <<>>, TRUE)
      BY <1>7
    <3>. HIDE DEF text
    <3>. QED  BY <3>1 DEF Reply
  <2>. QED  BY <2>1
<1>10. \A i \in 1..n : /\ out[i].act \in {"SendKana", "Backspace"}
                       /\ replies[i].consumed /\ ~replies[i].converting
                       /\ i # 1 => replies[i].result = <<>>
  <2>1. ASSUME NEW i \in 1..n
        PROVE  /\ out[i].act \in {"SendKana", "Backspace"}
               /\ replies[i].consumed /\ ~replies[i].converting
               /\ i # 1 => replies[i].result = <<>>
    <3>1. CASE i <= m
      <4>1. i \in 1..m
        BY <3>1
      <4>2. out[i] = Action("Backspace", <<>>)
        BY <1>5, <4>1
      <4>3. out[i].act = "Backspace"
        BY <4>2 DEF Action
      <4>. QED  BY <1>18, <4>1, <4>3
    <3>2. CASE ~(i <= m)
      <4>. DEFINE j == i - m
      <4>1. j \in 1..k /\ m + j = i /\ (j = 1 /\ session.converting => i = 1)
        BY <1>2, <1>4, <1>5, <3>2
      <4>. HIDE DEF j
      <4>2. out[i] = Action("SendKana", cell[j].text)
        BY <1>5, <4>1
      <4>3. replies[i] = Reply(base \o T(j), FALSE,
                               IF session.converting /\ j = 1 THEN p ELSE <<>>, TRUE)
        BY <1>9, <4>1
      <4>. QED  BY <4>1, <4>2, <4>3 DEF Reply, Action
    <3>. QED  BY <3>1, <3>2
  <2>. QED  BY <2>1
<1>11. replies[1].result = flushed
  <2>1. CASE m = 0
    <3>1. 1 \in 1..k /\ m + 1 = 1
      BY <1>2, <1>5, <2>1
    <3>2. replies[1] = Reply(base \o T(1), FALSE,
                             IF session.converting /\ 1 = 1 THEN p ELSE <<>>, TRUE)
      BY <1>9, <3>1
    <3>. QED  BY <3>2 DEF Reply
  <2>2. CASE m # 0
    <3>1. 1 \in 1..m
      BY <1>2, <2>2
    <3>2. replies[1].result = <<>>
      BY <1>18, <3>1
    <3>. QED  BY <1>4, <2>2, <3>2
  <2>. QED  BY <2>1, <2>2
<1>12. replies[n].text = base \o CellText(cell) /\ replies[n].converting = FALSE
  <2>1. CASE k = 0
    <3>1. n \in 1..m /\ ~session.converting /\ n = m
      BY <1>2, <1>4, <1>5, <2>1
    <3>2. replies[n] = Reply(SubSeq(session.text, 1, Len(session.text) - m), FALSE, <<>>, TRUE)
      BY <1>7, <3>1
    <3>3. SubSeq(session.text, 1, Len(session.text) - m) = p
      BY <1>3
    <3>4. CellText(cell) = <<>>
      <4>1. Len(cell) = 0
        BY <2>1 DEF k
      <4>2. CellText(SubSeq(cell, 1, 0)) = <<>> /\ CellText(SubSeq(cell, 1, Len(cell))) = CellText(cell)
        BY CellTextStep
      <4>. QED  BY <4>1, <4>2
    <3>5. p \o <<>> = p
      BY ConcatEmptySeq
    <3>. QED  BY <3>1, <3>2, <3>3, <3>4, <3>5 DEF Reply
  <2>2. CASE k # 0
    <3>1. k \in 1..k /\ m + k = n
      BY <1>2, <1>5, <2>2
    <3>2. T(k) = CellText(cell)
      BY CellTextStep DEF T, k
    <3>3. replies[n] = Reply(base \o T(k), FALSE,
                             IF session.converting /\ k = 1 THEN p ELSE <<>>, TRUE)
      BY <1>9, <3>1
    <3>. QED  BY <3>2, <3>3 DEF Reply
  <2>. QED  BY <2>1, <2>2
<1>13. session' = [text |-> replies[n].text, converting |-> replies[n].converting]
  BY <1>5, <1>6 DEF DispatchAnswered, Last, replies
<1>. DEFINE r == Dispatched(replies, TRUE)
<1>14. /\ r.mode = "Composition" /\ r.cleared = FALSE
       /\ r.commit = replies[1].result /\ r.passthrough = <<>> /\ r.forward = <<>>
       /\ r.consumed = TRUE
  <2>1. out # <<>>
    BY <1>5
  <2>. QED  BY <1>6, <1>10, <2>1, SwallowedBatch DEF n
<1>15. Finish(replies, TRUE)
  BY <1>5 DEF DispatchAnswered, replies
<1>. HIDE DEF r
<1>16. app' = Shown(r) /\ mozcMode' = r.mode /\ tentative' = tentative
  BY <1>14, <1>15 DEF Finish, r
<1>17. Shown(r) = app \o r.commit
  BY <1>14 DEF Shown, AppKeys
<1>. QED  BY <1>11, <1>12, <1>13, <1>14, <1>16, <1>17

-----------------------------------------------------------------------------
(* A call that leaves the tentative characters alone.                      *)

(* Without replies the loop leaves the mode and the buffers of the state   *)
(* machine as they were.                                                   *)
LEMMA NothingCleared ==
  ASSUME EngineTypeOK, NEW alive \in BOOLEAN
  PROVE  /\ Dispatched(<<>>, alive).cleared = FALSE
         /\ Dispatched(<<>>, alive).mode = mozcMode
<1>. DEFINE n == Len(out)
<1>1. /\ out \in Seq(Actions) /\ preedit \in Seq(STRING) /\ candidates \in Seq(STRING)
      /\ mozcMode \in Modes /\ <<>> \in Seq(Replied)
  BY NoElements DEF EngineTypeOK, TypeOK, Modes
<1>2. PICK done \in [0..n -> LoopState] :
        Loop(done, <<>>, alive) /\ Dispatched(<<>>, alive) = done[n]
  BY <1>1, DispatchedIs
<1>3. n \in Nat /\ \A i \in 1..n : out[i] \in Actions /\ done[i] = Handled(done[i - 1], out[i])
  BY <1>1, <1>2 DEF Loop
<1>. HIDE DEF n
<1>. DEFINE Kept(r) == r.replies = <<>> /\ r.cleared = FALSE /\ r.mode = mozcMode
            P == {i \in 0..n : Kept(done[i])}
<1>4. 0 \in P
  BY <1>2, <1>3 DEF Loop, Undispatched
<1>5. ASSUME NEW i \in 1..n, i - 1 \in P  PROVE i \in P
  <2>1. i \in 0..n /\ i - 1 \in 0..n
    BY <1>3
  <2>2. done[i - 1] \in LoopState /\ Kept(done[i - 1])
    BY <1>2, <1>5, <2>1
  <2>3. ASSUME NEW r \in LoopState, NEW a \in Actions, Kept(r)  PROVE Kept(Handled(r, a))
    BY <2>3 DEF Handled, LoopState
  <2>. HIDE DEF Kept
  <2>4. Kept(done[i])
    BY <1>3, <2>2, <2>3
  <2>. QED  BY <2>1, <2>4
<1>6. \A i \in 0..n : i \in P
  <2>. HIDE DEF P
  <2>. QED  BY <1>3, <1>4, <1>5, UpTo
<1>7. n \in 0..n
  BY <1>3
<1>. QED  BY <1>2, <1>6, <1>7

(* So a batch without ops leaves them, and the session, alone. *)
LEMMA AloneKeeps ==
  ASSUME EngineTypeOK, DispatchAlone
  PROVE  UNCHANGED <<mozc, session, failures, mozcMode, tentative>>
<1>1. Finish(<<>>, FALSE) /\ UNCHANGED <<mozc, session, failures>>
  BY DEF DispatchAlone, link
<1>2. mozcMode' = mozcMode /\ tentative' = tentative
  BY <1>1, NothingCleared DEF Finish
<1>. QED  BY <1>1, <1>2

(* A key that does not disturb what is being composed: it goes to the      *)
(* application, or to Mozc, which moves the cursor or converts.            *)
QuietKeys == MOZC_CONTROL_KEYS \ {"Return", "Escape"}
Quiet(a) == \/ a.act = "Passthrough"
            \/ /\ a.act \in {"SendFunctionKey", "SendModifiedKey"}
               /\ \E k \in QuietKeys : a.text = <<k>>

(* Mozc's answer to one. *)
LEMMA QuietReply ==
  ASSUME session \in Sessions, ~session.converting, NEW k \in QuietKeys
  PROVE  LET o == FunctionKey(session, <<k>>) IN
         /\ o.text = session.text
         /\ session.text # <<>> => o.consumed /\ o.result = <<>>
<1>1. k \notin BackspaceKeys /\ k # "Return" /\ k # "Escape"
  BY DEF QuietKeys, MOZC_CONTROL_KEYS, BackspaceKeys
<1>2. <<k>>[1] = k
  OBVIOUS
<1>. QED  BY <1>1, <1>2 DEF FunctionKey, Reply

(* A batch of one op is answered by one reply, which the loop handles. *)
LEMMA OneReply ==
  ASSUME EngineTypeOK, DispatchAnswered, NEW a \in Actions, out = <<a>>
  PROVE  LET o == Served(session, a) IN
         /\ HasOp(a) /\ o \in Replied
         /\ session' = [text |-> o.text, converting |-> o.converting]
         /\ Dispatched(<<o>>, TRUE) = Handled(Undispatched(<<o>>, TRUE), a)
         /\ Finish(<<o>>, TRUE)
<1>. DEFINE o == Served(session, a)
            replies == Replies(Ops)
            u == Undispatched(replies, TRUE)
            r == Dispatched(replies, TRUE)
<1>1. /\ session \in Sessions /\ out \in Seq(Actions) /\ preedit \in Seq(STRING)
      /\ candidates \in Seq(STRING) /\ mozcMode \in Modes
  BY DEF EngineTypeOK, TypeOK, Modes
<1>2. /\ Ops \in Seq(Actions) /\ (\A i \in DOMAIN Ops : HasOp(Ops[i])) /\ Ops # <<>>
      /\ HasOp(a)
  <2>1. /\ Ops \in Seq(Actions) /\ (\A i \in DOMAIN Ops : HasOp(Ops[i])) /\ Ops # <<>>
    BY <1>1, OpsType DEF DispatchAnswered
  <2>2. \A i \in DOMAIN out : out[i] = a
    OBVIOUS
  <2>3. ASSUME ~HasOp(a)  PROVE FALSE
    <3>1. {i \in DOMAIN out : HasOp(out[i])} = {}
      BY <2>2, <2>3
    <3>. QED  BY <2>1, <3>1, RetainedNone DEF Ops
  <2>. QED  BY <2>1, <2>3
<1>3. Ops = <<a>>
  <2>1. {i \in DOMAIN out : HasOp(out[i])} = DOMAIN out
    BY <1>2
  <2>. QED  BY <1>1, <2>1, RetainedAll DEF Ops
<1>4. replies \in Seq(Replied) /\ replies = <<o>> /\ o \in Replied
  <2>1. /\ replies \in Seq(Replied) /\ Len(replies) = Len(Ops)
        /\ \A i \in 1..Len(Ops) :
             replies[i] = Served(IF i = 1 THEN session ELSE replies[i - 1], Ops[i])
    BY <1>1, <1>2, RepliesAre
  <2>2. Len(Ops) = 1
    BY <1>3
  <2>. HIDE DEF replies
  <2>3. replies[1] = o
    BY <1>3, <2>1, <2>2
  <2>. HIDE DEF o
  <2>4. replies[1] \in Replied /\ Len(replies) = 1
    BY <2>1, <2>2
  <2>5. <<o>> \in Seq(Replied) /\ Len(<<o>>) = 1 /\ <<o>>[1] = o
    BY <2>3, <2>4
  <2>6. replies = <<o>>
    BY <2>1, <2>3, <2>4, <2>5, SeqEqual
  <2>. QED  BY <2>1, <2>3, <2>4, <2>6
<1>5. Finish(replies, TRUE)
  BY DEF DispatchAnswered
<1>6. session' = [text |-> o.text, converting |-> o.converting]
  <2>1. session' = [text |-> Last(replies).text, converting |-> Last(replies).converting]
    BY DEF DispatchAnswered
  <2>. HIDE DEF replies, o
  <2>2. Last(replies) = o
    BY <1>4 DEF Last
  <2>. QED  BY <2>1, <2>2
<1>7. r = Handled(u, a)
  <2>1. PICK done \in [0..Len(out) -> LoopState] :
          Loop(done, replies, TRUE) /\ r = done[Len(out)]
    <3>. HIDE DEF replies
    <3>. QED  BY <1>1, <1>4, DispatchedIs
  <2>2. Len(out) = 1 /\ out[1] = a /\ 1 - 1 = 0
    OBVIOUS
  <2>. HIDE DEF u, r, replies
  <2>3. done[1] = Handled(done[1 - 1], out[1]) /\ done[0] = u
    BY <2>1, <2>2 DEF Loop, u
  <2>. QED  BY <2>1, <2>2, <2>3
<1>. HIDE DEF replies, o
<1>. QED  BY <1>2, <1>4, <1>5, <1>6, <1>7 DEF o

(* The tentative characters and the text they end stay, or the text is     *)
(* converted and they are dropped.  The application gets nothing, unless   *)
(* there is nothing to convert.                                            *)
LEMMA QuietLands ==
  ASSUME EngineTypeOK, DispatchAnswered, NEW a \in Actions, Quiet(a), out = <<a>>,
         ~session.converting, mozcMode = "Composition"
  PROVE  /\ \/ tentative' = <<>>
            \/ /\ tentative' = tentative /\ session'.text = session.text
               /\ ~session'.converting /\ mozcMode' = "Composition"
         /\ tentative' # <<>> /\ session.text # <<>> => app' = app
<1>. DEFINE o == Served(session, a)
            replies == <<o>>
            u == Undispatched(replies, TRUE)
            s == Applied(u)
            r == Dispatched(replies, TRUE)
<1>1. session \in Sessions
  BY DEF EngineTypeOK
<1>2. /\ HasOp(a) /\ o \in Replied
      /\ session' = [text |-> o.text, converting |-> o.converting]
      /\ r = Handled(u, a)
      /\ Finish(replies, TRUE)
  BY OneReply
<1>3. PICK k \in QuietKeys : a.text = <<k>> /\ a.act \in {"SendFunctionKey", "SendModifiedKey"}
  BY <1>2 DEF Quiet, HasOp
<1>4. o.text = session.text /\ (session.text # <<>> => o.consumed /\ o.result = <<>>)
  <2>1. o = FunctionKey(session, a.text)
    BY <1>3 DEF Served
  <2>. QED  BY <1>1, <1>3, <2>1, QuietReply
<1>5. o \in Replied /\ replies # <<>> /\ Head(replies) = o
  BY <1>2
<1>. HIDE DEF replies, o
<1>6. /\ s.mode = IF o.converting THEN "Conversion" ELSE "Composition"
      /\ s.cleared = o.converting
      /\ s.commit = <<>> \o o.result /\ s.passthrough = <<>> /\ s.forward = <<>>
      /\ s.consumed = FALSE
  <2>1. o.converting \in BOOLEAN
    BY <1>5 DEF Replied
  <2>. QED  BY <1>5, <2>1 DEF Applied, Undispatched
<1>7. u.replies = replies
  BY DEF Undispatched
<1>. HIDE DEF u
<1>8. \/ r = [s EXCEPT !.passthrough = Fallback(a)] /\ ~o.consumed
      \/ r = [s EXCEPT !.consumed = TRUE] /\ a.act = "SendFunctionKey"
      \/ r = [s EXCEPT !.forward = IF o.consumed THEN s.forward ELSE a.text, !.consumed = TRUE]
  <2>1. CASE a.act = "SendFunctionKey"
    <3>. HIDE DEF s, r
    <3>. QED  BY <1>5, <1>2, <1>7, <2>1 DEF Handled, s
  <2>2. CASE a.act = "SendModifiedKey"
    <3>. HIDE DEF s, r
    <3>. QED  BY <1>5, <1>2, <1>7, <2>2 DEF Handled, s
  <2>. QED  BY <1>3, <2>1, <2>2
<1>9. DOMAIN s = DOMAIN u /\ DOMAIN u = {"replies", "alive", "commit", "passthrough", "forward",
                                         "consumed", "preedit", "candidates", "mode", "cleared"}
  BY DEF Applied, Undispatched, u
<1>. HIDE DEF s, r
<1>10. /\ r.mode = s.mode /\ r.cleared = s.cleared
       /\ o.consumed => r.commit = s.commit /\ r.passthrough = s.passthrough
                        /\ r.forward = s.forward /\ r.consumed = TRUE
  BY <1>8, <1>9
<1>11. app' = Shown(r) /\ mozcMode' = r.mode
       /\ IF r.cleared THEN tentative' = <<>> ELSE tentative' = tentative
  BY <1>2 DEF Finish, r
<1>12. ASSUME tentative' # <<>>, session.text # <<>>  PROVE app' = app
  <2>1. o.consumed /\ r.commit = <<>> /\ r.passthrough = <<>> /\ r.forward = <<>> /\ r.consumed
    BY <1>4, <1>6, <1>10, <1>12
  <2>2. Shown(r) = app \o <<>>
    BY <2>1 DEF Shown, AppKeys
  <2>. QED  BY <1>11, <2>2, ConcatEmptySeq DEF EngineTypeOK
<1>13. tentative' # <<>> => ~o.converting /\ tentative' = tentative
  BY <1>6, <1>10, <1>11
<1>. QED  BY <1>2, <1>4, <1>6, <1>10, <1>11, <1>12, <1>13

-----------------------------------------------------------------------------
(* What a call does to the tentative buffer, and the actions it returns.   *)

(* A buffer without deferred tails and without empty characters. *)
Plain(tb) == \A i \in DOMAIN tb : tb[i].tail = <<>> /\ tb[i].kana # <<>>

(* From the buffer tb to the buffer new, returning actions: a rewrite of   *)
(* the characters after the n-th by a cell; or the same characters, and at *)
(* most a key for the application or a control key for Mozc; or none are   *)
(* left, and no kana are typed (without direct sequences: nothing, a       *)
(* BackSpace or a submit).                                                 *)
Rewritten(tb, new, actions) ==
  \E n \in 0..Len(tb), cell \in Seq(Token) :
    /\ KanaCell(cell)
    /\ actions = Rewrite(Len(TextOf(SubSeq(tb, n + 1, Len(tb)))), cell)
    /\ TextOf(new) = TextOf(SubSeq(tb, 1, n)) \o CellText(cell)
    /\ tb = <<>> /\ cell = <<>> => new = <<>>

Kept(tb, new, actions) ==
  /\ TextOf(new) = TextOf(tb)
  /\ tb = <<>> => new = <<>>
  /\ \/ actions = <<>>
     \/ \E k \in Keys : /\ actions = <<Action("Passthrough", <<k>>)>>
                        /\ NothingPassed(Layout) => new = <<>>
     \/ \E k \in Keys, act \in {"SendFunctionKey", "SendModifiedKey"} :
          k \in MOZC_CONTROL_KEYS /\ actions = <<Action(act, <<k>>)>>

Dropped(new, actions) ==
  /\ new = <<>>
  /\ \A i \in DOMAIN actions : actions[i].act # "SendKana"
  /\ NoDirects(Layout) =>
       \/ actions = <<>>
       \/ \E a \in Actions : a.act \in {"Backspace", "SubmitThenPassthrough"} /\ actions = <<a>>

Shaped(tb, new, actions) ==
  /\ Plain(new)
  /\ Rewritten(tb, new, actions) \/ Kept(tb, new, actions) \/ Dropped(new, actions)

(* A rule: the characters after the n-th are popped, a cell is pushed.     *)
LEMMA RuleShape ==
  ASSUME NEW tb \in Seq(TentativeChar), Plain(tb), NEW n \in 0..Len(tb),
         NEW cell \in Seq(Token), KanaCell(cell), NEW src \in Seq(Keys), NEW new, NEW actions,
         new = Pushed(SubSeq(tb, 1, n), cell, src),
         actions = Backspaces(tb, n) \o Outputs(cell)
  PROVE  Shaped(tb, new, actions)
<1>. DEFINE kept == SubSeq(tb, 1, n)
            more == [i \in DOMAIN cell |-> NewChar(cell[i].text, src, NoDeadline, <<>>)]
<1>1. kept \in Seq(TentativeChar) /\ \A i \in DOMAIN kept : i \in DOMAIN tb /\ kept[i] = tb[i]
  OBVIOUS
<1>2. new = kept \o more /\ TextOf(new) = TextOf(kept) \o CellText(cell)
  BY <1>1, PushedText
<1>3. Len(more) = Len(cell) /\ Len(cell) \in Nat /\ Len(kept) \in Nat
      /\ \A i \in 1..Len(cell) : more[i] = NewChar(cell[i].text, src, NoDeadline, <<>>)
  OBVIOUS
<1>4. /\ Len(new) = Len(kept) + Len(cell) /\ DOMAIN new = 1..Len(new)
      /\ \A i \in 1..Len(new) : new[i] = IF i <= Len(kept) THEN kept[i] ELSE more[i - Len(kept)]
  <2>1. more \in Seq(TentativeChar)
    <3>1. \A i \in 1..Len(cell) : cell[i].text \in Seq(STRING)
      <4>1. \A i \in 1..Len(cell) : cell[i] \in Token
        OBVIOUS
      <4>. QED  BY <4>1 DEF Token
    <3>2. <<>> \in Seq(Token) /\ NoDeadline \in Nat \cup {NoDeadline}
      BY NoElements
    <3>3. \A i \in 1..Len(cell) : NewChar(cell[i].text, src, NoDeadline, <<>>) \in TentativeChar
      BY <3>1, <3>2, NewCharType
    <3>4. DOMAIN cell = 1..Len(cell) /\ Len(cell) \in Nat
      OBVIOUS
    <3>. QED  BY <3>3, <3>4
  <2>. HIDE DEF more, kept
  <2>2. /\ kept \o more \in Seq(TentativeChar)
        /\ Len(kept \o more) = Len(kept) + Len(more)
        /\ \A i \in 1..(Len(kept) + Len(more)) :
             (kept \o more)[i] = IF i <= Len(kept) THEN kept[i] ELSE more[i - Len(kept)]
    BY <1>1, <2>1, ConcatProperties
  <2>3. DOMAIN new = 1..Len(new)
    BY <1>2, <2>2
  <2>. QED  BY <1>2, <1>3, <2>2, <2>3
<1>. HIDE DEF more, kept
<1>5. Plain(new)
  <2>1. ASSUME NEW i \in 1..Len(new)  PROVE new[i].tail = <<>> /\ new[i].kana # <<>>
    <3>1. CASE i <= Len(kept)
      <4>1. i \in DOMAIN kept /\ new[i] = kept[i]
        <5>1. i \in 1..Len(kept)
          BY <1>3, <3>1
        <5>2. DOMAIN kept = 1..Len(kept)
          BY <1>1
        <5>. QED  BY <1>4, <3>1, <5>1, <5>2
      <4>2. i \in DOMAIN tb /\ new[i] = tb[i]
        BY <1>1, <4>1
      <4>. QED  BY <4>2 DEF Plain
    <3>2. CASE ~(i <= Len(kept))
      <4>. DEFINE j == i - Len(kept)
      <4>1. j \in 1..Len(cell) /\ new[i] = more[j]
        BY <1>3, <1>4, <3>2
      <4>. HIDE DEF j
      <4>2. j \in DOMAIN cell /\ new[i] = NewChar(cell[j].text, src, NoDeadline, <<>>)
        BY <1>3, <4>1
      <4>3. cell[j].text # <<>>
        BY <4>2 DEF KanaCell
      <4>. QED  BY <4>2, <4>3 DEF NewChar
    <3>. QED  BY <3>1, <3>2
  <2>. QED  BY <1>4, <2>1 DEF Plain
<1>6. actions = Rewrite(Len(TextOf(SubSeq(tb, n + 1, Len(tb)))), cell)
  BY DEF Backspaces, Rewrite, Erasing
<1>7. tb = <<>> /\ cell = <<>> => new = <<>>
  <2>1. tb = <<>> => Len(kept) = 0
    BY DEF kept
  <2>2. cell = <<>> => Len(cell) = 0
    OBVIOUS
  <2>3. kept \o more \in Seq(TentativeChar) => (Len(new) = 0 => new = <<>>)
    BY <1>2
  <2>4. Pushed(kept, cell, src) \in Seq(TentativeChar)
    BY <1>1, PushedSeq
  <2>. QED  BY <1>2, <1>4, <2>1, <2>2, <2>3, <2>4 DEF kept
<1>. QED  BY <1>2, <1>5, <1>6, <1>7 DEF Shaped, Rewritten, kept

(* A cell typed after the buffer. *)
LEMMA EmitShape ==
  ASSUME NEW tb \in Seq(TentativeChar), Plain(tb),
         NEW cell \in Seq(Token), KanaCell(cell), NEW src \in Seq(Keys), NEW new, NEW actions,
         new = Pushed(tb, cell, src), actions = Outputs(cell)
  PROVE  Shaped(tb, new, actions)
<1>1. Len(tb) \in 0..Len(tb) /\ SubSeq(tb, 1, Len(tb)) = tb
  OBVIOUS
<1>2. Backspaces(tb, Len(tb)) = <<>>
  <2>. DEFINE rest == SubSeq(tb, Len(tb) + 1, Len(tb))
  <2>1. rest = <<>>
    OBVIOUS
  <2>. HIDE DEF rest
  <2>2. Len(TextOf(rest)) = 0
    BY <2>1, TextEmpty
  <2>. QED  BY <2>2 DEF Backspaces, rest
<1>3. <<>> \o Outputs(cell) = Outputs(cell)
  BY OutputsType, ConcatEmptySeq
<1>. QED  BY <1>1, <1>2, <1>3, RuleShape

(* The same characters, and nothing or a key. *)
LEMMA KeepShape ==
  ASSUME NEW tb \in Seq(TentativeChar), Plain(tb), NEW k \in Keys, NEW actions,
         \/ actions = <<>>
         \/ actions = <<Action("Passthrough", <<k>>)>> /\ (NothingPassed(Layout) => tb = <<>>)
         \/ /\ \E act \in {"SendFunctionKey", "SendModifiedKey"} : actions = <<Action(act, <<k>>)>>
            /\ k \in MOZC_CONTROL_KEYS
  PROVE  /\ Shaped(tb, tb, actions)
         /\ Shaped(tb, Confirmed(tb, k), actions)
<1>. DEFINE new == Confirmed(tb, k)
<1>1. TextOf(new) = TextOf(tb) /\ DOMAIN new = DOMAIN tb
  BY ConfirmedText, ConfirmedType
<1>2. Plain(new)
  <2>1. \A i \in DOMAIN tb : tb[i] \in TentativeChar
    OBVIOUS
  <2>2. \A i \in DOMAIN tb : new[i].tail = tb[i].tail /\ new[i].kana = tb[i].kana
    BY <2>1 DEF Confirmed, TentativeChar
  <2>. HIDE DEF new
  <2>. QED  BY <1>1, <2>2 DEF Plain
<1>3. tb = <<>> => new = <<>>
  <2>1. new \in Seq(TentativeChar)
    BY ConfirmedType
  <2>. HIDE DEF new
  <2>2. tb = <<>> => DOMAIN new = 1..0
    BY <1>1
  <2>. QED  BY <2>1, <2>2
<1>. HIDE DEF new
<1>4. Kept(tb, tb, actions) /\ Kept(tb, new, actions)
  BY <1>1, <1>3 DEF Kept
<1>. QED  BY <1>2, <1>4 DEF Shaped, new

(* A cell of one token. *)
LEMMA OneToken ==
  ASSUME NEW cell \in Seq(Token), Len(cell) = 1
  PROVE  /\ cell = <<cell[1]>> /\ Tail(cell) = <<>> /\ cell # <<>>
         /\ cell[1] \in Token /\ 1 \in DOMAIN cell
<1>1. 1 \in DOMAIN cell /\ DOMAIN cell = 1..1
  OBVIOUS
<1>2. cell[1] \in Token
  BY <1>1
<1>3. <<cell[1]>> \in Seq(Token)
  BY <1>2, OneElement
<1>4. cell = <<cell[1]>>
  BY <1>1, <1>3, SeqEqual
<1>5. Tail(cell) = <<>>
  <2>1. \A x : Tail(<<x>>) = <<>>
    OBVIOUS
  <2>. QED  BY <1>4, <2>1
<1>6. cell # <<>>
  OBVIOUS
<1>. QED  BY <1>1, <1>2, <1>4, <1>5, <1>6

(* One char after the buffer, for a cell of one token. *)
LEMMA CharShape ==
  ASSUME NEW tb \in Seq(TentativeChar), Plain(tb),
         NEW cell \in Seq(Token), KanaCell(cell), Len(cell) = 1, NEW src \in Seq(Keys),
         NEW d \in Nat \cup {NoDeadline}, NEW new, NEW actions,
         new = Append(tb, NewChar(cell[1].text, src, d, Tail(cell))),
         actions = Outputs(<<cell[1]>>)
  PROVE  Shaped(tb, new, actions)
<1>. DEFINE char == NewChar(cell[1].text, src, d, Tail(cell))
<1>1. /\ cell = <<cell[1]>> /\ Tail(cell) = <<>> /\ cell # <<>>
      /\ cell[1] \in Token /\ 1 \in DOMAIN cell
  BY OneToken
<1>2. /\ char \in TentativeChar /\ char.tail = <<>> /\ char.kana # <<>>
      /\ char.kana = cell[1].text /\ cell[1].text \in Seq(STRING)
  <2>1. cell[1].text \in Seq(STRING) /\ Tail(cell) \in Seq(Token) /\ cell[1].text # <<>>
    BY <1>1, NoElements DEF Token, KanaCell
  <2>2. char \in TentativeChar
    BY <2>1, NewCharType
  <2>. QED  BY <1>1, <2>1, <2>2 DEF NewChar
<1>3. CellText(cell) = char.kana
  <2>. DEFINE T(j) == CellText(SubSeq(cell, 1, j))
  <2>1. \A j \in 1..Len(cell) : T(j) = T(j - 1) \o cell[j].text
    BY CellTextStep
  <2>2. T(0) = <<>>
    BY CellTextStep
  <2>3. T(Len(cell)) = CellText(cell)
    BY CellTextStep
  <2>. HIDE DEF T
  <2>4. 1 \in 1..Len(cell) /\ 1 - 1 = 0
    OBVIOUS
  <2>5. T(1) = <<>> \o cell[1].text
    BY <2>1, <2>2, <2>4
  <2>6. <<>> \o cell[1].text = cell[1].text
    BY <1>2, ConcatEmptySeq
  <2>. QED  BY <1>2, <2>3, <2>5, <2>6
<1>4. new = Append(tb, char)
  OBVIOUS
<1>. HIDE DEF char
<1>5. TextOf(new) = TextOf(tb) \o CellText(cell)
  BY <1>2, <1>3, <1>4, AppendText
<1>6. Plain(new)
  <2>1. /\ DOMAIN new = 1..(Len(tb) + 1) /\ new[Len(tb) + 1] = char /\ Len(tb) \in Nat
        /\ \A i \in 1..Len(tb) : new[i] = tb[i] /\ i \in DOMAIN tb
    BY <1>2, <1>4
  <2>2. ASSUME NEW i \in 1..(Len(tb) + 1)  PROVE new[i].tail = <<>> /\ new[i].kana # <<>>
    <3>1. CASE i = Len(tb) + 1
      BY <1>2, <2>1, <3>1
    <3>2. CASE i # Len(tb) + 1
      <4>1. i \in 1..Len(tb)
        BY <2>1, <3>2
      <4>. QED  BY <2>1, <4>1 DEF Plain
    <3>. QED  BY <3>1, <3>2
  <2>. QED  BY <2>1, <2>2 DEF Plain
<1>7. /\ Len(tb) \in 0..Len(tb) /\ SubSeq(tb, 1, Len(tb)) = tb
      /\ Len(TextOf(SubSeq(tb, Len(tb) + 1, Len(tb)))) = 0
  <2>. DEFINE rest == SubSeq(tb, Len(tb) + 1, Len(tb))
  <2>1. rest = <<>> /\ Len(tb) \in 0..Len(tb) /\ SubSeq(tb, 1, Len(tb)) = tb
    OBVIOUS
  <2>. HIDE DEF rest
  <2>2. Len(TextOf(rest)) = 0
    BY <2>1, TextEmpty
  <2>. QED  BY <2>1, <2>2 DEF rest
<1>8. actions = Rewrite(0, cell)
  <2>1. <<>> \o Outputs(cell) = Outputs(cell)
    BY OutputsType, ConcatEmptySeq
  <2>2. Erasing(0) = <<>>
    BY DEF Erasing
  <2>3. actions = Outputs(cell)
    BY <1>1
  <2>4. Rewrite(0, cell) = Outputs(cell)
    BY <2>1, <2>2 DEF Rewrite
  <2>. QED  BY <2>3, <2>4
<1>9. cell # <<>>
  BY <1>1
<1>10. Rewritten(tb, new, actions)
  BY <1>5, <1>7, <1>8, <1>9 DEF Rewritten
<1>. QED  BY <1>6, <1>10 DEF Shaped

(* The char a speculative key types. *)
LEMMA SpeculativeText ==
  ASSUME TypeOK, NEW k \in Keys, SpeculativeKey(k)
  PROVE  \E d \in Nat \cup {NoDeadline} :
           tentative' = Append(TentativeAt(k),
                               NewChar(Layout.base[k][1].text, <<k>>, d, Tail(Layout.base[k])))
<1>. DEFINE d == CASE HasTimedChord(k) -> now + ChordWindowFor(k)
                   [] ~HasTimedChord(k) /\ HasMutualChord(k) -> now + Layout.mutualWindow
                   [] OTHER -> NoDeadline
<1>1. tentative' = Append(TentativeAt(k),
                          NewChar(Layout.base[k][1].text, <<k>>, d, Tail(Layout.base[k])))
  BY DEF SpeculativeKey
<1>2. d \in Nat \cup {NoDeadline}
  <2>1. now \in Nat /\ Layout.mutualWindow \in Nat /\ ChordWindowFor(k) \in Nat
    BY LayoutAssumption, ChordWindowType DEF TypeOK
  <2>2. now + ChordWindowFor(k) \in Nat /\ now + Layout.mutualWindow \in Nat
    BY <2>1
  <2>. QED  BY <2>2
<1>. QED  BY <1>1, <1>2

(* None are left, and no kana typed. *)
LEMMA DropShape ==
  ASSUME NEW tb, NEW actions, \A i \in DOMAIN actions : actions[i].act # "SendKana",
         NoDirects(Layout) =>
           \/ actions = <<>>
           \/ \E a \in Actions : a.act \in {"Backspace", "SubmitThenPassthrough"} /\ actions = <<a>>
  PROVE  Shaped(tb, <<>>, actions)
BY DEF Shaped, Dropped, Plain

(* The characters after the n-th are taken back. *)
LEMMA EraseShape ==
  ASSUME NEW tb \in Seq(TentativeChar), Plain(tb), NEW n \in 0..Len(tb)
  PROVE  Shaped(tb, SubSeq(tb, 1, n), Backspaces(tb, n))
<1>. DEFINE new == SubSeq(tb, 1, n)
<1>1. new \in Seq(TentativeChar) /\ n \in Nat
  OBVIOUS
<1>2. <<>> \in Seq(Token) /\ <<>> \in Seq(Keys) /\ KanaCell(<<>>)
  BY NoElements DEF KanaCell
<1>. HIDE DEF new
<1>3. Pushed(new, <<>>, <<>>) = new
  <2>1. Pushed(new, <<>>, <<>>) =
          new \o [i \in DOMAIN <<>> |-> NewChar(<<>>[i].text, <<>>, NoDeadline, <<>>)]
    BY <1>1, <1>2, PushedText
  <2>2. [i \in DOMAIN <<>> |-> NewChar(<<>>[i].text, <<>>, NoDeadline, <<>>)] = <<>>
    OBVIOUS
  <2>3. new \o <<>> = new
    BY <1>1, ConcatEmptySeq
  <2>. QED  BY <2>1, <2>2, <2>3
<1>4. Backspaces(tb, n) \o Outputs(<<>>) = Backspaces(tb, n)
  <2>1. Outputs(<<>>) = <<>>
    BY DEF Outputs
  <2>2. Backspaces(tb, n) \in Seq(Actions)
    BY <1>1, BackspacesType
  <2>. QED  BY <2>1, <2>2, ConcatEmptySeq
<1>5. /\ new = Pushed(SubSeq(tb, 1, n), <<>>, <<>>)
      /\ Backspaces(tb, n) = Backspaces(tb, n) \o Outputs(<<>>)
  BY <1>3, <1>4 DEF new
<1>6. Shaped(tb, new, Backspaces(tb, n))
  BY <1>2, <1>5, RuleShape
<1>. QED  BY <1>6 DEF new

(* The buffer a call starts from. *)
Basis(tb) == tb = tentative \/ (tb = <<>> /\ mozcMode = "Conversion")

(* It types as the buffer does, and holds no thumb shift marks.            *)
LEMMA BasisOf ==
  ASSUME TypeOK, Plain(tentative), NEW k \in Keys
  PROVE  /\ Basis(tentative) /\ Basis(TentativeAt(k))
         /\ TentativeAt(k) \in Seq(TentativeChar) /\ Plain(TentativeAt(k))
<1>1. TentativeAt(k) \in Seq(TentativeChar)
  BY RegularTypes
<1>2. TentativeAt(k) = tentative \/ (TentativeAt(k) = <<>> /\ mozcMode = "Conversion")
  BY DEF TentativeAt, Fresh
<1>3. Plain(<<>>)
  BY DEF Plain
<1>. QED  BY <1>1, <1>2, <1>3 DEF Basis

(* In a layout of kana every rule types kana. *)
LEMMA RuleCells ==
  ASSUME KanaLayout(Layout), NEW p, NEW tb, NEW k, NEW rule \in ResolvedRule(p, tb, k)
  PROVE  KanaCell(rule.output)
<1>1. CASE rule \in PrefixRule(p)
  <2>1. /\ p[1].key \in DOMAIN Layout.prefix
        /\ p[2].key \in DOMAIN Layout.prefix[p[1].key]
        /\ rule = [output |-> Layout.prefix[p[1].key][p[2].key], src |-> PendingNames(p)]
    BY <1>1 DEF PrefixRule
  <2>. QED  BY <2>1 DEF KanaLayout
<1>2. CASE rule \in TimedChordRule(p)
  <2>1. PICK i \in DOMAIN Layout.chords :
          rule = [output |-> Layout.chords[i].output, src |-> PendingNames(p)]
    BY <1>2 DEF TimedChordRule, FirstOf, TimedChords
  <2>. QED  BY <2>1 DEF KanaLayout
<1>3. CASE rule \in PostfixRule(tb, k)
  <2>1. /\ k \in DOMAIN Layout.postfix
        /\ tb[Len(tb)].src[1] \in DOMAIN Layout.postfix[k]
        /\ rule = [output |-> Layout.postfix[k][tb[Len(tb)].src[1]],
                   src |-> Append(tb[Len(tb)].src, k)]
    BY <1>3 DEF PostfixRule
  <2>. QED  BY <2>1 DEF KanaLayout
<1>. QED  BY <1>1, <1>2, <1>3 DEF ResolvedRule

(* A key goes down. *)
LEMMA KeyDownShape ==
  ASSUME TypeOK, KanaLayout(Layout), Plain(tentative), NEW k \in Keys, NEW shift \in BOOLEAN,
         KeyDown(k, shift)
  PROVE  \E tb : Basis(tb) /\ Shaped(tb, tentative', out')
<1>. DEFINE tb == TentativeAt(k)
<1>1. /\ Basis(tentative) /\ Basis(tb) /\ tb \in Seq(TentativeChar) /\ Plain(tb)
      /\ tentative \in Seq(TentativeChar)
  BY BasisOf DEF TypeOK
<1>. HIDE DEF tb
<1>2. CASE HeldKeyDown(k) \/ ModifierKeyDown(k) \/ TriggerOff(k)
  <2>1. tentative' = tentative /\ out' = <<>>
    BY <1>2 DEF HeldKeyDown, ModifierKeyDown, TriggerOff, buffers
  <2>. QED  BY <1>1, <2>1, KeepShape
<1>3. CASE TriggerOn(k)
  <2>1. tentative' = <<>> /\ out' = Backspaces(tentative, 0)
    BY <1>3 DEF TriggerOn
  <2>2. SubSeq(tentative, 1, 0) = <<>> /\ 0 \in 0..Len(tentative)
    BY <1>1
  <2>3. Shaped(tentative, SubSeq(tentative, 1, 0), Backspaces(tentative, 0))
    BY <1>1, <2>2, EraseShape
  <2>. QED  BY <1>1, <2>1, <2>2, <2>3
<1>4. CASE BackspaceDown(k)
  <2>1. CASE tentative # <<>>
    <3>. DEFINE rest == Len(tentative) - 1
    <3>1. rest \in 0..Len(tentative)
      BY <1>1, <2>1
    <3>2. tentative' = SubSeq(tentative, 1, rest) /\ out' = Backspaces(tentative, rest)
      BY <1>4, <2>1 DEF BackspaceDown
    <3>. HIDE DEF rest
    <3>3. Shaped(tentative, tentative', out')
      BY <1>1, <3>1, <3>2, EraseShape
    <3>. QED  BY <1>1, <3>3
  <2>2. CASE tentative = <<>>
    <3>1. tentative' = <<>> /\ out' \in {<<Action("Backspace", <<>>)>>, <<>>}
      BY <1>4, <2>2 DEF BackspaceDown
    <3>2. \A i \in DOMAIN out' : out'[i].act # "SendKana"
      BY <3>1 DEF Action
    <3>3. Action("Backspace", <<>>) \in Actions /\ Action("Backspace", <<>>).act = "Backspace"
      <4>1. "Backspace" \in ActionNames /\ <<>> \in Seq(STRING)
        BY NoElements DEF ActionNames
      <4>. QED  BY <4>1, ActionType DEF Action
    <3>4. out' = <<>> \/ \E a \in Actions : /\ a.act \in {"Backspace", "SubmitThenPassthrough"}
                                           /\ out' = <<a>>
      BY <3>1, <3>3
    <3>. QED  BY <1>1, <3>1, <3>2, <3>4, DropShape
  <2>. QED  BY <2>1, <2>2
<1>5. CASE DirectKey(k)
  <2>1. CASE tentative' = tb /\ out' = <<>>
    BY <1>1, <2>1, KeepShape
  <2>2. CASE ~(tentative' = tb /\ out' = <<>>)
    <3>1. tentative' = <<>>
      BY <1>5, <2>2 DEF DirectKey, tb
    <3>2. \A i \in DOMAIN out' : out'[i].act # "SendKana"
      BY <1>5, DirectTypesNothing DEF Types
    <3>3. ~NoDirects(Layout)
      BY <1>5, <2>2 DEF DirectKey, NoDirects, tb
    <3>. QED  BY <1>1, <3>1, <3>2, <3>3, DropShape
  <2>. QED  BY <2>1, <2>2
<1>6. CASE LayerKey(k)
  <2>1. PICK i \in ModifiedLayer(k) :
          \/ /\ Layout.modified[i][k] = PASSTHROUGH_CELL
             /\ out' = <<Action("Passthrough", <<k>>)>> /\ tentative' = tb
          \/ /\ out' = Outputs(Layout.modified[i][k])
             /\ tentative' = Pushed(tb, Layout.modified[i][k], <<k>>)
    BY <1>6 DEF LayerKey, tb
  <2>2. i \in DOMAIN Layout.modified /\ k \in DOMAIN Layout.modified[i]
    BY <2>1, LayoutAssumption DEF ModifiedLayer, FirstOf, TypeOK
  <2>3. Layout.modified[i][k] \in Seq(Token) /\ KanaCell(Layout.modified[i][k])
        /\ (NothingPassed(Layout) => Layout.modified[i][k] # PASSTHROUGH_CELL)
    BY <2>2, LayoutCells DEF KanaLayout, NothingPassed
  <2>4. <<k>> \in Seq(Keys)
    OBVIOUS
  <2>. QED  BY <1>1, <2>1, <2>3, <2>4, EmitShape, KeepShape
<1>7. CASE ChordKey(k)
  <2>1. PICK c \in MutualChordMatch(k, HeldAt(k)) :
          /\ tentative' = Pushed(SubSeq(tb, 1, Unaffected(tb, ChordKeys(c))),
                                 Layout.chords[c].output, Layout.chords[c].keys)
          /\ out' = Backspaces(tb, Unaffected(tb, ChordKeys(c)))
                    \o Outputs(Layout.chords[c].output)
    BY <1>7 DEF ChordKey, tb
  <2>2. c \in DOMAIN Layout.chords
    BY DEF MutualChordMatch, MutualChords
  <2>3. /\ Layout.chords[c].output \in Seq(Token) /\ KanaCell(Layout.chords[c].output)
        /\ Layout.chords[c].keys \in Seq(Keys)
    BY <2>2, LayoutCells DEF KanaLayout
  <2>4. Unaffected(tb, ChordKeys(c)) \in 0..Len(tb)
    BY <1>1, UnaffectedRange
  <2>. QED  BY <1>1, <2>1, <2>3, <2>4, RuleShape
<1>8. CASE RuleKey(k)
  <2>1. PICK rule \in ResolvedRule(SpecPending(k), tb, k) :
          /\ tentative' = Pushed(SubSeq(tb, 1, Unaffected(tb, ToSet(rule.src))),
                                 rule.output, rule.src)
          /\ out' = Backspaces(tb, Unaffected(tb, ToSet(rule.src))) \o Outputs(rule.output)
    BY <1>8 DEF RuleKey, tb
  <2>2. rule.output \in Seq(Token) /\ rule.src \in Seq(Keys) /\ KanaCell(rule.output)
    BY <1>1, RegularTypes, ResolvedRuleType, RuleCells
  <2>3. Unaffected(tb, ToSet(rule.src)) \in 0..Len(tb)
    BY <1>1, UnaffectedRange
  <2>. QED  BY <1>1, <2>1, <2>2, <2>3, RuleShape
<1>9. CASE WaitingKey(k)
  <2>1. tentative' = tb /\ out' = <<>>
    BY <1>9 DEF WaitingKey, tb
  <2>. QED  BY <1>1, <2>1, KeepShape
<1>10. CASE UnassignedKey(k, shift)
  <2>1. \/ /\ k \in MOZC_CONTROL_KEYS /\ tentative' = tb
           /\ out' = <<Action(IF shift THEN "SendModifiedKey" ELSE "SendFunctionKey", <<k>>)>>
        \/ out' = <<Action("SubmitThenPassthrough", <<k>>)>> /\ tentative' = <<>>
        \/ out' = <<Action("Passthrough", <<k>>)>> /\ tentative' = tb /\ tb = <<>>
    BY <1>10 DEF UnassignedKey, Composing, tb
  <2>2. CASE out' = <<Action("SubmitThenPassthrough", <<k>>)>> /\ tentative' = <<>>
    <3>. DEFINE a == Action("SubmitThenPassthrough", <<k>>)
    <3>1. \A i \in DOMAIN out' : out'[i].act # "SendKana"
      BY <2>2 DEF Action
    <3>2. a \in Actions /\ a.act = "SubmitThenPassthrough"
      <4>1. "SubmitThenPassthrough" \in ActionNames /\ <<k>> \in Seq(STRING)
        BY KeysAssumption, OneElement DEF ActionNames
      <4>. QED  BY <4>1, ActionType DEF Action
    <3>3. \E b \in Actions : b.act \in {"Backspace", "SubmitThenPassthrough"} /\ out' = <<b>>
      BY <2>2, <3>2
    <3>. HIDE DEF a
    <3>. QED  BY <1>1, <2>2, <3>1, <3>3, DropShape
  <2>. QED  BY <1>1, <2>1, <2>2, KeepShape
<1>11. CASE PassthroughKey(k)
  <2>1. /\ k \in DOMAIN Layout.base /\ Layout.base[k] = PASSTHROUGH_CELL
        /\ out' = <<Action("Passthrough", <<k>>)>> /\ tentative' = tb
    BY <1>11 DEF PassthroughKey, tb
  <2>2. ~NothingPassed(Layout)
    BY <2>1 DEF NothingPassed
  <2>. QED  BY <1>1, <2>1, <2>2, KeepShape
<1>12. CASE WholeCellKey(k)
  <2>1. /\ k \in DOMAIN Layout.base
        /\ out' = Outputs(Layout.base[k]) /\ tentative' = Pushed(tb, Layout.base[k], <<k>>)
    BY <1>12 DEF WholeCellKey, BaseKey, tb
  <2>2. Layout.base[k] \in Seq(Token) /\ KanaCell(Layout.base[k]) /\ <<k>> \in Seq(Keys)
    BY <2>1, LayoutCells DEF KanaLayout
  <2>. QED  BY <1>1, <2>1, <2>2, EmitShape
<1>13. CASE SpeculativeKey(k)
  <2>1. PICK d \in Nat \cup {NoDeadline} :
          tentative' = Append(tb, NewChar(Layout.base[k][1].text, <<k>>, d, Tail(Layout.base[k])))
    BY <1>13, SpeculativeText DEF tb
  <2>2. k \in DOMAIN Layout.base /\ out' = Outputs(<<Layout.base[k][1]>>)
    BY <1>13 DEF SpeculativeKey, BaseKey
  <2>3. /\ Layout.base[k] \in Seq(Token) /\ KanaCell(Layout.base[k])
        /\ Len(Layout.base[k]) = 1 /\ <<k>> \in Seq(Keys)
    BY <2>2, LayoutCells DEF KanaLayout
  <2>4. Shaped(tb, tentative', out')
    BY <1>1, <2>1, <2>2, <2>3, CharShape
  <2>. QED  BY <1>1, <2>4
<1>. QED  BY <1>2, <1>3, <1>4, <1>5, <1>6, <1>7, <1>8, <1>9, <1>10, <1>11, <1>12, <1>13 DEF KeyDown

(* A cell typed after the buffer, some of whose characters were confirmed. *)
LEMMA TapShape ==
  ASSUME NEW tb \in Seq(TentativeChar), Plain(tb), NEW k \in Keys,
         NEW cell \in Seq(Token), KanaCell(cell), NEW new, NEW actions,
         new = Pushed(Confirmed(tb, k), cell, <<k>>), actions = Outputs(cell)
  PROVE  Shaped(tb, new, actions)
<1>. DEFINE conf == Confirmed(tb, k)
            src == <<k>>
<1>1. conf \in Seq(TentativeChar) /\ TextOf(conf) = TextOf(tb) /\ src \in Seq(Keys)
  BY ConfirmedText, ConfirmedType, OneElement
<1>2. Plain(conf) /\ (tb = <<>> => conf = <<>>)
  <2>1. DOMAIN conf = DOMAIN tb /\ \A i \in DOMAIN tb : tb[i] \in TentativeChar
    BY DEF Confirmed
  <2>2. \A i \in DOMAIN tb : conf[i].tail = tb[i].tail /\ conf[i].kana = tb[i].kana
    BY <2>1 DEF Confirmed, TentativeChar
  <2>. HIDE DEF conf
  <2>3. Plain(conf)
    BY <2>1, <2>2 DEF Plain
  <2>4. tb = <<>> => DOMAIN conf = 1..0
    BY <2>1
  <2>. QED  BY <1>1, <2>3, <2>4
<1>3. new = Pushed(conf, cell, src)
  OBVIOUS
<1>. HIDE DEF conf, src
<1>4. Plain(new)
  <2>1. Shaped(conf, new, actions)
    BY <1>1, <1>2, <1>3, EmitShape
  <2>. QED  BY <2>1 DEF Shaped
<1>. DEFINE more == [i \in DOMAIN cell |-> NewChar(cell[i].text, src, NoDeadline, <<>>)]
<1>5. new = conf \o more /\ TextOf(new) = TextOf(conf) \o CellText(cell)
  BY <1>1, <1>3, PushedText
<1>6. tb = <<>> /\ cell = <<>> => new = <<>>
  <2>1. cell = <<>> => more = <<>>
    OBVIOUS
  <2>. HIDE DEF more
  <2>2. <<>> \o <<>> = <<>>
    OBVIOUS
  <2>. QED  BY <1>2, <1>5, <2>1, <2>2
<1>7. /\ Len(tb) \in 0..Len(tb) /\ SubSeq(tb, 1, Len(tb)) = tb
      /\ Len(TextOf(SubSeq(tb, Len(tb) + 1, Len(tb)))) = 0
  <2>. DEFINE rest == SubSeq(tb, Len(tb) + 1, Len(tb))
  <2>1. rest = <<>> /\ Len(tb) \in 0..Len(tb) /\ SubSeq(tb, 1, Len(tb)) = tb
    OBVIOUS
  <2>. HIDE DEF rest
  <2>2. Len(TextOf(rest)) = 0
    BY <2>1, TextEmpty
  <2>. QED  BY <2>1, <2>2 DEF rest
<1>8. actions = Rewrite(0, cell)
  <2>1. <<>> \o Outputs(cell) = Outputs(cell)
    BY OutputsType, ConcatEmptySeq
  <2>2. Erasing(0) = <<>>
    BY DEF Erasing
  <2>3. Rewrite(0, cell) = Outputs(cell)
    BY <2>1, <2>2 DEF Rewrite
  <2>. QED  BY <2>3
<1>9. Rewritten(tb, new, actions)
  BY <1>1, <1>5, <1>6, <1>7, <1>8 DEF Rewritten
<1>. QED  BY <1>4, <1>9 DEF Shaped

(* A key goes up. *)
LEMMA KeyUpShape ==
  ASSUME TypeOK, KanaLayout(Layout), Plain(tentative), NEW k \in Keys, KeyUp(k)
  PROVE  Shaped(tentative, tentative', out')
<1>. DEFINE conf == Confirmed(tentative, k)
<1>1. tentative \in Seq(TentativeChar)
  BY DEF TypeOK
<1>2. ASSUME tentative' = conf, out' = <<>>
      PROVE  Shaped(tentative, tentative', out')
  BY <1>1, <1>2, KeepShape
<1>3. CASE ModifierKeyUp(k)
  BY <1>2, <1>3 DEF ModifierKeyUp
<1>4. CASE RegularKeyUp(k)
  BY <1>2, <1>4 DEF RegularKeyUp
<1>5. CASE TriggerUp(k)
  <2>1. CASE out' = <<>>
    BY <1>2, <1>5, <2>1 DEF TriggerUp
  <2>2. CASE out' # <<>>
    <3>1. /\ tentative' = conf /\ out' = <<Action("Passthrough", <<k>>)>>
          /\ Layout.triggerTap = "Passthrough" /\ k \in Layout.triggerKeys
      BY <1>5, <2>2 DEF TriggerUp
    <3>2. ~NothingPassed(Layout)
      BY <3>1 DEF NothingPassed
    <3>. HIDE DEF conf
    <3>3. Shaped(tentative, conf, out')
      BY <1>1, <3>1, <3>2, KeepShape DEF conf
    <3>. QED  BY <3>1, <3>3
  <2>. QED  BY <2>1, <2>2
<1>6. CASE ModifierTap(k)
  <2>1. PICK i \in ModifierIndex(k) :
          \/ /\ Layout.modifiers[i].tapAction = "Passthrough"
             /\ out' = <<Action(IF k \in MOZC_CONTROL_KEYS THEN "SendFunctionKey"
                                                          ELSE "Passthrough", <<k>>)>>
             /\ tentative' = conf
          \/ /\ k \in DOMAIN Layout.base
             /\ out' = Outputs(Layout.base[k]) /\ tentative' = Pushed(conf, Layout.base[k], <<k>>)
          \/ out' = <<>> /\ tentative' = conf
          \/ /\ out' = Outputs(Layout.modifiers[i].tapOutput)
             /\ tentative' = Pushed(conf, Layout.modifiers[i].tapOutput, <<k>>)
    BY <1>6 DEF ModifierTap
  <2>2. i \in DOMAIN Layout.modifiers /\ k \in Layout.modifiers[i].keys
    BY DEF ModifierIndex, FirstOf
  <2>3. CASE /\ Layout.modifiers[i].tapAction = "Passthrough"
             /\ out' = <<Action(IF k \in MOZC_CONTROL_KEYS THEN "SendFunctionKey"
                                                          ELSE "Passthrough", <<k>>)>>
             /\ tentative' = conf
    <3>1. CASE k \in MOZC_CONTROL_KEYS
      <4>1. \E act \in {"SendFunctionKey", "SendModifiedKey"} : out' = <<Action(act, <<k>>)>>
        BY <2>3, <3>1
      <4>. QED  BY <1>1, <2>3, <3>1, <4>1, KeepShape
    <3>2. CASE k \notin MOZC_CONTROL_KEYS
      <4>1. out' = <<Action("Passthrough", <<k>>)>>
        BY <2>3, <3>2
      <4>2. ~NothingPassed(Layout)
        BY <2>2, <2>3, <3>2 DEF NothingPassed
      <4>. QED  BY <1>1, <2>3, <4>1, <4>2, KeepShape
    <3>. QED  BY <3>1, <3>2
  <2>4. CASE /\ k \in DOMAIN Layout.base
             /\ out' = Outputs(Layout.base[k]) /\ tentative' = Pushed(conf, Layout.base[k], <<k>>)
    <3>1. Layout.base[k] \in Seq(Token) /\ KanaCell(Layout.base[k])
      BY <2>4, LayoutCells DEF KanaLayout
    <3>. QED  BY <1>1, <2>4, <3>1, TapShape
  <2>5. CASE /\ out' = Outputs(Layout.modifiers[i].tapOutput)
             /\ tentative' = Pushed(conf, Layout.modifiers[i].tapOutput, <<k>>)
    <3>1. Layout.modifiers[i].tapOutput \in Seq(Token)
      <4>1. Layout.modifiers[i] \in ModifierDef
        BY <2>2, LayoutCells
      <4>. QED  BY <4>1 DEF ModifierDef
    <3>2. KanaCell(Layout.modifiers[i].tapOutput)
      BY <2>2 DEF KanaLayout
    <3>. QED  BY <1>1, <2>5, <3>1, <3>2, TapShape
  <2>. QED  BY <1>2, <2>1, <2>3, <2>4, <2>5
<1>. QED  BY <1>3, <1>4, <1>5, <1>6 DEF KeyUp

(* Nothing, over and over, is nothing. *)
LEMMA FlattenBlank ==
  ASSUME NEW n \in Nat, NEW seqs, seqs = [i \in 1..n |-> seqs[i]],
         \A i \in 1..n : seqs[i] = <<>>
  PROVE  FlattenSeq(seqs) = <<>>
<1>1. <<>> \in Seq({})
  BY NoElements
<1>2. seqs \in Seq(Seq({}))
  <2>1. \A i \in 1..n : seqs[i] \in Seq({})
    BY <1>1
  <2>. DEFINE E == Seq({})
  <2>. HIDE DEF E
  <2>2. [i \in 1..n |-> seqs[i]] \in Seq(E)
    BY <2>1 DEF E
  <2>. QED  BY <2>2 DEF E
<1>3. FlattenSeq(seqs) \in Seq({})
  BY <1>2, FlattenType
<1>4. \A s \in Seq({}) : s = <<>>
  <2>1. SUFFICES ASSUME NEW s \in Seq({})  PROVE s = <<>>
    OBVIOUS
  <2>2. Len(s) # 0 => s[1] \in {}
    OBVIOUS
  <2>3. Len(s) = 0
    BY <2>2
  <2>. QED  BY <2>3
<1>. QED  BY <1>3, <1>4

(* A tick: no tail is due. *)
LEMMA TickShape ==
  ASSUME TypeOK, Plain(tentative), Tick
  PROVE  /\ Plain(tentative') /\ TextOf(tentative') = TextOf(tentative)
         /\ tentative = <<>> => tentative' = <<>>
         /\ out' = <<>>
         /\ mozcMode' = mozcMode
<1>. DEFINE due == chordDeadline # NoDeadline /\ now >= chordDeadline
            expired == {i \in DOMAIN tentative :
                    /\ due
                    /\ tentative[i].deadline # NoDeadline
                    /\ now >= tentative[i].deadline}
            sent == [i \in DOMAIN tentative |->
                       IF i \in expired THEN Outputs(tentative[i].tail) ELSE <<>>]
<1>1. /\ tentative' = [i \in DOMAIN tentative |->
                         IF i \in expired
                         THEN [tentative[i] EXCEPT !.deadline = NoDeadline, !.tail = <<>>]
                         ELSE tentative[i]]
      /\ out' = FlattenSeq(sent) /\ mozcMode' = mozcMode
  BY DEF Tick
<1>2. tentative \in Seq(TentativeChar) /\ \A i \in DOMAIN tentative : tentative[i] \in TentativeChar
  BY DEF TypeOK
<1>3. tentative' \in Seq(TentativeChar)
  BY NextType DEF Next, TypeOK
<1>. HIDE DEF expired
<1>4. /\ DOMAIN tentative' = DOMAIN tentative
      /\ \A i \in DOMAIN tentative : tentative'[i].kana = tentative[i].kana
      /\ \A i \in DOMAIN tentative :
           tentative'[i].tail = tentative[i].tail \/ tentative'[i].tail = <<>>
  BY <1>1, <1>2 DEF TentativeChar
<1>5. Plain(tentative')
  BY <1>4 DEF Plain
<1>6. TextOf(tentative') = TextOf(tentative)
  BY <1>2, <1>3, <1>4, SameKana
<1>7. tentative = <<>> => tentative' = <<>>
  BY <1>2, <1>3, <1>4
<1>8. Outputs(<<>>) = <<>>
  BY DEF Outputs
<1>9. DOMAIN sent = DOMAIN tentative /\ \A i \in DOMAIN tentative : sent[i] = <<>>
  BY <1>8 DEF Plain
<1>10. FlattenSeq(sent) = <<>>
  <2>1. DOMAIN tentative = 1..Len(tentative) /\ Len(tentative) \in Nat
    BY <1>2
  <2>2. sent = [i \in 1..Len(tentative) |-> sent[i]]
    BY <2>1
  <2>. HIDE DEF sent
  <2>. QED  BY <1>9, <2>1, <2>2, FlattenBlank
<1>. QED  BY <1>1, <1>5, <1>6, <1>7, <1>10

-----------------------------------------------------------------------------
(* The characters the state machine may rewrite end Mozc's preedit.        *)

(* While text is converted there are none. *)
Converts == session.converting \/ mozcMode = "Conversion"

AtRest == /\ \E p \in Seq(STRING) : session.text = p \o TextOf(tentative)
          /\ Converts => tentative = <<>>

(* Keys and layouts for which every key that leaves characters open has an *)
(* op.                                                                     *)
NothingEscapes == NothingPassed(Layout) /\ SuperTokens \cap Keys = {}

(* Between the two steps of a call: its actions rewrite u \o v, which ends *)
(* the preedit, to u \o cell; or they leave it alone.                      *)
RewritePending ==
  \E p \in Seq(STRING), u \in Seq(STRING), v \in Seq(STRING), cell \in Seq(Token) :
    /\ session.text = (p \o u) \o v
    /\ open = Len(u) + Len(v)
    /\ KanaCell(cell)
    /\ out = Rewrite(Len(v), cell)
    /\ TextOf(tentative) = u \o CellText(cell)
    /\ session.converting => u = <<>> /\ v = <<>>

QuietPending ==
  /\ ~Converts
  /\ \E p \in Seq(STRING) : session.text = p \o TextOf(tentative)
  /\ open = Len(TextOf(tentative))
  /\ \E a \in Actions : Quiet(a) /\ out = <<a>> /\ (NothingEscapes => HasOp(a))

AtCall == tentative = <<>> \/ RewritePending \/ QuietPending

(* The inductive invariant. *)
ScreenInv ==
  /\ ShownInv
  /\ Plain(tentative)
  /\ failures = 0 => /\ mozc
                     /\ call = Idle => AtRest
                     /\ call # Idle => out # <<>> /\ AtCall

(* What comes last is a suffix. *)
LEMMA SuffixIs ==
  ASSUME NEW S, NEW p \in Seq(S), NEW s \in Seq(S)
  PROVE  IsSuffix(s, p \o s)
<1>. DEFINE t == p \o s
            m == Len(s)
            n == Len(p)
<1>1. /\ t \in Seq(S) /\ Len(t) = n + m /\ m \in Nat /\ n \in Nat
      /\ \A i \in 1..(n + m) : t[i] = IF i <= n THEN p[i] ELSE s[i - n]
  BY ConcatProperties
<1>2. /\ Reverse(s) \in Seq(S) /\ Len(Reverse(s)) = m
      /\ \A i \in 1..m : Reverse(s)[i] = s[(m - i) + 1]
  BY DEF Reverse
<1>. HIDE DEF t
<1>3. /\ Reverse(t) \in Seq(S) /\ Len(Reverse(t)) = n + m
      /\ \A i \in 1..(n + m) : Reverse(t)[i] = t[((n + m) - i) + 1]
  BY <1>1 DEF Reverse
<1>. HIDE DEF m, n
<1>4. \A i \in 1..m : Reverse(t)[i] = Reverse(s)[i]
  <2>1. SUFFICES ASSUME NEW i \in 1..m  PROVE Reverse(t)[i] = Reverse(s)[i]
    OBVIOUS
  <2>2. /\ i \in 1..(n + m) /\ ((n + m) - i) + 1 \in 1..(n + m)
        /\ ~(((n + m) - i) + 1 <= n) /\ (((n + m) - i) + 1) - n = (m - i) + 1
    BY <1>1
  <2>. QED  BY <1>1, <1>2, <1>3, <2>2
<1>. DEFINE rs == Reverse(s)
            rt == Reverse(t)
<1>. HIDE DEF rs, rt
<1>5. m <= n + m
  BY <1>1
<1>6. SubSeq(rs, 1, m) = SubSeq(rt, 1, m)
  BY <1>1, <1>2, <1>3, <1>4 DEF rs, rt
<1>. QED  BY <1>2, <1>3, <1>5, <1>6 DEF IsSuffix, IsPrefix, rs, rt, t

(* The characters of a buffer, if it has any, are on the screen. *)
LEMMA PlainText ==
  ASSUME NEW tb \in Seq(TentativeChar), Plain(tb), tb # <<>>
  PROVE  TextOf(tb) # <<>>
<1>. DEFINE n == Len(tb) - 1
            front == SubSeq(tb, 1, n)
            last == SubSeq(tb, n + 1, Len(tb))
<1>1. n \in 0..Len(tb) /\ n + 1 = Len(tb) /\ Len(tb) \in DOMAIN tb /\ tb[Len(tb)] \in TentativeChar
  OBVIOUS
<1>2. front \in Seq(TentativeChar) /\ tb = Append(front, tb[Len(tb)])
  OBVIOUS
<1>3. tb[Len(tb)].kana \in Seq(STRING) /\ tb[Len(tb)].kana # <<>>
  BY <1>1 DEF Plain, TentativeChar
<1>. HIDE DEF front
<1>4. TextOf(tb) = TextOf(front) \o tb[Len(tb)].kana /\ TextOf(front) \in Seq(STRING)
  BY <1>1, <1>2, AppendText, TextType
<1>. DEFINE a == TextOf(front)
            b == tb[Len(tb)].kana
<1>. HIDE DEF a, b
<1>5. a \in Seq(STRING) /\ b \in Seq(STRING) /\ b # <<>>
  BY <1>3, <1>4 DEF a, b
<1>6. Len(a \o b) = Len(a) + Len(b) /\ Len(a) \in Nat /\ Len(b) \in Nat
  BY <1>5, ConcatProperties, LenProperties
<1>7. Len(b) # 0
  BY <1>5, EmptySeq
<1>8. a \o b # <<>>
  <2>1. Len(a \o b) # 0
    BY <1>6, <1>7
  <2>. QED  BY <2>1
<1>. QED  BY <1>4, <1>8 DEF a, b

(* Without characters all is well. *)
LEMMA NoneAtRest ==
  ASSUME session \in Sessions, tentative = <<>>
  PROVE  Plain(tentative) /\ AtRest
<1>1. session.text \in Seq(STRING)
  BY DEF Sessions
<1>2. TextOf(tentative) = <<>>
  BY TextEmpty
<1>3. session.text \o <<>> = session.text
  BY <1>1, ConcatEmptySeq
<1>4. \E p \in Seq(STRING) : session.text = p \o TextOf(tentative)
  BY <1>1, <1>2, <1>3
<1>. QED  BY <1>4 DEF AtRest, Plain

(* A rewrite without actions changes no text. *)
LEMMA NoRewrite ==
  ASSUME NEW tb \in Seq(TentativeChar), NEW new, NEW actions, actions = <<>>,
         Rewritten(tb, new, actions)
  PROVE  TextOf(new) = TextOf(tb) /\ (tb = <<>> => new = <<>>)
<1>1. PICK n \in 0..Len(tb), cell \in Seq(Token) :
        /\ KanaCell(cell)
        /\ actions = Rewrite(Len(TextOf(SubSeq(tb, n + 1, Len(tb)))), cell)
        /\ TextOf(new) = TextOf(SubSeq(tb, 1, n)) \o CellText(cell)
        /\ tb = <<>> /\ cell = <<>> => new = <<>>
  BY DEF Rewritten
<1>. DEFINE u == TextOf(SubSeq(tb, 1, n))
            v == TextOf(SubSeq(tb, n + 1, Len(tb)))
<1>2. /\ TextOf(tb) = u \o v /\ u \in Seq(STRING) /\ v \in Seq(STRING)
  BY TextSplit, TextType
<1>. HIDE DEF u, v
<1>3. Len(v) \in Nat /\ Len(cell) \in Nat
  BY <1>2, LenType
<1>4. Len(Rewrite(Len(v), cell)) = Len(v) + Len(cell)
  BY <1>1, <1>3, RewriteIs
<1>5. Len(Rewrite(Len(v), cell)) = 0
  BY <1>1 DEF v
<1>6. Len(v) = 0 /\ Len(cell) = 0
  <2>. DEFINE a == Len(v)
              b == Len(cell)
              c == Len(Rewrite(a, cell))
  <2>1. a \in Nat /\ b \in Nat /\ c = a + b /\ c = 0
    BY <1>3, <1>4, <1>5
  <2>. HIDE DEF a, b, c
  <2>2. a = 0 /\ b = 0
    BY <2>1
  <2>. QED  BY <2>2 DEF a, b
<1>7. v = <<>> /\ cell = <<>>
  BY <1>2, <1>6, EmptySeq
<1>8. CellText(cell) = <<>>
  <2>1. \A c : c = <<>> => [i \in DOMAIN c |-> c[i].text] = <<>>
    OBVIOUS
  <2>. QED  BY <1>7, <2>1, FlattenEmpty DEF CellText
<1>. QED  BY <1>1, <1>2, <1>7, <1>8 DEF u

(* A rewrite of the buffer is one of the end of the preedit. *)
LEMMA RewriteFits ==
  ASSUME EngineTypeOK, AtRest, Rewritten(tentative, tentative', out'), out' # <<>>,
         NEW kind, NEW key, Called(kind, key)
  PROVE  RewritePending'
<1>. DEFINE T == TextOf(tentative)
            new == tentative'
            acts == out'
<1>1. tentative \in Seq(TentativeChar) /\ session' = session /\ open' = Len(T)
  BY DEF EngineTypeOK, TypeOK, Called, link
<1>2. PICK p \in Seq(STRING) : session.text = p \o T
  BY DEF AtRest
<1>3. Converts => tentative = <<>>
  BY DEF AtRest
<1>4. PICK n \in 0..Len(tentative), cell \in Seq(Token) :
        /\ KanaCell(cell)
        /\ acts = Rewrite(Len(TextOf(SubSeq(tentative, n + 1, Len(tentative)))), cell)
        /\ TextOf(new) = TextOf(SubSeq(tentative, 1, n)) \o CellText(cell)
  BY DEF Rewritten
<1>. DEFINE u == TextOf(SubSeq(tentative, 1, n))
            v == TextOf(SubSeq(tentative, n + 1, Len(tentative)))
<1>5. T = u \o v /\ u \in Seq(STRING) /\ v \in Seq(STRING)
  BY <1>1, TextSplit, TextType
<1>6. tentative = <<>> => T = <<>>
  BY TextEmpty
<1>. HIDE DEF u, v, T, new, acts
<1>7. session.text = (p \o u) \o v
  <2>1. p \in Seq(STRING) /\ u \in Seq(STRING) /\ v \in Seq(STRING)
    BY <1>5
  <2>2. (p \o u) \o v = p \o (u \o v)
    BY <2>1, TextRegroup
  <2>. QED  BY <1>2, <1>5, <2>2
<1>8. Len(u \o v) = Len(u) + Len(v) /\ Len(u) \in Nat /\ Len(v) \in Nat
  BY <1>5, ConcatProperties, LenProperties
<1>9. open' = Len(u) + Len(v)
  BY <1>1, <1>5, <1>8
<1>10. session.converting => u = <<>> /\ v = <<>>
  <2>1. session.converting => T = <<>>
    BY <1>3, <1>6 DEF Converts
  <2>2. T = <<>> => Len(u) = 0 /\ Len(v) = 0
    <3>1. T = <<>> => Len(u \o v) = 0
      BY <1>5
    <3>. QED  BY <1>8, <3>1
  <2>. QED  BY <1>5, <2>1, <2>2, EmptySeq
<1>11. acts = Rewrite(Len(v), cell) /\ TextOf(new) = u \o CellText(cell)
  BY <1>4 DEF u, v
<1>. QED  BY <1>1, <1>4, <1>5, <1>7, <1>9, <1>10, <1>11 DEF RewritePending, new, acts

(* What a call leaves to be dispatched fits the preedit. *)
LEMMA CallFits ==
  ASSUME EngineTypeOK, AtRest, Plain(tentative), tentative' \in Seq(TentativeChar),
         Shaped(tentative, tentative', out'), mozcMode' \in {mozcMode, "Composition"},
         Keys \cap {"Return", "Escape"} = {},
         NEW kind \in {"down", "up", "tick"}, NEW key, Called(kind, key)
  PROVE  /\ Plain(tentative')
         /\ call' = Idle => AtRest'
         /\ call' # Idle => out' # <<>> /\ AtCall'
<1>. DEFINE T == TextOf(tentative)
            new == tentative'
            acts == out'
<1>1. /\ tentative \in Seq(TentativeChar) /\ session \in Sessions /\ mozcMode \in Modes
      /\ T \in Seq(STRING)
  BY TextType DEF EngineTypeOK, TypeOK, Modes
<1>2. PICK p \in Seq(STRING) : session.text = p \o T
  BY DEF AtRest
<1>3. Converts => tentative = <<>>
  BY DEF AtRest
<1>4. session' = session
  BY DEF Called, link
<1>5. (call' = Idle <=> acts = <<>>) /\ (acts # <<>> => open' = Len(T))
  BY DEF Called, Idle
<1>6. Converts' => Converts
  BY <1>1, <1>4 DEF Converts, Modes
<1>7. ASSUME new = <<>>
      PROVE  AtRest' /\ AtCall'
  <2>1. session.text \in Seq(STRING) /\ session.text \o <<>> = session.text
    BY <1>1, ConcatEmptySeq DEF Sessions
  <2>2. TextOf(new) = <<>>
    BY <1>7, TextEmpty
  <2>3. AtRest'
    BY <1>4, <1>7, <2>1, <2>2 DEF AtRest
  <2>. QED  BY <1>7, <2>3 DEF AtCall
<1>8. ASSUME TextOf(new) = T, tentative = <<>> => new = <<>>
      PROVE  AtRest'
  BY <1>2, <1>3, <1>4, <1>6, <1>8 DEF AtRest
<1>9. CASE Rewritten(tentative, new, acts)
  <2>1. ASSUME acts = <<>>  PROVE AtRest'
    BY <1>1, <1>8, <1>9, <2>1, NoRewrite
  <2>2. ASSUME acts # <<>>  PROVE AtCall'
    BY <1>9, <2>2, RewriteFits DEF AtCall
  <2>. QED  BY <1>5, <2>1, <2>2 DEF Shaped
<1>10. CASE Kept(tentative, new, acts)
  <2>1. TextOf(new) = T /\ (tentative = <<>> => new = <<>>)
    BY <1>10 DEF Kept
  <2>2. AtRest'
    BY <1>8, <2>1
  <2>3. ASSUME acts # <<>>  PROVE AtCall'
    <3>1. CASE new = <<>>
      BY <1>7, <3>1
    <3>2. CASE new # <<>>
      <4>1. ~Converts'
        BY <1>3, <1>6, <2>1, <3>2
      <4>2. PICK k \in Keys, act \in {"Passthrough", "SendFunctionKey", "SendModifiedKey"} :
              /\ acts = <<Action(act, <<k>>)>>
              /\ act = "Passthrough" => ~NothingPassed(Layout)
              /\ act # "Passthrough" => k \in MOZC_CONTROL_KEYS
        BY <1>10, <2>3, <3>2 DEF Kept
      <4>. DEFINE a == Action(act, <<k>>)
      <4>3. a \in Actions
        <5>1. act \in ActionNames
          BY DEF ActionNames
        <5>2. <<k>> \in Seq(STRING)
          BY KeysAssumption, OneElement
        <5>. QED  BY <5>1, <5>2, ActionType
      <4>4. Quiet(a)
        <5>1. act # "Passthrough" => k \in QuietKeys
          BY <4>2 DEF QuietKeys
        <5>. QED  BY <5>1 DEF Quiet, Action
      <4>5. NothingEscapes => HasOp(a)
        <5>1. NothingEscapes => act # "Passthrough" /\ k \notin SuperTokens
          BY <4>2 DEF NothingEscapes
        <5>2. <<k>>[1] = k
          OBVIOUS
        <5>. QED  BY <5>1, <5>2 DEF HasOp, Action
      <4>6. \E b \in Actions : Quiet(b) /\ acts = <<b>> /\ (NothingEscapes => HasOp(b))
        BY <4>2, <4>3, <4>4, <4>5
      <4>7. \E q \in Seq(STRING) : session'.text = q \o TextOf(new)
        BY <1>2, <1>4, <2>1
      <4>8. open' = Len(TextOf(new))
        BY <1>5, <2>1, <2>3
      <4>. QED  BY <4>1, <4>6, <4>7, <4>8 DEF AtCall, QuietPending
    <3>. QED  BY <3>1, <3>2
  <2>. QED  BY <1>5, <2>2, <2>3 DEF Shaped
<1>11. CASE Dropped(new, acts)
  BY <1>5, <1>7, <1>11 DEF Dropped, Shaped
<1>. QED  BY <1>9, <1>10, <1>11 DEF Shaped

(* An action with an op is one of a batch of its own. *)
LEMMA OneOp ==
  ASSUME NEW a \in Actions, out = <<a>>, Ops = <<>>
  PROVE  ~HasOp(a)
<1>1. SUFFICES ASSUME HasOp(a)  PROVE FALSE
  OBVIOUS
<1>2. out \in Seq(Actions) /\ DOMAIN out = 1..1 /\ out[1] = a
  OBVIOUS
<1>3. {i \in DOMAIN out : HasOp(out[i])} = DOMAIN out
  BY <1>1, <1>2
<1>4. Ops = out
  BY <1>2, <1>3, RetainedAll DEF Ops
<1>. QED  BY <1>4

(* What is left of a text when its end is erased. *)
LEMMA CutText ==
  ASSUME NEW S, NEW a \in Seq(S), NEW b \in Seq(S), NEW n, n = Len(b)
  PROVE  SubSeq(a \o b, 1, Len(a \o b) - n) = a
<1>1. Len(a \o b) = Len(a) + Len(b) /\ Len(a) \in Nat /\ Len(b) \in Nat
      /\ \A i \in 1..(Len(a) + Len(b)) : i <= Len(a) => (a \o b)[i] = a[i]
  BY ConcatProperties, LenProperties
<1>. DEFINE t == a \o b
<1>2. t \in Seq(S)
  BY ConcatProperties
<1>. HIDE DEF t
<1>3. Len(t) - n = Len(a)
  BY <1>1 DEF t
<1>4. SubSeq(t, 1, Len(a)) = a
  <2>1. Len(t) = Len(a) + Len(b) /\ \A i \in 1..Len(a) : t[i] = a[i]
    BY <1>1 DEF t
  <2>. QED  BY <1>1, <1>2, <2>1
<1>. QED  BY <1>3, <1>4 DEF t

(* A rewrite erases what it may and puts its characters there. *)
Exact == tentative' # <<>> =>
           Screen' = SubSeq(Screen, 1, Len(Screen) - open) \o TextOf(tentative')

(* It takes the open characters off the screen and puts others there.      *)
Edits == \E a, b, c \in Seq(Names) : Screen = a \o b /\ open = Len(b) /\ Screen' = a \o c

(* The rewrite whose batch is answered is exact, and the characters it     *)
(* leaves open are the last of the preedit.                                *)
LEMMA RewriteDone ==
  ASSUME EngineTypeOK, DispatchAnswered, RewritePending
  PROVE  tentative' = tentative /\ AtRest' /\ Exact /\ Edits
<1>1. /\ session \in Sessions /\ app \in Seq(Names) /\ tentative \in Seq(TentativeChar)
  BY DEF EngineTypeOK, TypeOK
<1>2. PICK p \in Seq(STRING), u \in Seq(STRING), v \in Seq(STRING), cell \in Seq(Token) :
        /\ session.text = (p \o u) \o v
        /\ open = Len(u) + Len(v)
        /\ KanaCell(cell)
        /\ out = Rewrite(Len(v), cell)
        /\ TextOf(tentative) = u \o CellText(cell)
        /\ session.converting => u = <<>> /\ v = <<>>
  BY DEF RewritePending
<1>. DEFINE pu == p \o u
            C == CellText(cell)
            base == IF session.converting THEN <<>> ELSE pu
            flushed == IF session.converting THEN pu ELSE <<>>
<1>3. pu \in Seq(STRING) /\ C \in Seq(STRING)
  BY TextJoin, CellTexts
<1>. HIDE DEF pu, C
<1>4. session.text = pu \o v /\ (session.converting => v = <<>>)
  BY <1>2 DEF pu
<1>5. /\ session'.text = base \o C
      /\ session'.converting = FALSE
      /\ app' = app \o flushed
      /\ mozcMode' = "Composition"
      /\ tentative' = tentative
  BY <1>2, <1>3, <1>4, RewriteLands DEF C
<1>6. ~Converts'
  BY <1>5 DEF Converts
<1>7. TextOf(tentative') = u \o C
  BY <1>2, <1>5 DEF C
<1>8. \E q \in Seq(STRING) : session'.text = q \o TextOf(tentative')
  <2>1. CASE session.converting
    <3>1. u = <<>> /\ base = <<>> /\ <<>> \in Seq(STRING) /\ u \o C \in Seq(STRING)
      BY <1>2, <1>3, <2>1, TextJoin, NoElements
    <3>2. <<>> \o (u \o C) = u \o C
      BY <3>1, ConcatEmptySeq
    <3>. QED  BY <1>5, <1>7, <3>1, <3>2
  <2>2. CASE ~session.converting
    <3>1. base = p \o u
      BY <2>2 DEF pu
    <3>2. p \in Seq(STRING) /\ u \in Seq(STRING) /\ C \in Seq(STRING)
      BY <1>3
    <3>3. (p \o u) \o C = p \o (u \o C)
      BY <3>2, TextRegroup
    <3>. QED  BY <1>5, <1>7, <3>1, <3>3
  <2>. QED  BY <2>1, <2>2
<1>9. AtRest'
  BY <1>6, <1>8 DEF AtRest
<1>10. Exact /\ Edits
  <2>1. /\ p \in Seq(Names) /\ u \in Seq(Names) /\ v \in Seq(Names) /\ C \in Seq(Names)
        /\ <<>> \in Seq(Names)
    BY <1>3, StringsAreNames, NoElements
  <2>2. \A a, b, c \in Seq(Names) : (a \o b) \o c = a \o (b \o c) /\ a \o b \in Seq(Names)
    BY NamesRegroup, NamesJoin
  <2>3. \A a \in Seq(Names) : a \o <<>> = a /\ <<>> \o a = a
    BY ConcatEmptySeq
  <2>4. Screen = (app \o p) \o (u \o v)
    <3>1. Screen = app \o ((p \o u) \o v)
      BY <1>2 DEF Screen
    <3>2. (p \o u) \o v = p \o (u \o v) /\ u \o v \in Seq(Names)
      <4>1. p \in Seq(Names) /\ u \in Seq(Names) /\ v \in Seq(Names)
        BY <2>1
      <4>2. (p \o u) \o v = p \o (u \o v)
        BY <4>1, NamesRegroup
      <4>3. u \o v \in Seq(Names)
        BY <4>1, NamesJoin
      <4>. QED  BY <4>2, <4>3
    <3>. DEFINE uv == u \o v
    <3>3. uv \in Seq(Names)
      BY <3>2
    <3>. HIDE DEF uv
    <3>4. app \o (p \o uv) = (app \o p) \o uv
      <4>1. app \in Seq(Names) /\ p \in Seq(Names) /\ uv \in Seq(Names)
        BY <1>1, <2>1, <3>3
      <4>. QED  BY <4>1, NamesRegroup
    <3>. QED  BY <3>1, <3>2, <3>4 DEF uv
  <2>5. Screen' = ((app \o p) \o u) \o C
    <3>1. Screen' = (app \o flushed) \o (base \o C)
      BY <1>5 DEF Screen
    <3>2. pu \in Seq(Names)
      BY <1>3, StringsAreNames
    <3>3. (app \o flushed) \o (base \o C) = (app \o pu) \o C
      <4>1. CASE session.converting
        <5>1. base = <<>> /\ flushed = pu /\ <<>> \o C = C
          BY <2>1, <2>3, <4>1
        <5>. QED  BY <5>1
      <4>2. CASE ~session.converting
        <5>1. base = pu /\ flushed = <<>> /\ app \o <<>> = app
          BY <1>1, <2>3, <4>2
        <5>2. app \o (pu \o C) = (app \o pu) \o C
          <6>1. app \in Seq(Names) /\ pu \in Seq(Names) /\ C \in Seq(Names)
            BY <1>1, <2>1, <3>2
          <6>. QED  BY <6>1, NamesRegroup
        <5>. QED  BY <5>1, <5>2
      <4>. QED  BY <4>1, <4>2
    <3>4. app \o pu = (app \o p) \o u
      BY <1>1, <2>1, <2>2 DEF pu
    <3>. QED  BY <3>1, <3>3, <3>4
  <2>6. open = Len(u \o v)
    BY <1>2, ConcatProperties
  <2>. DEFINE ap == app \o p
              uv == u \o v
  <2>7. ap \in Seq(Names) /\ uv \in Seq(Names)
    BY <1>1, <2>1, <2>2
  <2>. HIDE DEF ap, uv
  <2>8. SubSeq(ap \o uv, 1, Len(ap \o uv) - open) = ap
    <3>1. open = Len(uv)
      BY <2>6 DEF uv
    <3>. QED  BY <2>7, <3>1, CutText
  <2>9. (ap \o u) \o C = ap \o (u \o C)
    <3>1. ap \in Seq(Names) /\ u \in Seq(Names) /\ C \in Seq(Names)
      BY <2>1, <2>7
    <3>. QED  BY <3>1, NamesRegroup
  <2>10. Screen = ap \o uv /\ Screen' = (ap \o u) \o C
    BY <2>4, <2>5 DEF ap, uv
  <2>11. Exact
    BY <1>7, <2>8, <2>9, <2>10 DEF Exact
  <2>. DEFINE uC == u \o C
  <2>12. uC \in Seq(Names)
    BY <2>1, NamesJoin
  <2>13. Screen' = ap \o uC /\ open = Len(uv)
    BY <2>6, <2>9, <2>10 DEF uv
  <2>. HIDE DEF uC
  <2>14. Edits
    BY <2>7, <2>10, <2>12, <2>13 DEF Edits
  <2>. QED  BY <2>11, <2>14
<1>. QED  BY <1>5, <1>9, <1>10

(* A quiet action leaves it. *)
LEMMA QuietDone ==
  ASSUME EngineTypeOK, DispatchAnswered, QuietPending, Plain(tentative)
  PROVE  /\ tentative' = <<>> \/ (tentative' = tentative /\ AtRest')
         /\ Exact
<1>1. /\ session \in Sessions /\ app \in Seq(Names) /\ tentative \in Seq(TentativeChar)
      /\ mozcMode \in {"Composition", "Conversion"}
  BY DEF EngineTypeOK, TypeOK
<1>2. PICK p \in Seq(STRING) : session.text = p \o TextOf(tentative)
  BY DEF QuietPending
<1>3. PICK a \in Actions : Quiet(a) /\ out = <<a>>
  BY DEF QuietPending
<1>4. ~session.converting /\ mozcMode = "Composition" /\ open = Len(TextOf(tentative))
  BY <1>1 DEF QuietPending, Converts
<1>5. /\ \/ tentative' = <<>>
         \/ /\ tentative' = tentative /\ session'.text = session.text
            /\ ~session'.converting /\ mozcMode' = "Composition"
      /\ tentative' # <<>> /\ session.text # <<>> => app' = app
  BY <1>3, <1>4, QuietLands
<1>6. ASSUME tentative' # <<>>
      PROVE  tentative' = tentative /\ AtRest' /\ Exact
  <2>. DEFINE T == TextOf(tentative)
  <2>1. /\ tentative' = tentative /\ session'.text = session.text
        /\ ~session'.converting /\ mozcMode' = "Composition"
    BY <1>5, <1>6
  <2>2. AtRest'
    BY <1>2, <2>1 DEF AtRest, Converts
  <2>3. T \in Seq(STRING) /\ T # <<>>
    BY <1>1, <1>6, <2>1, TextType, PlainText
  <2>4. TextOf(tentative') = T
    BY <2>1
  <2>. HIDE DEF T
  <2>5. session.text # <<>>
    <3>1. Len(p \o T) = Len(p) + Len(T) /\ Len(p) \in Nat /\ Len(T) \in Nat
      BY <2>3, ConcatProperties, LenProperties
    <3>2. Len(T) # 0
      BY <2>3, EmptySeq
    <3>3. Len(p \o T) # 0
      BY <3>1, <3>2
    <3>4. session.text = p \o T
      BY <1>2 DEF T
    <3>. QED  BY <3>3, <3>4
  <2>6. app' = app
    BY <1>5, <1>6, <2>5
  <2>7. p \in Seq(Names) /\ T \in Seq(Names)
    BY <2>3, StringsAreNames
  <2>8. Screen = (app \o p) \o T
    <3>1. Screen = app \o (p \o T)
      BY <1>2 DEF Screen, T
    <3>2. app \in Seq(Names) /\ p \in Seq(Names) /\ T \in Seq(Names)
      BY <1>1, <2>7
    <3>3. app \o (p \o T) = (app \o p) \o T
      BY <3>2, NamesRegroup
    <3>. QED  BY <3>1, <3>3
  <2>9. Screen' = Screen
    BY <2>1, <2>6 DEF Screen
  <2>. DEFINE ap == app \o p
  <2>10. ap \in Seq(Names) /\ open = Len(T)
    BY <1>1, <1>4, <2>7, NamesJoin DEF T
  <2>. HIDE DEF ap
  <2>11. SubSeq(ap \o T, 1, Len(ap \o T) - open) = ap
    BY <2>7, <2>10, CutText
  <2>12. Exact
    BY <2>4, <2>8, <2>9, <2>11 DEF Exact, ap
  <2>. QED  BY <2>1, <2>2, <2>12
<1>. QED  BY <1>5, <1>6 DEF Exact

(* Dispatching a call keeps the characters at the end of the preedit, and  *)
(* does no more than the call was allowed to.                              *)
LEMMA DispatchLands ==
  ASSUME ScreenInv, ShownInv', call # Idle, Dispatch
  PROVE  /\ ScreenInv'
         /\ failures' = 0 /\ NothingEscapes => Exact
<1>1. EngineTypeOK /\ EngineTypeOK' /\ failures \in Nat /\ session' \in Sessions
      /\ Plain(tentative)
  BY DEF ScreenInv, ShownInv, EngineTypeOK
<1>2. /\ call' = Idle
      /\ tentative' = tentative \/ tentative' = <<>>
  BY DEF Dispatch, DispatchAnswered, DispatchAlone, DispatchFailed, Finish
<1>3. ASSUME tentative' = <<>>
      PROVE  AtRest' /\ Exact
  <2>1. session'.text \in Seq(STRING)
    BY <1>1 DEF Sessions
  <2>2. TextOf(tentative') = <<>> /\ session'.text \o <<>> = session'.text
    BY <1>3, <2>1, TextEmpty, ConcatEmptySeq
  <2>3. AtRest'
    BY <1>3, <2>1, <2>2 DEF AtRest
  <2>. QED  BY <1>3, <2>3 DEF Exact
<1>4. Plain(tentative')
  BY <1>1, <1>2 DEF Plain
<1>5. ASSUME failures' = 0
      PROVE  mozc' /\ AtRest' /\ (NothingEscapes => Exact)
  <2>1. CASE DispatchFailed
    <3>1. failures' = failures + 1
      BY <2>1 DEF DispatchFailed, LoseMozc
    <3>. QED  BY <1>1, <1>5, <3>1
  <2>2. CASE DispatchAnswered
    <3>1. mozc' = mozc /\ failures = 0 /\ AtCall
      BY <1>5, <2>2 DEF DispatchAnswered, ScreenInv
    <3>2. mozc'
      BY <3>1 DEF ScreenInv
    <3>3. CASE tentative = <<>>
      BY <1>2, <1>3, <3>2, <3>3
    <3>4. CASE RewritePending
      BY <1>1, <2>2, <3>2, <3>4, RewriteDone
    <3>5. CASE QuietPending
      BY <1>1, <1>3, <2>2, <3>2, <3>5, QuietDone
    <3>. QED  BY <3>1, <3>3, <3>4, <3>5 DEF AtCall
  <2>3. CASE DispatchAlone
    <3>1. /\ mozc' = mozc /\ session' = session /\ failures' = failures
          /\ mozcMode' = mozcMode /\ tentative' = tentative
      BY <1>1, <2>3, AloneKeeps
    <3>2. failures = 0 /\ mozc /\ AtCall /\ out # <<>> /\ Ops = <<>>
      BY <1>5, <2>3, <3>1 DEF DispatchAlone, ScreenInv
    <3>3. CASE tentative = <<>>
      BY <1>2, <1>3, <3>1, <3>2, <3>3
    <3>4. CASE RewritePending
      <4>1. PICK v \in Seq(STRING), cell \in Seq(Token) :
              KanaCell(cell) /\ out = Rewrite(Len(v), cell)
        BY <3>4 DEF RewritePending
      <4>2. Len(v) \in Nat
        BY LenType
      <4>3. Ops = out
        BY <4>1, <4>2, RewriteOps
      <4>. QED  BY <3>2, <4>3
    <3>5. CASE QuietPending
      <4>1. AtRest'
        BY <3>1, <3>5 DEF QuietPending, AtRest, Converts
      <4>2. PICK a \in Actions : out = <<a>> /\ (NothingEscapes => HasOp(a))
        BY <3>5 DEF QuietPending
      <4>3. ~HasOp(a)
        BY <3>2, <4>2, OneOp
      <4>. QED  BY <3>1, <3>2, <4>1, <4>2, <4>3
    <3>. QED  BY <3>2, <3>3, <3>4, <3>5 DEF AtCall
  <2>. QED  BY <2>1, <2>2, <2>3 DEF Dispatch
<1>. QED  BY <1>2, <1>4, <1>5 DEF ScreenInv

(* A press leaves Mozc's mode or returns to composition. *)
LEMMA KeyDownMode ==
  ASSUME NEW k \in Keys, NEW shift \in BOOLEAN, KeyDown(k, shift)
  PROVE  mozcMode' \in {mozcMode, "Composition"}
<1>1. ASSUME EnterRegular(k)  PROVE mozcMode' \in {mozcMode, "Composition"}
  BY <1>1 DEF EnterRegular
<1>2. ASSUME Speculative(k)  PROVE mozcMode' \in {mozcMode, "Composition"}
  BY <1>1, <1>2 DEF Speculative
<1>3. ASSUME mozcMode' = mozcMode  PROVE mozcMode' \in {mozcMode, "Composition"}
  BY <1>3
<1>4. CASE \/ HeldKeyDown(k) \/ ModifierKeyDown(k) \/ TriggerOn(k) \/ TriggerOff(k)
           \/ BackspaceDown(k)
  BY <1>3, <1>4 DEF HeldKeyDown, ModifierKeyDown, TriggerOn, TriggerOff, BackspaceDown
<1>5. CASE DirectKey(k) \/ LayerKey(k) \/ ChordKey(k)
  BY <1>1, <1>5 DEF DirectKey, LayerKey, ChordKey
<1>6. CASE RuleKey(k)
  BY <1>2, <1>6 DEF RuleKey
<1>7. CASE \/ WaitingKey(k) \/ UnassignedKey(k, shift) \/ PassthroughKey(k)
           \/ WholeCellKey(k) \/ SpeculativeKey(k)
  BY <1>2, <1>7 DEF WaitingKey, UnassignedKey, PassthroughKey, WholeCellKey, SpeculativeKey,
                    BaseKey, Unresolved
<1>. QED  BY <1>4, <1>5, <1>6, <1>7 DEF KeyDown

(* Layouts, keys and connections for which this is so. *)
ScreenConfig == /\ KanaLayout(Layout)
                /\ Connected
                /\ Keys \cap {"Return", "Escape"} = {}

(* Nothing is typed, and nothing is open.                                  *)
LEMMA ScreenInit ==
  ASSUME ScreenConfig, EngineInit
  PROVE  ScreenInv
<1>1. ShownInv
  BY ShownInit
<1>2. session \in Sessions
  BY <1>1 DEF ShownInv, EngineTypeOK
<1>3. tentative = <<>> /\ call = Idle /\ mozc
  BY DEF EngineInit, Init, ScreenConfig
<1>. QED  BY <1>1, <1>2, <1>3, NoneAtRest DEF ScreenInv

(* What is left when a call drops every character. *)
LEMMA DroppedAtRest ==
  ASSUME ShownInv', tentative' = <<>>
  PROVE  Plain(tentative') /\ AtRest'
<1>1. session'.text \in Seq(STRING)
  BY DEF ShownInv, EngineTypeOK, Sessions
<1>2. TextOf(tentative') = <<>> /\ session'.text \o <<>> = session'.text
  BY <1>1, TextEmpty, ConcatEmptySeq
<1>. QED  BY <1>1, <1>2 DEF AtRest, Plain

(* Every step of the engine leaves the open characters last in the preedit. *)
LEMMA ScreenStep ==
  ASSUME ScreenConfig, ScreenInv, [EngineNext]_evars
  PROVE  ScreenInv'
<1>1. ShownInv'
  BY ShownStep DEF ScreenInv
<1>2. /\ EngineTypeOK /\ TypeOK /\ Plain(tentative) /\ failures \in Nat
      /\ tentative' \in Seq(TentativeChar)
  BY <1>1 DEF ScreenInv, ShownInv, EngineTypeOK, TypeOK
<1>3. ASSUME NEW kind \in {"down", "up", "tick"}, NEW key, Called(kind, key),
             Shaped(tentative, tentative', out') \/ failures # 0, Plain(tentative'),
             mozcMode' \in {mozcMode, "Composition"}
      PROVE  ScreenInv'
  <2>1. call = Idle /\ mozc' = mozc /\ failures' = failures
    BY <1>3 DEF Called, link
  <2>2. CASE failures = 0
    <3>1. /\ call' = Idle => AtRest'
          /\ call' # Idle => out' # <<>> /\ AtCall'
      BY <1>2, <1>3, <2>1, <2>2, CallFits DEF ScreenInv, ScreenConfig
    <3>. QED  BY <1>1, <1>3, <2>1, <2>2, <3>1 DEF ScreenInv
  <2>3. CASE failures # 0
    BY <1>1, <1>3, <2>1, <2>3 DEF ScreenInv
  <2>. QED  BY <2>2, <2>3
<1>4. ASSUME NEW k \in Keys, NEW shift \in BOOLEAN, KeyDownCall(k, shift)
      PROVE  ScreenInv'
  <2>1. KeyDown(k, shift) /\ Called("down", k)
    BY <1>4 DEF KeyDownCall
  <2>2. PICK tb : Basis(tb) /\ Shaped(tb, tentative', out')
    BY <1>2, <2>1, KeyDownShape DEF ScreenConfig
  <2>3. Plain(tentative')
    BY <2>2 DEF Shaped
  <2>4. failures = 0 => tb = tentative
    <3>1. call = Idle
      BY <2>1 DEF Called
    <3>. QED  BY <2>2, <3>1 DEF ScreenInv, AtRest, Converts, Basis
  <2>5. mozcMode' \in {mozcMode, "Composition"}
    BY <2>1, KeyDownMode
  <2>. QED  BY <1>3, <2>1, <2>2, <2>3, <2>4, <2>5
<1>5. ASSUME NEW k \in Keys, KeyUpCall(k)
      PROVE  ScreenInv'
  <2>1. KeyUp(k) /\ Called("up", k)
    BY <1>5 DEF KeyUpCall
  <2>2. Shaped(tentative, tentative', out')
    BY <1>2, <2>1, KeyUpShape DEF ScreenConfig
  <2>3. Plain(tentative')
    BY <2>2 DEF Shaped
  <2>4. mozcMode' = mozcMode
    BY <2>1 DEF KeyUp, ModifierKeyUp, ModifierTap, TriggerUp, RegularKeyUp
  <2>. QED  BY <1>3, <2>1, <2>2, <2>3, <2>4
<1>6. CASE TickCall
  <2>1. Tick /\ Called("tick", "")
    BY <1>6 DEF TickCall
  <2>2. /\ Plain(tentative') /\ TextOf(tentative') = TextOf(tentative)
        /\ tentative = <<>> => tentative' = <<>>
        /\ out' = <<>> /\ mozcMode' = mozcMode
    BY <1>2, <2>1, TickShape
  <2>3. Shaped(tentative, tentative', out')
    BY <2>2 DEF Shaped, Kept
  <2>. QED  BY <1>3, <2>1, <2>2, <2>3
<1>7. CASE Dispatch
  <2>1. call # Idle
    BY <1>7 DEF Dispatch, DispatchAnswered, DispatchAlone, DispatchFailed
  <2>. QED  BY <1>1, <1>7, <2>1, DispatchLands
<1>8. CASE Reconnect
  <2>1. failures # 0 /\ failures' = failures /\ tentative' = tentative
    BY <1>8 DEF Reconnect, ScreenInv, vars
  <2>. QED  BY <1>1, <1>2, <2>1 DEF ScreenInv
<1>9. CASE ResetCall \/ SelectCandidate
  <2>1. tentative' = <<>> /\ call = Idle /\ call' = Idle
    BY <1>9 DEF ResetCall, SelectCandidate, Reset
  <2>2. \/ UNCHANGED <<mozc, failures>>
        \/ failures' = failures + 1
    BY <1>9 DEF ResetCall, SelectCandidate, LoseMozc, RevertFails, link
  <2>3. failures' = 0 => mozc'
    <3>1. failures + 1 # 0
      BY <1>2
    <3>. QED  BY <2>2, <3>1 DEF ScreenInv
  <2>. QED  BY <1>1, <2>1, <2>3, DroppedAtRest DEF ScreenInv
<1>10. CASE Wait
  <2>1. UNCHANGED <<call, mozc, session, failures, tentative, mozcMode>> /\ call = Idle
    BY <1>10 DEF Wait, Advance, link, buffers
  <2>. QED  BY <1>1, <2>1 DEF ScreenInv, AtRest, Converts
<1>11. CASE UNCHANGED evars
  <2>1. UNCHANGED <<call, mozc, session, failures, tentative, mozcMode, out, open>>
    BY <1>11 DEF evars, vars
  <2>. QED  BY <1>1, <2>1 DEF ScreenInv, AtRest, Converts, AtCall, RewritePending, QuietPending
<1>. QED  BY <1>4, <1>5, <1>6, <1>7, <1>8, <1>9, <1>10, <1>11 DEF EngineNext

(* At rest, the characters are at the end of the screen. *)
LEMMA RestIsOnScreen ==
  ASSUME ScreenInv
  PROVE  TentativeOnScreen
<1>1. SUFFICES ASSUME call = Idle, failures = 0
               PROVE  IsSuffix(TextOf(tentative), Screen)
  BY DEF TentativeOnScreen
<1>2. PICK p \in Seq(STRING) : session.text = p \o TextOf(tentative)
  BY <1>1 DEF ScreenInv, AtRest
<1>. DEFINE T == TextOf(tentative)
<1>3. app \in Seq(Names) /\ T \in Seq(STRING)
  BY TextType DEF ScreenInv, ShownInv, EngineTypeOK, TypeOK
<1>4. session.text = p \o T
  BY <1>2
<1>. HIDE DEF T
<1>5. p \in Seq(Names) /\ T \in Seq(Names)
  BY <1>3, StringsAreNames
<1>6. Screen = (app \o p) \o T
  <2>1. app \in Seq(Names) /\ p \in Seq(Names) /\ T \in Seq(Names)
    BY <1>3, <1>5
  <2>2. (app \o p) \o T = app \o (p \o T)
    BY <2>1, NamesRegroup
  <2>. QED  BY <1>4, <2>2 DEF Screen
<1>. DEFINE ap == app \o p
<1>7. ap \in Seq(Names)
  BY <1>3, <1>5, NamesJoin
<1>. HIDE DEF ap
<1>8. IsSuffix(T, ap \o T)
  BY <1>5, <1>7, SuffixIs
<1>. QED  BY <1>6, <1>8 DEF ap, T

(* In a layout that types kana, with Mozc there from the start and unless  *)
(* Return or Escape reach Mozc behind the state machine's back: whatever   *)
(* the keys and the order of events, and as long as no batch fails, the    *)
(* characters the state machine may rewrite end the text on the screen.    *)
THEOREM RewritableIsLast == ScreenConfig => (EngineSpec => []TentativeOnScreen)
<1>. SUFFICES ASSUME ScreenConfig  PROVE EngineSpec => []TentativeOnScreen
  OBVIOUS
<1>1. EngineInit => ScreenInv
  BY ScreenInit
<1>2. ScreenInv /\ [EngineNext]_evars => ScreenInv'
  BY ScreenStep
<1>3. ScreenInv => TentativeOnScreen
  BY RestIsOnScreen
<1>. QED  BY <1>1, <1>2, <1>3, PTL DEF EngineSpec

(* If moreover no key passes to the application while characters are open, *)
(* a call that leaves characters has put them right after the text it was  *)
(* not allowed to touch: it erases no more and no less, and nothing is     *)
(* typed in between.                                                       *)
THEOREM RewritesAreExact == ScreenConfig /\ NothingEscapes => (EngineSpec => RewriteExact)
<1>. SUFFICES ASSUME ScreenConfig, NothingEscapes  PROVE EngineSpec => RewriteExact
  OBVIOUS
<1>1. EngineInit => ScreenInv
  BY ScreenInit
<1>2. ScreenInv /\ [EngineNext]_evars => ScreenInv'
  BY ScreenStep
<1>. DEFINE Step == call # Idle /\ failures' = 0 /\ tentative' # <<>> =>
                      Screen' = SubSeq(Screen, 1, Len(Screen) - open) \o TextOf(tentative')
<1>3. ScreenInv /\ ScreenInv' /\ [EngineNext]_evars => [Step]_evars
  <2>1. SUFFICES ASSUME ScreenInv, ScreenInv', EngineNext, call # Idle, failures' = 0
                 PROVE  Exact
    BY DEF Exact
  <2>2. Dispatch
    BY <2>1 DEF EngineNext, KeyDownCall, KeyUpCall, TickCall, Called, Reconnect, ResetCall,
                SelectCandidate, Wait
  <2>3. ShownInv'
    BY <2>1 DEF ScreenInv
  <2>. QED  BY <2>1, <2>2, <2>3, DispatchLands
<1>. QED  BY <1>1, <1>2, <1>3, PTL DEF EngineSpec, RewriteExact

-----------------------------------------------------------------------------
(* The engine implements the editor (module Editor).                       *)

(* Where no batch fails and no direct sequence is typed. *)
EditConfig == /\ ScreenConfig
              /\ NothingEscapes
              /\ NoDirects(Layout)
              /\ MaxFailures = 0

(* A call of one action that is no rewrite: the user's BackSpace or a      *)
(* submit, a key for Mozc, or, with nothing open, one for the application. *)
Lone(a) == \/ a.act \in {"Backspace", "SubmitThenPassthrough"}
           \/ /\ a.act \in {"SendFunctionKey", "SendModifiedKey"}
              /\ HasOp(a)
              /\ \E k \in QuietKeys : a.text = <<k>>
           \/ /\ a.act = "Passthrough"
              /\ open = 0 /\ tentative = <<>>
              /\ call.kind = "down" => call.key \notin BackspaceKeys
LonePending == \E a \in Actions : out = <<a>> /\ Lone(a)

(* The inductive invariant of the refinement. *)
EditInv == /\ ScreenInv
           /\ failures = 0
           /\ call # Idle => RewritePending \/ LonePending

(* A text is a prefix of what continues it, and so is what is left of it. *)
LEMMA PrefixCut ==
  ASSUME NEW S, NEW s \in Seq(S), NEW c \in Seq(S), NEW n \in Nat
  PROVE  IsPrefix(SubSeq(s, 1, Len(s) - n), s \o c)
<1>. DEFINE t == s \o c
            l == Len(s)
<1>1. /\ t \in Seq(S) /\ Len(t) = l + Len(c) /\ l \in Nat /\ Len(c) \in Nat
      /\ \A i \in 1..l : t[i] = s[i]
  <2>1. \A i \in 1..(Len(s) + Len(c)) : i <= Len(s) => t[i] = s[i]
    BY ConcatProperties
  <2>2. t \in Seq(S) /\ Len(t) = l + Len(c) /\ l \in Nat /\ Len(c) \in Nat
    BY ConcatProperties, LenProperties
  <2>. QED  BY <2>1, <2>2
<1>. HIDE DEF t
<1>2. CASE l - n <= 0
  <2>1. SubSeq(s, 1, l - n) = <<>>
    BY <1>1, <1>2
  <2>2. SubSeq(t, 1, 0) = <<>> /\ 0 <= Len(t) /\ SubSeq(<<>>, 1, 0) = <<>> /\ Len(<<>>) = 0
    BY <1>1
  <2>. QED  BY <2>1, <2>2 DEF IsPrefix, t
<1>3. CASE l - n > 0
  <2>. DEFINE m == l - n
              a == SubSeq(s, 1, m)
  <2>1. m \in 1..l
    BY <1>1, <1>3
  <2>. HIDE DEF m
  <2>2. a \in Seq(S) /\ Len(a) = m /\ \A i \in 1..m : a[i] = s[i]
    BY <1>1, <2>1
  <2>. HIDE DEF a
  <2>3. m <= Len(t) /\ m \in Nat
    BY <1>1, <2>1
  <2>4. \A i \in 1..m : a[i] = t[i]
    <3>. HIDE DEF l
    <3>1. l \in Nat
      BY <1>1
    <3>2. \A i \in 1..m : i \in 1..l
      BY <2>1, <3>1
    <3>. QED  BY <1>1, <2>2, <3>2
  <2>5. SubSeq(a, 1, m) = SubSeq(t, 1, m)
    BY <1>1, <2>2, <2>3, <2>4
  <2>. QED  BY <2>2, <2>3, <2>5 DEF IsPrefix, a, m, t
<1>. QED  BY <1>1, <1>2, <1>3

(* The same of a text. *)
LEMMA PrefixIs ==
  ASSUME NEW S, NEW s \in Seq(S), NEW c \in Seq(S)
  PROVE  IsPrefix(s, s \o c)
<1>1. SubSeq(s, 1, Len(s) - 0) = s
  OBVIOUS
<1>2. IsPrefix(SubSeq(s, 1, Len(s) - 0), s \o c)
  BY PrefixCut
<1>. QED  BY <1>1, <1>2

(* The last character of a text is that of its end. *)
LEMMA FrontOfJoin ==
  ASSUME NEW S, NEW a \in Seq(S), NEW b \in Seq(S), b # <<>>
  PROVE  a \o b # <<>> /\ Front(a \o b) = a \o Front(b)
<1>. DEFINE t == a \o b
            f == Front(b)
            la == Len(a)
            n == Len(b) - 1
<1>1. n \in Nat /\ Len(b) = n + 1 /\ la \in Nat
  <2>1. Len(b) # 0 /\ Len(b) \in Nat /\ Len(a) \in Nat
    BY EmptySeq, LenProperties
  <2>. QED  BY <2>1
<1>2. /\ t \in Seq(S) /\ Len(t) = la + Len(b)
      /\ \A i \in 1..(la + Len(b)) : t[i] = IF i <= la THEN a[i] ELSE b[i - la]
  BY ConcatProperties
<1>3. f \in Seq(S) /\ Len(f) = n /\ \A i \in 1..n : f[i] = b[i]
  BY <1>1 DEF Front
<1>. HIDE DEF f, t, n
<1>. DEFINE m == Len(t) - 1
            g == SubSeq(t, 1, m)
            h == a \o f
<1>4. m = la + n /\ m \in Nat /\ Len(t) = m + 1
  BY <1>1, <1>2
<1>. HIDE DEF m
<1>5. g \in Seq(S) /\ Len(g) = m /\ \A i \in 1..m : g[i] = t[i]
  BY <1>2, <1>4
<1>6. /\ h \in Seq(S) /\ Len(h) = la + n
      /\ \A i \in 1..(la + n) : h[i] = IF i <= la THEN a[i] ELSE f[i - la]
  BY <1>3, ConcatProperties
<1>. HIDE DEF g, h, la
<1>7. ASSUME NEW i \in 1..m  PROVE g[i] = h[i]
  <2>1. i \in 1..(la + Len(b)) /\ i \in 1..(la + n)
    BY <1>1, <1>4
  <2>2. CASE i <= la
    BY <1>2, <1>5, <1>6, <2>1, <2>2
  <2>3. CASE ~(i <= la)
    <3>1. i - la \in 1..n
      BY <1>1, <1>4, <2>3
    <3>2. f[i - la] = b[i - la]
      BY <1>3, <3>1
    <3>. QED  BY <1>2, <1>5, <1>6, <2>1, <2>3, <3>2
  <2>. QED  BY <2>2, <2>3
<1>8. g = h
  BY <1>4, <1>5, <1>6, <1>7, SeqEqual
<1>9. t # <<>>
  BY <1>2, <1>4
<1>. QED  BY <1>8, <1>9 DEF g, h, f, t, m, Front

(* What a step of the user's or the application's may do to a text. *)
Steps(x, y) == \/ \E c \in Seq(Names) : y = x \o c
               \/ x # <<>> /\ y = Front(x)

(* A text steps to itself. *)
LEMMA StaysStep ==
  ASSUME NEW x \in Seq(Names)
  PROVE  Steps(x, x)
<1>1. x = x \o <<>> /\ <<>> \in Seq(Names)
  BY ConcatEmptySeq, NoElements
<1>. QED  BY <1>1 DEF Steps

(* So does a key. *)
LEMMA AppKeysStep ==
  ASSUME NEW text \in Seq(Names), NEW keys \in Seq(Names)
  PROVE  Steps(text, AppKeys(text, keys))
<1>1. CASE keys = <<>>
  BY <1>1, StaysStep DEF AppKeys
<1>2. CASE keys # <<>> /\ keys[1] \in BackspaceKeys /\ text = <<>>
  <2>1. Max({0, Len(text) - 1}) = 0
    BY <1>2 DEF Max
  <2>2. SubSeq(text, 1, 0) = text
    BY <1>2
  <2>3. AppKeys(text, keys) = text
    BY <1>2, <2>1, <2>2 DEF AppKeys, AppKey
  <2>. QED  BY <2>3, StaysStep
<1>3. CASE keys # <<>> /\ keys[1] \in BackspaceKeys /\ text # <<>>
  <2>1. Len(text) - 1 \in Nat
    BY <1>3
  <2>2. Max({0, Len(text) - 1}) = Len(text) - 1
    BY <2>1 DEF Max
  <2>3. AppKeys(text, keys) = Front(text)
    BY <1>3, <2>2 DEF AppKeys, AppKey, Front
  <2>. QED  BY <1>3, <2>3 DEF Steps
<1>4. CASE keys # <<>> /\ keys[1] \notin BackspaceKeys
  <2>1. keys[1] \in Names
    BY <1>4
  <2>2. AppKeys(text, keys) = Append(text, keys[1])
    BY <1>4 DEF AppKeys, AppKey
  <2>3. Append(text, keys[1]) = text \o <<keys[1]>> /\ <<keys[1]>> \in Seq(Names)
    BY <2>1
  <2>. QED  BY <2>2, <2>3 DEF Steps
<1>. QED  BY <1>1, <1>2, <1>3, <1>4

(* The reply to a lone op, and the key the application gets after what     *)
(* Mozc commits: none if Mozc consumed the op's key.                       *)
LEMMA LoneReply ==
  ASSUME EngineTypeOK, DispatchAnswered, NEW a \in Actions, out = <<a>>, Lone(a)
  PROVE  LET o == Served(session, a) IN
         /\ a.act # "Passthrough" /\ o \in Replied
         /\ session' = [text |-> o.text, converting |-> o.converting]
         /\ \E keys \in Seq(Names) :
              /\ app' = AppKeys(app \o o.result, keys)
              /\ o.consumed /\ a.act # "SubmitThenPassthrough" => keys = <<>>
<1>. DEFINE o == Served(session, a)
            replies == <<o>>
            u == Undispatched(replies, TRUE)
            s == Applied(u)
            r == Dispatched(replies, TRUE)
            key == IF r.passthrough # <<>> /\ call.kind = "down" THEN <<call.key>> ELSE <<>>
<1>1. /\ HasOp(a) /\ o \in Replied
      /\ session' = [text |-> o.text, converting |-> o.converting]
      /\ r = Handled(u, a)
      /\ Finish(replies, TRUE)
  BY OneReply
<1>2. a.act \in {"Backspace", "SubmitThenPassthrough", "SendFunctionKey", "SendModifiedKey"}
      /\ a.text \in Seq(STRING)
  BY <1>1 DEF Lone, HasOp, Actions
<1>3. o \in Replied /\ replies # <<>> /\ Head(replies) = o
  BY <1>1
<1>4. app \in Seq(Names) /\ a.text \in Seq(Names) /\ o.result \in Seq(STRING)
  BY <1>2, <1>3, StringsAreNames DEF EngineTypeOK, Replied
<1>. HIDE DEF replies, o
<1>5. /\ s.commit = <<>> \o o.result /\ s.passthrough = <<>> /\ s.forward = <<>>
      /\ s.consumed = FALSE
  BY <1>3 DEF Applied, Undispatched
<1>6. DOMAIN s = DOMAIN u /\ DOMAIN u = {"replies", "alive", "commit", "passthrough", "forward",
                                         "consumed", "preedit", "candidates", "mode", "cleared"}
  BY DEF Applied, Undispatched
<1>7. u.replies = replies
  BY DEF Undispatched
<1>8. s.commit = o.result
  BY <1>4, <1>5, ConcatEmptySeq
<1>. HIDE DEF u
<1>9. \/ r = [s EXCEPT !.passthrough = Fallback(a)] /\ ~o.consumed
      \/ r = [s EXCEPT !.consumed = TRUE] /\ a.act # "SubmitThenPassthrough"
      \/ r = [s EXCEPT !.passthrough = a.text] /\ a.act = "SubmitThenPassthrough"
      \/ r = [s EXCEPT !.forward = IF o.consumed THEN s.forward ELSE a.text, !.consumed = TRUE]
  <2>. HIDE DEF s, r
  <2>1. CASE a.act = "SendFunctionKey"
    BY <1>1, <1>3, <1>7, <2>1 DEF Handled, s
  <2>2. CASE a.act = "SendModifiedKey"
    BY <1>1, <1>3, <1>7, <2>2 DEF Handled, s
  <2>3. CASE a.act = "Backspace"
    BY <1>1, <1>3, <1>7, <2>3 DEF Handled, s
  <2>4. CASE a.act = "SubmitThenPassthrough"
    BY <1>1, <1>3, <1>7, <2>4 DEF Handled, s
  <2>. QED  BY <1>2, <2>1, <2>2, <2>3, <2>4
<1>. HIDE DEF s
<1>10. app' = Shown(r)
  BY <1>1 DEF Finish
<1>. HIDE DEF r
<1>11. r.commit = o.result
  BY <1>6, <1>8, <1>9
<1>12. AppKeys(app, <<>>) = app /\ \A t : AppKeys(t, <<>>) = t
  BY DEF AppKeys
<1>13. CASE r.consumed = TRUE
  <2>1. r.passthrough = <<>>
    BY <1>5, <1>6, <1>9, <1>13
  <2>2. r.forward = <<>> \/ (r.forward = a.text /\ ~o.consumed)
    BY <1>5, <1>6, <1>9, <1>13
  <2>3. app' = AppKeys(app \o o.result, r.forward)
    BY <1>10, <1>11, <1>12, <1>13, <2>1 DEF Shown
  <2>4. r.forward \in Seq(Names)
    BY <1>4, <2>2, NoElements
  <2>5. o.consumed /\ a.act # "SubmitThenPassthrough" => r.forward = <<>>
    BY <2>2
  <2>. QED  BY <1>1, <1>2, <2>3, <2>4, <2>5 DEF o
<1>14. CASE r.consumed = FALSE
  <2>1. r.forward = <<>> /\ (o.consumed => a.act = "SubmitThenPassthrough")
    BY <1>5, <1>6, <1>9, <1>14
  <2>2. app' = AppKeys(app \o o.result, key)
    BY <1>10, <1>11, <1>12, <1>14, <2>1 DEF Shown
  <2>3. key \in Seq(Names)
    <3>1. call.kind = "down" => call.key \in Names
      BY KeysAssumption DEF EngineTypeOK, Names
    <3>2. call.kind = "down" => <<call.key>> \in Seq(Names)
      BY <3>1, OneElement
    <3>. QED  BY <3>2, NoElements
  <2>. HIDE DEF key
  <2>. QED  BY <1>1, <1>2, <2>1, <2>2, <2>3 DEF o
<1>15. r.consumed \in BOOLEAN
  BY <1>5, <1>6, <1>9
<1>. QED  BY <1>13, <1>14, <1>15

(* What Mozc does with one: it takes a character or leaves them, and       *)
(* commits them, or a space.                                               *)
LEMMA LoneServed ==
  ASSUME EngineTypeOK, NEW a \in Actions, Lone(a), a.act # "Passthrough"
  PROVE  LET o == Served(session, a)
             quiet == o.consumed /\ a.act # "SubmitThenPassthrough"
         IN  \/ o.text = <<>> /\ o.result = session.text
             \/ o.text = session.text /\ o.result = <<>> /\ quiet
             \/ /\ session.text # <<>> /\ o.text = Front(session.text)
                /\ o.result = <<>> /\ quiet
             \/ session.text = <<>> /\ o.text = <<>> /\ quiet
<1>1. session \in Sessions /\ session.converting \in BOOLEAN
  BY DEF EngineTypeOK, Sessions
<1>2. CASE a.act = "Backspace"
  <2>1. Served(session, a) = BackspaceKey(session)
    BY <1>2 DEF Served
  <2>. QED  BY <1>1, <1>2, <2>1 DEF BackspaceKey, Reply
<1>3. CASE a.act = "SubmitThenPassthrough"
  BY <1>3 DEF Served, Reply
<1>4. CASE a.act \in {"SendFunctionKey", "SendModifiedKey"}
  <2>1. PICK k \in QuietKeys : a.text = <<k>>
    BY <1>4 DEF Lone
  <2>2. Served(session, a) = FunctionKey(session, a.text)
    BY <1>4 DEF Served
  <2>3. k \notin BackspaceKeys /\ k # "Return" /\ k # "Escape"
    BY DEF QuietKeys, MOZC_CONTROL_KEYS, BackspaceKeys
  <2>4. a.text[1] = k
    BY <2>1
  <2>5. CASE session.text = <<>>
    <3>1. CASE k = "space"
      BY <1>4, <2>2, <2>3, <2>4, <2>5, <3>1 DEF FunctionKey, Reply
    <3>2. CASE k # "space"
      BY <1>4, <2>2, <2>3, <2>4, <2>5, <3>2 DEF FunctionKey, Reply
    <3>. QED  BY <3>1, <3>2
  <2>6. CASE session.text # <<>>
    BY <1>4, <2>2, <2>3, <2>4, <2>6 DEF FunctionKey, Reply
  <2>. QED  BY <2>5, <2>6
<1>. QED  BY <1>2, <1>3, <1>4 DEF Lone

(* On the screen that is at most one character more or less at the end. *)
LEMMA LoneLands ==
  ASSUME EngineTypeOK, DispatchAnswered, NEW a \in Actions, out = <<a>>, Lone(a)
  PROVE  Steps(Screen, Screen')
<1>. DEFINE o == Served(session, a)
            x == session.text
            quiet == o.consumed /\ a.act # "SubmitThenPassthrough"
<1>1. /\ a.act # "Passthrough" /\ o \in Replied
      /\ session' = [text |-> o.text, converting |-> o.converting]
  BY LoneReply
<1>2. PICK keys \in Seq(Names) : /\ app' = AppKeys(app \o o.result, keys)
                                 /\ quiet => keys = <<>>
  BY LoneReply
<1>3. \/ o.text = <<>> /\ o.result = x
      \/ o.text = x /\ o.result = <<>> /\ quiet
      \/ x # <<>> /\ o.text = Front(x) /\ o.result = <<>> /\ quiet
      \/ x = <<>> /\ o.text = <<>> /\ quiet
  BY <1>1, LoneServed
<1>4. app \in Seq(Names) /\ x \in Seq(Names) /\ o.result \in Seq(Names)
  BY <1>1, StringsAreNames DEF EngineTypeOK, Sessions, Replied
<1>5. Screen = app \o x /\ Screen' = app' \o o.text
  BY <1>1 DEF Screen
<1>6. \A s \in Seq(Names) : s \o <<>> = s
  BY ConcatEmptySeq
<1>7. Screen \in Seq(Names)
  BY <1>4, <1>5, NamesJoin
<1>8. quiet => app' = app \o o.result
  BY <1>2 DEF AppKeys
<1>9. CASE o.text = <<>> /\ o.result = x
  <2>. HIDE DEF o, x, quiet
  <2>1. app' = AppKeys(Screen, keys)
    BY <1>2, <1>5, <1>9
  <2>2. app' \in Seq(Names)
    BY <1>7, <2>1, AppKeysType
  <2>3. Screen' = AppKeys(Screen, keys)
    BY <1>5, <1>6, <1>9, <2>1, <2>2
  <2>. QED  BY <1>7, <2>3, AppKeysStep
<1>10. CASE o.text = x /\ o.result = <<>> /\ quiet
  <2>. HIDE DEF o, x, quiet
  <2>1. Screen' = Screen
    BY <1>4, <1>5, <1>6, <1>8, <1>10
  <2>. QED  BY <1>7, <2>1, StaysStep
<1>11. CASE x # <<>> /\ o.text = Front(x) /\ o.result = <<>> /\ quiet
  <2>. HIDE DEF o, x, quiet
  <2>1. Screen' = app \o Front(x)
    BY <1>4, <1>5, <1>6, <1>8, <1>11
  <2>2. app \o x # <<>> /\ Front(app \o x) = app \o Front(x)
    BY <1>4, <1>11, FrontOfJoin
  <2>. QED  BY <1>5, <2>1, <2>2 DEF Steps
<1>12. CASE x = <<>> /\ o.text = <<>> /\ quiet
  <2>. HIDE DEF o, x, quiet
  <2>1. app \o o.result \in Seq(Names)
    BY <1>4, NamesJoin
  <2>2. Screen' = Screen \o o.result
    BY <1>4, <1>5, <1>6, <1>8, <1>12, <2>1
  <2>. QED  BY <1>4, <2>2 DEF Steps
<1>. QED  BY <1>3, <1>9, <1>10, <1>11, <1>12

(* A key that only the application gets: on a press it is the event's own. *)
LEMMA PassLands ==
  ASSUME EngineTypeOK, DispatchAlone, NEW a \in Actions, out = <<a>>, a.act = "Passthrough"
  PROVE  /\ UNCHANGED <<session, tentative>> /\ call' = Idle
         /\ app' = app \/ (call.kind = "down" /\ app' = AppKey(app, call.key))
<1>. DEFINE u == Undispatched(<<>>, FALSE)
            r == Dispatched(<<>>, FALSE)
            key == IF r.passthrough # <<>> /\ call.kind = "down" THEN <<call.key>> ELSE <<>>
<1>1. /\ out \in Seq(Actions) /\ preedit \in Seq(STRING) /\ app \in Seq(Names)
      /\ candidates \in Seq(STRING) /\ mozcMode \in Modes
  BY DEF EngineTypeOK, TypeOK, Modes
<1>2. r = Handled(u, a)
  <2>1. <<>> \in Seq(Replied)
    BY NoElements
  <2>2. PICK done \in [0..Len(out) -> LoopState] :
          Loop(done, <<>>, FALSE) /\ r = done[Len(out)]
    BY <1>1, <2>1, DispatchedIs
  <2>3. Len(out) = 1 /\ out[1] = a /\ 1 - 1 = 0
    OBVIOUS
  <2>. HIDE DEF u, r
  <2>4. done[1] = Handled(done[1 - 1], out[1]) /\ done[0] = u
    BY <2>2, <2>3 DEF Loop, u
  <2>. QED  BY <2>2, <2>3, <2>4
<1>3. u.commit = <<>> /\ u.forward = <<>> /\ u.consumed = FALSE
  BY DEF Undispatched
<1>4. r = [u EXCEPT !.passthrough = a.text]
  <2>. HIDE DEF u, r
  <2>. QED  BY <1>2 DEF Handled
<1>5. DOMAIN u = {"replies", "alive", "commit", "passthrough", "forward",
                  "consumed", "preedit", "candidates", "mode", "cleared"}
  BY DEF Undispatched
<1>. HIDE DEF u
<1>6. r.commit = <<>> /\ r.forward = <<>> /\ r.consumed = FALSE
  BY <1>3, <1>4, <1>5
<1>7. Finish(<<>>, FALSE)
  BY DEF DispatchAlone
<1>8. app' = Shown(r) /\ call' = Idle
  BY <1>7 DEF Finish
<1>. HIDE DEF r
<1>9. Shown(r) = AppKeys(AppKeys(app \o <<>>, <<>>), key)
  BY <1>6 DEF Shown
<1>10. app \o <<>> = app
  BY <1>1, ConcatEmptySeq
<1>11. app' = AppKeys(app, key)
  BY <1>8, <1>9, <1>10 DEF AppKeys
<1>12. UNCHANGED <<session, tentative>>
  BY AloneKeeps
<1>13. app' = app \/ (call.kind = "down" /\ app' = AppKey(app, call.key))
  BY <1>11 DEF AppKeys
<1>. QED  BY <1>8, <1>12, <1>13

(* A key that erases is never passed to the application by the rules. *)
LEMMA PassesOthers ==
  ASSUME NEW k \in Keys, NEW shift \in BOOLEAN, KeyDown(k, shift),
         NEW j, out' = <<Action("Passthrough", <<j>>)>>
  PROVE  k \notin BackspaceKeys
<1>1. out' # <<>> /\ out'[1].act = "Passthrough"
  BY DEF Action
<1>2. ASSUME EnterRegular(k)  PROVE k \notin BackspaceKeys
  BY <1>2 DEF EnterRegular, Regular
<1>3. CASE HeldKeyDown(k) \/ ModifierKeyDown(k) \/ TriggerOff(k)
  BY <1>1, <1>3 DEF HeldKeyDown, ModifierKeyDown, TriggerOff
<1>4. CASE TriggerOn(k)
  <2>1. out' = Backspaces(tentative, 0)
    BY <1>4 DEF TriggerOn
  <2>2. \A i \in DOMAIN out' : out'[i].act = "Backspace"
    BY <2>1 DEF Backspaces, Action
  <2>3. 1 \in DOMAIN out'
    OBVIOUS
  <2>. QED  BY <1>1, <2>2, <2>3
<1>5. CASE BackspaceDown(k)
  <2>1. \/ out' = Backspaces(tentative, Len(tentative) - 1)
        \/ out' = <<Action("Backspace", <<>>)>> \/ out' = <<>>
    BY <1>5 DEF BackspaceDown
  <2>2. \A i \in DOMAIN out' : out'[i].act = "Backspace"
    BY <2>1 DEF Backspaces, Action
  <2>3. 1 \in DOMAIN out'
    OBVIOUS
  <2>. QED  BY <1>1, <2>2, <2>3
<1>6. CASE DirectKey(k) \/ LayerKey(k) \/ ChordKey(k)
  BY <1>2, <1>6 DEF DirectKey, LayerKey, ChordKey
<1>7. CASE RuleKey(k)
  BY <1>2, <1>7 DEF RuleKey, Speculative
<1>8. CASE \/ WaitingKey(k) \/ UnassignedKey(k, shift) \/ PassthroughKey(k)
           \/ WholeCellKey(k) \/ SpeculativeKey(k)
  BY <1>2, <1>8 DEF WaitingKey, UnassignedKey, PassthroughKey, WholeCellKey, SpeculativeKey,
                    BaseKey, Unresolved, Speculative
<1>. QED  BY <1>3, <1>4, <1>5, <1>6, <1>7, <1>8 DEF KeyDown

(* A call is a rewrite of the open characters, or one action of its own. *)
LEMMA CallPends ==
  ASSUME EditConfig, EngineTypeOK, AtRest, Shaped(tentative, tentative', out'),
         NEW kind \in {"down", "up", "tick"}, NEW key, Called(kind, key), call' # Idle,
         \A j : kind = "down" /\ out' = <<Action("Passthrough", <<j>>)>> => key \notin BackspaceKeys
  PROVE  RewritePending' \/ LonePending'
<1>1. out' # <<>> /\ call' = [kind |-> kind, key |-> key] /\ open' = Len(TextOf(tentative))
  BY DEF Called
<1>2. CASE Rewritten(tentative, tentative', out')
  BY <1>1, <1>2, RewriteFits
<1>3. CASE Dropped(tentative', out')
  <2>1. PICK a \in Actions : a.act \in {"Backspace", "SubmitThenPassthrough"} /\ out' = <<a>>
    BY <1>1, <1>3 DEF Dropped, EditConfig
  <2>. QED  BY <2>1 DEF LonePending, Lone
<1>4. CASE Kept(tentative, tentative', out')
  <2>1. CASE \E k \in Keys : /\ out' = <<Action("Passthrough", <<k>>)>>
                             /\ NothingPassed(Layout) => tentative' = <<>>
    <3>1. PICK k \in Keys : out' = <<Action("Passthrough", <<k>>)>> /\ tentative' = <<>>
      BY <2>1 DEF EditConfig, NothingEscapes
    <3>. DEFINE a == Action("Passthrough", <<k>>)
    <3>2. a \in Actions /\ a.act = "Passthrough"
      <4>1. "Passthrough" \in ActionNames /\ <<k>> \in Seq(STRING)
        BY KeysAssumption, OneElement DEF ActionNames
      <4>. QED  BY <4>1, ActionType DEF Action
    <3>3. open' = 0
      <4>1. TextOf(tentative') = TextOf(tentative) /\ TextOf(tentative') = <<>>
        BY <1>4, <3>1, TextEmpty DEF Kept
      <4>2. Len(<<>>) = 0
        OBVIOUS
      <4>. QED  BY <1>1, <4>1, <4>2
    <3>4. call'.kind = "down" => call'.key \notin BackspaceKeys
      BY <1>1, <3>1
    <3>5. out' = <<a>>
      BY <3>1
    <3>. HIDE DEF a
    <3>. QED  BY <3>1, <3>2, <3>3, <3>4, <3>5 DEF LonePending, Lone
  <2>2. CASE \E k \in Keys, act \in {"SendFunctionKey", "SendModifiedKey"} :
               k \in MOZC_CONTROL_KEYS /\ out' = <<Action(act, <<k>>)>>
    <3>1. PICK k \in Keys, act \in {"SendFunctionKey", "SendModifiedKey"} :
            k \in MOZC_CONTROL_KEYS /\ out' = <<Action(act, <<k>>)>>
      BY <2>2
    <3>. DEFINE a == Action(act, <<k>>)
    <3>2. a \in Actions /\ a.act = act /\ a.text = <<k>>
      <4>1. act \in ActionNames /\ <<k>> \in Seq(STRING)
        BY KeysAssumption, OneElement DEF ActionNames
      <4>. QED  BY <4>1, ActionType DEF Action
    <3>3. k \in QuietKeys
      BY <3>1 DEF QuietKeys, EditConfig, ScreenConfig
    <3>4. HasOp(a)
      <4>1. k \notin SuperTokens
        BY DEF EditConfig, NothingEscapes
      <4>2. <<k>>[1] = k
        OBVIOUS
      <4>. QED  BY <4>1, <4>2 DEF HasOp, Action
    <3>5. out' = <<a>>
      BY <3>1
    <3>. HIDE DEF a
    <3>. QED  BY <3>2, <3>3, <3>4, <3>5 DEF LonePending, Lone
  <2>. QED  BY <1>1, <1>4, <2>1, <2>2 DEF Kept
<1>. QED  BY <1>2, <1>3, <1>4 DEF Shaped

(* So is it from one call to the next. *)
LEMMA EditStep ==
  ASSUME EditConfig, EditInv, [EngineNext]_evars
  PROVE  EditInv'
<1>1. ScreenInv' /\ ScreenConfig
  BY ScreenStep DEF EditInv, EditConfig
<1>2. failures = 0 /\ failures' = 0 /\ MaxFailures = 0
  <2>1. MaxFailures = 0 /\ failures = 0
    BY DEF EditInv, EditConfig
  <2>2. ~LoseMozc /\ ~RevertFails
    BY <2>1 DEF LoseMozc, RevertFails
  <2>. QED  BY <2>1, <2>2 DEF EngineNext, evars, KeyDownCall, KeyUpCall, TickCall, Called, link,
                Dispatch, DispatchAnswered, DispatchAlone, DispatchFailed, Reconnect, ResetCall,
                SelectCandidate, Wait
<1>3. /\ EngineTypeOK /\ TypeOK /\ Plain(tentative) /\ (call = Idle => AtRest)
  BY <1>2 DEF EditInv, ScreenInv, ShownInv, EngineTypeOK
<1>4. ASSUME NEW k \in Keys, NEW shift \in BOOLEAN, KeyDownCall(k, shift), call' # Idle
      PROVE  RewritePending' \/ LonePending'
  <2>1. KeyDown(k, shift) /\ Called("down", k) /\ call = Idle
    BY <1>4 DEF KeyDownCall, Called
  <2>2. PICK tb : Basis(tb) /\ Shaped(tb, tentative', out')
    BY <1>1, <1>3, <2>1, KeyDownShape DEF ScreenConfig
  <2>3. tb = tentative
    BY <1>3, <2>1, <2>2 DEF AtRest, Converts, Basis
  <2>4. \A j : out' = <<Action("Passthrough", <<j>>)>> => k \notin BackspaceKeys
    BY <2>1, PassesOthers
  <2>. QED  BY <1>3, <1>4, <2>1, <2>2, <2>3, <2>4, CallPends
<1>5. ASSUME NEW k \in Keys, KeyUpCall(k), call' # Idle
      PROVE  RewritePending' \/ LonePending'
  <2>1. KeyUp(k) /\ Called("up", k) /\ call = Idle
    BY <1>5 DEF KeyUpCall, Called
  <2>2. Shaped(tentative, tentative', out')
    BY <1>1, <1>3, <2>1, KeyUpShape DEF ScreenConfig
  <2>. QED  BY <1>3, <1>5, <2>1, <2>2, CallPends
<1>6. ASSUME TickCall  PROVE call' = Idle
  <2>1. Tick /\ Called("tick", "")
    BY <1>6 DEF TickCall
  <2>2. out' = <<>>
    BY <1>3, <2>1, TickShape
  <2>. QED  BY <2>1, <2>2 DEF Called
<1>7. ASSUME Dispatch \/ Reconnect \/ ResetCall \/ SelectCandidate \/ Wait  PROVE call' = Idle
  BY <1>7 DEF Dispatch, DispatchAnswered, DispatchAlone, DispatchFailed, Finish,
              Reconnect, ResetCall, SelectCandidate, Wait
<1>8. ASSUME UNCHANGED evars, call' # Idle  PROVE RewritePending' \/ LonePending'
  <2>1. UNCHANGED <<call, session, tentative, out, open>> /\ (RewritePending \/ LonePending)
    BY <1>8 DEF evars, vars, EditInv
  <2>. QED  BY <2>1 DEF RewritePending, LonePending, Lone
<1>9. call' # Idle => RewritePending' \/ LonePending'
  BY <1>4, <1>5, <1>6, <1>7, <1>8 DEF EngineNext
<1>. QED  BY <1>1, <1>2, <1>9 DEF EditInv

(* The characters the editor may rewrite: what the refinement maps open to. *)
Open == IF call = Idle THEN Len(TextOf(tentative)) ELSE open

(* Between calls they are on the screen. *)
LEMMA OpenFits ==
  ASSUME EditInv', call' = Idle
  PROVE  Open' \in 0..Len(Screen')
<1>. DEFINE T == TextOf(tentative')
            x == session'.text
<1>1. tentative' \in Seq(TentativeChar) /\ app' \in Seq(Names) /\ AtRest'
  BY DEF EditInv, ScreenInv, ShownInv, EngineTypeOK, TypeOK
<1>2. PICK p \in Seq(STRING) : x = p \o T
  BY <1>1 DEF AtRest
<1>3. T \in Seq(STRING)
  BY <1>1, TextType
<1>4. Open' = Len(T) /\ Screen' = app' \o x
  BY DEF Open, Screen
<1>. HIDE DEF T, x
<1>5. Len(x) = Len(p) + Len(T) /\ Len(p) \in Nat /\ Len(T) \in Nat /\ x \in Seq(Names)
  <2>1. p \o T \in Seq(STRING)
    BY <1>3, TextJoin
  <2>. QED  BY <1>2, <1>3, <2>1, ConcatProperties, LenProperties, StringsAreNames
<1>6. Len(Screen') = Len(app') + Len(x) /\ Len(app') \in Nat
  BY <1>1, <1>4, <1>5, ConcatProperties, LenProperties
<1>. DEFINE n == Len(Screen')
            l == Len(T)
            m == Len(p)
            k == Len(app')
<1>7. n = k + (m + l) /\ k \in Nat /\ m \in Nat /\ l \in Nat
  BY <1>5, <1>6
<1>. HIDE DEF n, l, m, k
<1>8. l \in 0..n
  BY <1>7
<1>. QED  BY <1>4, <1>8 DEF l, n

(* The words of the editor's module are those of this one. *)
LEMMA EditorWords ==
  /\ \A s, t : IsPrefix(s, t) <=> AbstractEditor!IsPrefix(s, t)
  /\ \A s : Front(s) = AbstractEditor!Front(s)
BY DEF IsPrefix, AbstractEditor!IsPrefix, Front, AbstractEditor!Front

(* Text typed after the settled text. *)
LEMMA EditorTypes ==
  ASSUME IsPrefix(SubSeq(Screen, 1, Len(Screen) - Open), Screen'), Open' \in 0..Len(Screen')
  PROVE  AbstractEditor!Type
<1>. DEFINE settled == SubSeq(Screen, 1, Len(Screen) - Open)
            after == Screen'
<1>1. AbstractEditor!Settled = settled /\ AbstractEditor!Text' = after
  BY DEF AbstractEditor!Settled, AbstractEditor!Text, Open, Screen
<1>2. AbstractEditor!OpenAfter
  BY DEF AbstractEditor!OpenAfter, AbstractEditor!Text, Open, Screen
<1>. HIDE DEF settled, after
<1>3. AbstractEditor!IsPrefix(settled, after)
  BY EditorWords DEF settled, after
<1>. QED  BY <1>1, <1>2, <1>3 DEF AbstractEditor!Type

(* A step of the text at its end. *)
LEMMA EditorSteps ==
  ASSUME Screen \in Seq(Names), Open \in Nat, Steps(Screen, Screen'), Open' \in 0..Len(Screen')
  PROVE  AbstractEditor!Type \/ AbstractEditor!Erase
<1>1. CASE \E c \in Seq(Names) : Screen' = Screen \o c
  <2>1. IsPrefix(SubSeq(Screen, 1, Len(Screen) - Open), Screen')
    BY <1>1, PrefixCut
  <2>. QED  BY <2>1, EditorTypes
<1>2. CASE Screen # <<>> /\ Screen' = Front(Screen)
  <2>1. AbstractEditor!Text = Screen /\ AbstractEditor!Text' = Screen'
    BY DEF AbstractEditor!Text, Screen
  <2>2. AbstractEditor!OpenAfter
    BY <2>1 DEF AbstractEditor!OpenAfter, Open
  <2>. QED  BY <1>2, <2>1, <2>2, EditorWords DEF AbstractEditor!Erase
<1>. QED  BY <1>1, <1>2 DEF Steps

(* The dispatch of a call is a step of the editor. *)
LEMMA DispatchEdits ==
  ASSUME EditConfig, EditInv, EditInv', Dispatch
  PROVE  AbstractEditor!Next
<1>1. /\ call # Idle /\ call' = Idle
      /\ DispatchAnswered \/ DispatchAlone
  <2>1. failures = 0 /\ MaxFailures = 0
    BY DEF EditInv, EditConfig
  <2>2. ~DispatchFailed
    BY <2>1 DEF DispatchFailed, LoseMozc
  <2>. QED  BY <2>2 DEF Dispatch, DispatchAnswered, DispatchAlone, Finish
<1>2. /\ EngineTypeOK /\ mozc /\ (RewritePending \/ LonePending) /\ app \in Seq(Names)
      /\ open \in Nat /\ session \in Sessions
  BY <1>1 DEF EditInv, ScreenInv, ShownInv, EngineTypeOK
<1>3. Screen \in Seq(Names)
  <2>1. session.text \in Seq(Names)
    BY <1>2, StringsAreNames DEF Sessions
  <2>. QED  BY <1>2, <2>1, NamesJoin DEF Screen
<1>4. Open = open /\ Open' \in 0..Len(Screen')
  BY <1>1, OpenFits DEF Open
<1>5. CASE RewritePending
  <2>1. DispatchAnswered
    <3>1. PICK v \in Seq(STRING), cell \in Seq(Token) :
            KanaCell(cell) /\ out = Rewrite(Len(v), cell)
      BY <1>5 DEF RewritePending
    <3>2. Ops = out
      <4>1. Len(v) \in Nat
        BY LenType
      <4>. QED  BY <3>1, <4>1, RewriteOps
    <3>3. out # <<>>
      BY <1>1 DEF EditInv, ScreenInv
    <3>. QED  BY <1>1, <1>2, <3>2, <3>3 DEF DispatchAlone
  <2>2. Edits
    BY <1>2, <1>5, <2>1, RewriteDone
  <2>3. PICK a \in Seq(Names), b \in Seq(Names), c \in Seq(Names) :
          Screen = a \o b /\ open = Len(b) /\ Screen' = a \o c
    BY <2>2 DEF Edits
  <2>4. SubSeq(Screen, 1, Len(Screen) - Open) = a
    BY <1>4, <2>3, CutText
  <2>5. IsPrefix(SubSeq(Screen, 1, Len(Screen) - Open), Screen')
    BY <2>3, <2>4, PrefixIs
  <2>. QED  BY <1>4, <2>5, EditorTypes DEF AbstractEditor!Next
<1>6. ASSUME NEW a \in Actions, out = <<a>>, Lone(a)
      PROVE  AbstractEditor!Next
  <2>1. CASE DispatchAnswered
    <3>1. Steps(Screen, Screen')
      BY <1>2, <1>6, <2>1, LoneLands
    <3>. QED  BY <1>2, <1>3, <1>4, <3>1, EditorSteps DEF AbstractEditor!Next
  <2>2. CASE DispatchAlone
    <3>1. Ops = <<>>
      BY <1>2, <2>2 DEF DispatchAlone
    <3>2. ~HasOp(a)
      BY <1>6, <3>1, OneOp
    <3>3. /\ a.act = "Passthrough" /\ open = 0 /\ tentative = <<>>
          /\ call.kind = "down" => call.key \notin BackspaceKeys
      BY <1>6, <3>2 DEF Lone, HasOp
    <3>4. /\ UNCHANGED <<session, tentative>>
          /\ app' = app \/ (call.kind = "down" /\ app' = AppKey(app, call.key))
      BY <1>2, <1>6, <2>2, <3>3, PassLands
    <3>5. CASE app' = app
      <4>1. Steps(Screen, Screen')
        BY <1>3, <3>4, <3>5, StaysStep DEF Screen
      <4>. QED  BY <1>2, <1>3, <1>4, <4>1, EditorSteps DEF AbstractEditor!Next
    <3>6. CASE call.kind = "down" /\ app' = AppKey(app, call.key)
      <4>. DEFINE c == <<call.key>>
      <4>1. call.key \in Names
        BY <3>6, KeysAssumption DEF EngineTypeOK, Names, EditInv, ScreenInv, ShownInv
      <4>2. app' = Append(app, call.key)
        BY <3>3, <3>6 DEF AppKey
      <4>3. app' = app \o c /\ Len(app') = Len(app) + 1 /\ c \in Seq(Names)
        BY <1>2, <4>1, <4>2
      <4>. HIDE DEF c
      <4>4. IsPrefix(app, app')
        BY <1>2, <4>3, PrefixIs
      <4>5. open = 0 /\ Open' = 0
        <5>1. TextOf(tentative') = <<>>
          BY <3>3, <3>4, TextEmpty
        <5>2. Len(<<>>) = 0
          OBVIOUS
        <5>. QED  BY <1>1, <3>3, <5>1, <5>2 DEF Open
      <4>6. AbstractEditor!Bypass
        <5>1. AbstractEditor!IsPrefix(app, app')
          BY <4>4, EditorWords
        <5>. QED  BY <1>1, <1>4, <3>4, <4>3, <4>5, <5>1 DEF AbstractEditor!Bypass, Open
      <4>. QED  BY <4>6 DEF AbstractEditor!Next
    <3>. QED  BY <3>4, <3>5, <3>6
  <2>. QED  BY <1>1, <2>1, <2>2
<1>. QED  BY <1>2, <1>5, <1>6 DEF LonePending

(* Nothing happens to the text between calls, unless it is dropped or a    *)
(* candidate is taken; what is open may be settled.                        *)
LEMMA RestEdits ==
  ASSUME EditConfig, EditInv, EditInv', EngineNext, ~Dispatch
  PROVE  [AbstractEditor!Next]_AbstractEditor!evars
<1>1. /\ EngineTypeOK /\ mozc /\ app \in Seq(Names) /\ failures = 0 /\ MaxFailures = 0
      /\ tentative \in Seq(TentativeChar) /\ session \in Sessions
  BY DEF EditConfig, EditInv, ScreenInv, ShownInv, EngineTypeOK, TypeOK
<1>2. ~LoseMozc /\ ~RevertFails
  BY <1>1 DEF LoseMozc, RevertFails
<1>3. Screen \in Seq(Names)
  <2>1. session.text \in Seq(Names)
    BY <1>1, StringsAreNames DEF Sessions
  <2>. QED  BY <1>1, <2>1, NamesJoin DEF Screen
<1>4. call = Idle => Open \in Nat
  <2>1. TextOf(tentative) \in Seq(STRING)
    BY <1>1, TextType
  <2>. QED  BY <2>1, LenType DEF Open
<1>5. ASSUME call = Idle, call' = Idle, Steps(Screen, Screen')
      PROVE  AbstractEditor!Next
  BY <1>3, <1>4, <1>5, OpenFits, EditorSteps DEF AbstractEditor!Next
<1>6. ASSUME NEW kind, NEW key, Called(kind, key)
      PROVE  [AbstractEditor!Next]_AbstractEditor!evars
  <2>1. call = Idle /\ UNCHANGED <<session, app>>
    BY <1>6 DEF Called, link
  <2>2. CASE call' = Idle
    BY <1>3, <1>5, <2>1, <2>2, StaysStep DEF Screen
  <2>3. CASE call' # Idle
    <3>1. Open' = Open
      BY <1>6, <2>1, <2>3 DEF Called, Open
    <3>. QED  BY <2>1, <3>1 DEF AbstractEditor!evars, Open
  <2>. QED  BY <2>2, <2>3
<1>7. CASE ResetCall
  <2>1. session' = NewSession /\ app' = app /\ tentative' = <<>> /\ call' = Idle
    BY <1>1, <1>2, <1>7 DEF ResetCall, Reset
  <2>2. session'.text = <<>> /\ Len(TextOf(tentative')) = 0
    <3>1. TextOf(tentative') = <<>> /\ Len(<<>>) = 0
      BY <2>1, TextEmpty
    <3>. QED  BY <2>1, <3>1 DEF NewSession
  <2>3. AbstractEditor!Discard
    BY <2>1, <2>2 DEF AbstractEditor!Discard
  <2>. QED  BY <2>3 DEF AbstractEditor!Next
<1>8. CASE SelectCandidate
  <2>1. /\ call = Idle /\ call' = Idle
        /\ app' = IF session.converting THEN app \o session.text ELSE app
        /\ session' = IF session.converting THEN NewSession ELSE session
    BY <1>1, <1>2, <1>8 DEF SelectCandidate
  <2>2. Screen' = Screen
    <3>1. CASE session.converting
      <4>1. Screen' = Screen \o <<>>
        BY <2>1, <3>1 DEF Screen, NewSession
      <4>. QED  BY <1>3, <4>1, ConcatEmptySeq
    <3>2. CASE ~session.converting
      BY <2>1, <3>2 DEF Screen
    <3>. QED  BY <3>1, <3>2
  <2>. QED  BY <1>3, <1>5, <2>1, <2>2, StaysStep
<1>9. CASE Wait
  <2>1. UNCHANGED <<call, session, app, tentative, open>>
    BY <1>9 DEF Wait, Advance, link, buffers
  <2>. QED  BY <2>1 DEF AbstractEditor!evars
<1>10. ~Reconnect
  BY <1>1 DEF Reconnect
<1>. QED  BY <1>6, <1>7, <1>8, <1>9, <1>10 DEF EngineNext, KeyDownCall, KeyUpCall, TickCall

(* In a layout of kana without direct sequences, with Mozc there, every    *)
(* batch answered, and no key that passes by the state machine: whatever   *)
(* the keys and the order of events, the engine implements the editor.     *)
(* Nothing before the open characters is touched but by the user's own     *)
(* BackSpace, and nothing is lost but by a focus change or a reload.       *)
THEOREM EngineIsEditor == EditConfig => (EngineSpec => RewritesAreAtomic)
<1>. SUFFICES ASSUME EditConfig  PROVE EngineSpec => RewritesAreAtomic
  OBVIOUS
<1>1. EngineInit => EditInv
  <2>1. SUFFICES ASSUME EngineInit  PROVE EditInv
    OBVIOUS
  <2>2. ScreenInv
    BY <2>1, ScreenInit DEF EditConfig
  <2>. QED  BY <2>1, <2>2 DEF EngineInit, EditInv
<1>2. EditInv /\ [EngineNext]_evars => EditInv'
  BY EditStep
<1>3. EngineInit => AbstractEditor!Init
  <2>1. SUFFICES ASSUME EngineInit  PROVE AbstractEditor!Init
    OBVIOUS
  <2>2. Len(TextOf(tentative)) = 0
    <3>1. TextOf(tentative) = <<>> /\ Len(<<>>) = 0
      BY <2>1, TextEmpty DEF EngineInit, Init
    <3>. QED  BY <3>1
  <2>. QED  BY <2>1, <2>2 DEF EngineInit, AbstractEditor!Init, NewSession
<1>4. EditInv /\ EditInv' /\ [EngineNext]_evars => [AbstractEditor!Next]_AbstractEditor!evars
  <2>1. SUFFICES ASSUME EditInv, EditInv', [EngineNext]_evars
                 PROVE  [AbstractEditor!Next]_AbstractEditor!evars
    OBVIOUS
  <2>2. CASE Dispatch
    BY <2>1, <2>2, DispatchEdits
  <2>3. CASE EngineNext /\ ~Dispatch
    BY <2>1, <2>3, RestEdits
  <2>4. CASE UNCHANGED evars
    BY <2>4 DEF evars, vars, AbstractEditor!evars
  <2>. QED  BY <2>1, <2>2, <2>3, <2>4
<1>. QED  BY <1>1, <1>2, <1>3, <1>4, PTL DEF EngineSpec, RewritesAreAtomic, AbstractEditor!Spec

-----------------------------------------------------------------------------
(* What a call types is on the screen, whatever becomes of the batch.      *)

(* The kana of a rewrite are its cell's. *)
LEMMA KanaOfRewrite ==
  ASSUME NEW m \in Nat, NEW cell \in Seq(Token), KanaCell(cell)
  PROVE  KanaOf(Rewrite(m, cell)) = CellText(cell)
<1>. DEFINE w == Rewrite(m, cell)
            kana == [i \in DOMAIN w |-> IF w[i].act = "SendKana" THEN w[i].text ELSE <<>>]
            blank == [i \in 1..m |-> <<>>]
            texts == [i \in DOMAIN cell |-> cell[i].text]
            n == Len(cell)
            T == Seq(STRING)
<1>1. /\ DOMAIN w = 1..(m + n) /\ n \in Nat
      /\ \A i \in 1..m : w[i] = Action("Backspace", <<>>)
      /\ \A j \in 1..n : w[m + j] = Action("SendKana", cell[j].text)
  <2>1. n \in Nat
    OBVIOUS
  <2>. QED  BY <2>1, RewriteIs
<1>2. texts \in Seq(T) /\ Len(texts) = n
      /\ \A j \in 1..n : texts[j] = cell[j].text
  BY CellTexts
<1>3. blank \in Seq(T) /\ Len(blank) = m /\ \A i \in 1..m : blank[i] = <<>>
  <2>1. <<>> \in T
    BY NoElements
  <2>. HIDE DEF T
  <2>. QED  BY <2>1
<1>4. FlattenSeq(blank) = <<>>
  <2>1. blank = [i \in 1..m |-> blank[i]]
    OBVIOUS
  <2>. HIDE DEF blank
  <2>. QED  BY <1>3, <2>1, FlattenBlank
<1>. HIDE DEF w, blank, texts, n
<1>5. kana = blank \o texts
  <2>1. \A i \in 1..(m + n) : kana[i] = IF i <= m THEN blank[i] ELSE texts[i - m]
    <3>1. SUFFICES ASSUME NEW i \in 1..(m + n)
                   PROVE  kana[i] = IF i <= m THEN blank[i] ELSE texts[i - m]
      OBVIOUS
    <3>2. CASE i <= m
      <4>1. i \in 1..m /\ i \in DOMAIN w
        BY <1>1, <3>2
      <4>2. w[i].act = "Backspace"
        BY <1>1, <4>1 DEF Action
      <4>. QED  BY <1>3, <3>2, <4>1, <4>2
    <3>3. CASE ~(i <= m)
      <4>. DEFINE j == i - m
      <4>1. j \in 1..n /\ m + j = i /\ i \in DOMAIN w
        BY <1>1, <3>3
      <4>. HIDE DEF j
      <4>2. w[i] = Action("SendKana", cell[j].text)
        BY <1>1, <4>1
      <4>3. kana[i] = cell[j].text
        BY <4>1, <4>2 DEF Action
      <4>. QED  BY <1>2, <3>3, <4>1, <4>3 DEF j
    <3>. QED  BY <3>2, <3>3
  <2>2. DOMAIN kana = 1..(m + n)
    BY <1>1
  <2>. HIDE DEF kana, T
  <2>3. /\ blank \o texts \in Seq(T) /\ Len(blank \o texts) = m + n
        /\ \A i \in 1..(m + n) : (blank \o texts)[i] = IF i <= m THEN blank[i] ELSE texts[i - m]
    BY <1>2, <1>3, ConcatProperties
  <2>4. kana = [i \in 1..(m + n) |-> kana[i]]
    BY <2>2 DEF kana
  <2>5. m + n \in Nat /\ \A i \in 1..(m + n) : kana[i] \in T
    <3>1. \A i \in 1..(m + n) : (i <= m => i \in 1..m) /\ (~(i <= m) => i - m \in 1..n)
      BY <1>1
    <3>2. (\A i \in 1..m : blank[i] \in T) /\ \A j \in 1..n : texts[j] \in T
      BY <1>2, <1>3
    <3>. QED  BY <1>1, <2>1, <3>1, <3>2
  <2>6. kana \in Seq(T) /\ Len(kana) = m + n
    BY <2>4, <2>5
  <2>7. \A i \in 1..Len(kana) : kana[i] = (blank \o texts)[i]
    BY <2>1, <2>3, <2>6
  <2>. QED  BY <2>3, <2>6, <2>7, SeqEqual
<1>6. FlattenSeq(blank \o texts) = FlattenSeq(blank) \o FlattenSeq(texts)
  BY <1>2, <1>3, FlattenConcat
<1>7. FlattenSeq(texts) = CellText(cell) /\ CellText(cell) \in Seq(STRING)
  BY CellTexts DEF CellText, texts
<1>8. <<>> \o CellText(cell) = CellText(cell)
  BY <1>7, ConcatEmptySeq
<1>9. KanaOf(w) = FlattenSeq(kana)
  BY DEF KanaOf
<1>. QED  BY <1>4, <1>5, <1>6, <1>7, <1>8, <1>9 DEF w

(* Actions that type none have none. *)
LEMMA KanaOfNone ==
  ASSUME NEW actions \in Seq(Actions), \A i \in DOMAIN actions : actions[i].act # "SendKana"
  PROVE  KanaOf(actions) = <<>>
<1>. DEFINE kana == [i \in DOMAIN actions |->
                       IF actions[i].act = "SendKana" THEN actions[i].text ELSE <<>>]
<1>1. DOMAIN actions = 1..Len(actions) /\ Len(actions) \in Nat
  OBVIOUS
<1>2. kana = [i \in 1..Len(actions) |-> kana[i]] /\ \A i \in 1..Len(actions) : kana[i] = <<>>
  BY <1>1
<1>. HIDE DEF kana
<1>3. FlattenSeq(kana) = <<>>
  BY <1>1, <1>2, FlattenBlank
<1>. QED  BY <1>3 DEF KanaOf, kana

(* Without Mozc a rewrite commits its kana, and no key comes after them.   *)
LEMMA AloneCommits ==
  ASSUME EngineTypeOK, NEW m \in Nat, NEW cell \in Seq(Token), KanaCell(cell), cell # <<>>,
         out = Rewrite(m, cell)
  PROVE  LET r == Dispatched(<<>>, FALSE)
         IN  /\ r \in LoopState
             /\ r.commit = CellText(cell) /\ r.forward = <<>> /\ r.consumed = TRUE
<1>. DEFINE k == Len(cell)
            n == Len(out)
            T(j) == CellText(SubSeq(cell, 1, j))
<1>1. /\ out \in Seq(Actions) /\ preedit \in Seq(STRING) /\ candidates \in Seq(STRING)
      /\ mozcMode \in Modes /\ <<>> \in Seq(Replied)
  BY NoElements DEF EngineTypeOK, TypeOK, Modes
<1>2. PICK done \in [0..n -> LoopState] :
        Loop(done, <<>>, FALSE) /\ Dispatched(<<>>, FALSE) = done[n]
  BY <1>1, DispatchedIs
<1>3. k \in Nat /\ k # 0
  BY EmptySeq, LenProperties
<1>4. n = m + k
  BY RewriteIs
<1>. DEFINE w == Rewrite(m, cell)
<1>5. \A i \in 1..m : w[i] = Action("Backspace", <<>>)
  BY RewriteIs
<1>6. \A j \in 1..k : w[m + j] = Action("SendKana", cell[j].text)
  BY <1>3, RewriteIs
<1>7. out = w
  OBVIOUS
<1>8. T(0) = <<>> /\ T(k) = CellText(cell)
  BY CellTextStep
<1>9. \A j \in 1..k : T(j) = T(j - 1) \o cell[j].text
  BY CellTextStep
<1>10. \A i \in 1..n : done[i] = Handled(done[i - 1], out[i])
  BY <1>2 DEF Loop
<1>11. done[0] = Undispatched(<<>>, FALSE)
  BY <1>2 DEF Loop
<1>. HIDE DEF w, k, n, T
<1>. DEFINE Committed(r, text) == /\ r.replies = <<>> /\ r.alive = FALSE
                                  /\ r.forward = <<>> /\ r.commit = text
            P == {i \in 0..n : /\ Committed(done[i], IF i <= m THEN <<>> ELSE T(i - m))
                               /\ i > m => done[i].consumed = TRUE}
<1>12. 0 \in P
  <2>1. 0 \in 0..n /\ 0 <= m /\ ~(0 > m)
    BY <1>3, <1>4
  <2>2. Committed(Undispatched(<<>>, FALSE), <<>>)
    BY DEF Undispatched
  <2>. HIDE DEF Committed
  <2>. QED  BY <1>11, <2>1, <2>2
<1>13. ASSUME NEW r \in LoopState, NEW text, Committed(r, text)
       PROVE  Committed(Handled(r, Action("Backspace", <<>>)), text)
  BY <1>13 DEF Handled, Action, LoopState
<1>14. ASSUME NEW r \in LoopState, NEW text, Committed(r, text), NEW s
       PROVE  /\ Committed(Handled(r, Action("SendKana", s)), text \o s)
              /\ Handled(r, Action("SendKana", s)).consumed = TRUE
  <2>. DEFINE a == Action("SendKana", s)
  <2>1. a.act = "SendKana" /\ a.text = s
    BY DEF Action
  <2>. HIDE DEF a
  <2>2. Handled(r, a) = [r EXCEPT !.commit = @ \o a.text, !.consumed = TRUE]
    BY <1>14, <2>1 DEF Handled
  <2>. DEFINE c == r.commit \o a.text
  <2>3. Handled(r, a) = [r EXCEPT !.commit = c, !.consumed = TRUE] /\ c = text \o s
    BY <1>14, <2>1, <2>2
  <2>. HIDE DEF c
  <2>4. Committed(Handled(r, a), text \o s) /\ Handled(r, a).consumed = TRUE
    BY <1>14, <2>3 DEF LoopState
  <2>. QED  BY <2>4 DEF a
<1>15. ASSUME NEW i \in 1..n, i - 1 \in P  PROVE i \in P
  <2>1. i \in 0..n /\ i - 1 \in 0..n /\ done[i - 1] \in LoopState
        /\ done[i] = Handled(done[i - 1], out[i])
    BY <1>2, <1>3, <1>4, <1>10
  <2>2. CASE i <= m
    <3>1. i \in 1..m /\ i - 1 <= m /\ ~(i > m)
      BY <2>2
    <3>2. Committed(done[i - 1], <<>>) /\ out[i] = Action("Backspace", <<>>)
      BY <1>5, <1>7, <1>15, <3>1
    <3>. HIDE DEF Committed
    <3>3. Committed(done[i], <<>>)
      BY <1>13, <2>1, <3>2
    <3>. QED  BY <2>1, <2>2, <3>1, <3>3
  <2>3. CASE ~(i <= m)
    <3>. DEFINE j == i - m
    <3>1. j \in 1..k /\ m + j = i /\ (i - 1) - m = j - 1 /\ (i - 1 <= m => j - 1 = 0)
      BY <1>3, <1>4, <2>3
    <3>. HIDE DEF j
    <3>2. Committed(done[i - 1], T(j - 1))
      <4>1. CASE i - 1 <= m
        BY <1>8, <1>15, <3>1, <4>1
      <4>2. CASE ~(i - 1 <= m)
        BY <1>15, <3>1, <4>2
      <4>. QED  BY <4>1, <4>2
    <3>3. out[i] = Action("SendKana", cell[j].text)
      BY <1>6, <1>7, <3>1
    <3>. HIDE DEF Committed
    <3>4. Committed(done[i], T(j - 1) \o cell[j].text) /\ done[i].consumed = TRUE
      BY <1>14, <2>1, <3>2, <3>3
    <3>5. Committed(done[i], T(j)) /\ i - m = j
      BY <1>9, <3>1, <3>4 DEF j
    <3>. QED  BY <2>1, <2>3, <3>4, <3>5
  <2>. QED  BY <2>2, <2>3
<1>16. n \in P
  <2>1. n \in Nat
    BY <1>3, <1>4
  <2>2. \A i \in 0..n : i \in P
    <3>. HIDE DEF P
    <3>. QED  BY <1>12, <1>15, <2>1, UpTo
  <2>. QED  BY <2>1, <2>2
<1>17. n > m /\ n - m = k /\ n \in 0..n
  BY <1>3, <1>4
<1>18. done[n] \in LoopState
  BY <1>2, <1>17
<1>. QED  BY <1>2, <1>8, <1>16, <1>17, <1>18

(* The inductive invariant: a call types by one rewrite, or types nothing. *)
Typing == \/ \E m \in Nat, cell \in Seq(Token) : KanaCell(cell) /\ out = Rewrite(m, cell)
          \/ \A i \in DOMAIN out : out[i].act # "SendKana"
TypedInv == ShownInv /\ Plain(tentative) /\ (call # Idle => Typing)

(* Every shape of a call is one of the two. *)
LEMMA ShapeTypes ==
  ASSUME NEW tb \in Seq(TentativeChar), NEW new, Shaped(tb, new, out')
  PROVE  Plain(new) /\ Typing'
<1>. DEFINE acts == out'
<1>1. CASE Rewritten(tb, new, acts)
  <2>1. PICK n \in 0..Len(tb), cell \in Seq(Token) :
          KanaCell(cell) /\ acts = Rewrite(Len(TextOf(SubSeq(tb, n + 1, Len(tb)))), cell)
    BY <1>1 DEF Rewritten
  <2>. DEFINE m == Len(TextOf(SubSeq(tb, n + 1, Len(tb))))
  <2>2. TextOf(SubSeq(tb, n + 1, Len(tb))) \in Seq(STRING)
    BY TextSplit, TextType
  <2>3. m \in Nat
    BY <2>2, LenType
  <2>. HIDE DEF m
  <2>4. acts = Rewrite(m, cell)
    BY <2>1 DEF m
  <2>. QED  BY <2>1, <2>3, <2>4 DEF Typing, Shaped
<1>2. CASE Kept(tb, new, acts)
  <2>1. \A i \in DOMAIN acts : acts[i].act # "SendKana"
    <3>1. acts = <<>> => \A i \in DOMAIN acts : acts[i].act # "SendKana"
      OBVIOUS
    <3>2. ASSUME NEW act \in {"Passthrough", "SendFunctionKey", "SendModifiedKey"}, NEW k,
                 acts = <<Action(act, <<k>>)>>
          PROVE  \A i \in DOMAIN acts : acts[i].act # "SendKana"
      BY <3>2 DEF Action
    <3>. HIDE DEF acts
    <3>. QED  BY <1>2, <3>1, <3>2 DEF Kept
  <2>. QED  BY <2>1 DEF Typing, Shaped
<1>3. CASE Dropped(new, acts)
  BY <1>3 DEF Dropped, Typing, Shaped
<1>. QED  BY <1>1, <1>2, <1>3 DEF Shaped

(* No call is on its way.                                                  *)
LEMMA TypedInit ==
  ASSUME EngineInit
  PROVE  TypedInv
<1>1. tentative = <<>> /\ call = Idle
  BY DEF EngineInit, Init
<1>2. ShownInv
  BY ShownInit
<1>. QED  BY <1>1, <1>2 DEF TypedInv, Plain

(* Every step of the engine leaves a call that is one rewrite or no kana.  *)
LEMMA TypedStep ==
  ASSUME KanaLayout(Layout), TypedInv, [EngineNext]_evars
  PROVE  TypedInv'
<1>1. ShownInv'
  BY ShownStep DEF TypedInv
<1>2. TypeOK /\ Plain(tentative) /\ tentative \in Seq(TentativeChar) /\ <<>> \in Seq(TentativeChar)
  BY NoElements DEF TypedInv, ShownInv, EngineTypeOK, TypeOK
<1>3. ASSUME NEW k \in Keys, NEW shift \in BOOLEAN, KeyDownCall(k, shift)
      PROVE  TypedInv'
  <2>1. KeyDown(k, shift)
    BY <1>3 DEF KeyDownCall
  <2>2. PICK tb : Basis(tb) /\ Shaped(tb, tentative', out')
    BY <1>2, <2>1, KeyDownShape
  <2>3. tb \in Seq(TentativeChar)
    BY <1>2, <2>2 DEF Basis
  <2>4. Plain(tentative') /\ Typing'
    BY <2>2, <2>3, ShapeTypes
  <2>. QED  BY <1>1, <2>4 DEF TypedInv
<1>4. ASSUME NEW k \in Keys, KeyUpCall(k)
      PROVE  TypedInv'
  <2>1. KeyUp(k)
    BY <1>4 DEF KeyUpCall
  <2>2. Shaped(tentative, tentative', out')
    BY <1>2, <2>1, KeyUpShape
  <2>3. Plain(tentative') /\ Typing'
    BY <1>2, <2>2, ShapeTypes
  <2>. QED  BY <1>1, <2>3 DEF TypedInv
<1>5. CASE TickCall
  <2>1. Tick /\ Called("tick", "")
    BY <1>5 DEF TickCall
  <2>2. Plain(tentative') /\ out' = <<>>
    BY <1>2, <2>1, TickShape
  <2>3. call' = Idle
    BY <2>1, <2>2 DEF Called
  <2>. QED  BY <1>1, <2>2, <2>3 DEF TypedInv
<1>6. CASE Dispatch
  <2>1. call' = Idle /\ (tentative' = tentative \/ tentative' = <<>>)
    BY <1>6 DEF Dispatch, DispatchAnswered, DispatchAlone, DispatchFailed, Finish
  <2>2. Plain(tentative')
    BY <1>2, <2>1 DEF Plain
  <2>. QED  BY <1>1, <2>1, <2>2 DEF TypedInv
<1>7. CASE Reconnect \/ Wait
  <2>1. call = Idle /\ call' = call /\ tentative' = tentative
    BY <1>7 DEF Reconnect, Wait, Advance, vars, buffers
  <2>. QED  BY <1>1, <1>2, <2>1 DEF TypedInv
<1>8. CASE ResetCall \/ SelectCandidate
  <2>1. call = Idle /\ call' = call /\ tentative' = <<>>
    BY <1>8 DEF ResetCall, SelectCandidate, Reset
  <2>. QED  BY <1>1, <2>1 DEF TypedInv, Plain
<1>9. CASE UNCHANGED evars
  <2>1. call' = call /\ tentative' = tentative /\ out' = out
    BY <1>9 DEF evars, vars
  <2>. QED  BY <1>1, <2>1 DEF TypedInv, Typing
<1>. QED  BY <1>3, <1>4, <1>5, <1>6, <1>7, <1>8, <1>9 DEF EngineNext

(* The call that types a cell puts it at the end of the screen: as the end *)
(* of Mozc's preedit, or committed when there is no preedit.               *)
LEMMA RewriteShows ==
  ASSUME ShownInv, ShownInv', Dispatch,
         NEW m \in Nat, NEW cell \in Seq(Token), KanaCell(cell), cell # <<>>,
         out = Rewrite(m, cell)
  PROVE  \E p \in Seq(Names) : Screen' = p \o CellText(cell)
<1>. DEFINE C == CellText(cell)
            k == Len(cell)
            w == Rewrite(m, cell)
            T(j) == CellText(SubSeq(cell, 1, j))
<1>1. /\ EngineTypeOK /\ out \in Seq(Actions) /\ session \in Sessions
      /\ app \in Seq(Names) /\ app' \in Seq(Names)
      /\ C \in Seq(STRING) /\ C \in Seq(Names)
  BY CellTexts, StringsAreNames DEF ShownInv, EngineTypeOK
<1>2. k \in Nat /\ k # 0 /\ k \in 1..k
  BY EmptySeq, LenProperties
<1>3. Ops = out /\ out = w /\ Ops # <<>>
  <2>1. Len(w) = m + k
    BY RewriteIs
  <2>2. Len(w) # 0
    BY <1>2, <2>1
  <2>3. Ops = out
    BY RewriteOps
  <2>. QED  BY <2>2, <2>3
<1>4. CASE DispatchAnswered
  <2>. DEFINE replies == Replies(w)
              s == Before(replies, m + 1)
              base == IF s.converting THEN <<>> ELSE s.text
  <2>1. /\ w \in Seq(Actions) /\ Len(w) = m + k /\ \A i \in DOMAIN w : HasOp(w[i])
    BY RewriteIs
  <2>2. replies \in Seq(Replied) /\ Len(replies) = m + k
        /\ \A i \in 1..(m + k) : replies[i] \in Replied
    <3>. HIDE DEF w, k
    <3>1. replies \in Seq(Replied) /\ Len(replies) = Len(w)
      BY <1>1, <2>1, RepliesAre
    <3>. HIDE DEF replies
    <3>2. \A i \in 1..Len(replies) : replies[i] \in Replied
      BY <3>1
    <3>. QED  BY <2>1, <3>1, <3>2
  <2>3. \A j \in 1..k : replies[m + j] = Reply(base \o T(j), FALSE,
                                               IF s.converting /\ j = 1 THEN s.text ELSE <<>>, TRUE)
    BY <1>1, KanaReplies
  <2>4. T(k) = C
    BY CellTextStep
  <2>. HIDE DEF T
  <2>5. replies[m + k].text = base \o C
    <3>. HIDE DEF replies, base, s, C
    <3>1. replies[m + k] = Reply(base \o C, FALSE,
                                 IF s.converting /\ k = 1 THEN s.text ELSE <<>>, TRUE)
      BY <1>2, <2>3, <2>4
    <3>. DEFINE bc == base \o C
    <3>2. replies[m + k] = Reply(bc, FALSE,
                                 IF s.converting /\ k = 1 THEN s.text ELSE <<>>, TRUE)
      BY <3>1
    <3>. HIDE DEF bc
    <3>3. replies[m + k].text = bc
      BY <3>2 DEF Reply
    <3>. QED  BY <3>3 DEF bc
  <2>6. session'.text = replies[m + k].text
    BY <1>3, <1>4, <2>2 DEF DispatchAnswered, Last
  <2>7. base \in Seq(Names)
    <3>1. s = session \/ s \in Replied
      <4>1. m = 0 \/ m \in 1..(m + k)
        BY <1>2
      <4>. HIDE DEF replies
      <4>. QED  BY <2>2, <4>1 DEF Before
    <3>2. s.text \in Seq(STRING)
      BY <1>1, <3>1 DEF Replied, Sessions
    <3>. QED  BY <3>2, StringsAreNames, NoElements
  <2>. HIDE DEF base, replies, C
  <2>8. Screen' = app' \o (base \o C)
    BY <2>5, <2>6 DEF Screen
  <2>9. app' \o (base \o C) = (app' \o base) \o C /\ app' \o base \in Seq(Names)
    <3>1. app' \o (base \o C) = (app' \o base) \o C
      BY <1>1, <2>7, NamesRegroup
    <3>2. app' \o base \in Seq(Names)
      BY <1>1, <2>7, ConcatProperties
    <3>. QED  BY <3>1, <3>2
  <2>. QED  BY <2>8, <2>9 DEF C
<1>5. CASE DispatchAlone \/ DispatchFailed
  <2>. DEFINE r == Dispatched(<<>>, FALSE)
  <2>1. app' = Shown(r)
    BY <1>5 DEF DispatchAlone, DispatchFailed, Finish
  <2>2. r \in LoopState /\ r.commit = C /\ r.forward = <<>> /\ r.consumed = TRUE
    BY <1>1, AloneCommits
  <2>3. session'.text = <<>>
    <3>1. CASE DispatchFailed
      BY <3>1 DEF DispatchFailed, LoseMozc, NewSession
    <3>2. CASE DispatchAlone
      <4>1. ~mozc /\ session' = session
        BY <1>3, <3>2 DEF DispatchAlone, link
      <4>. QED  BY <4>1 DEF ShownInv, NewSession
    <3>. QED  BY <1>5, <3>1, <3>2
  <2>. HIDE DEF r, C
  <2>. DEFINE before == AppKeys(app, r.passthrough)
  <2>4. before \in Seq(Names)
    BY <1>1, <2>2, AppKeysType DEF LoopState
  <2>5. app' = before \o C
    BY <2>1, <2>2 DEF Shown, AppKeys
  <2>6. Screen' = app'
    BY <1>1, <2>3, ConcatEmptySeq DEF Screen
  <2>. HIDE DEF before
  <2>. QED  BY <2>4, <2>5, <2>6 DEF C
<1>. QED  BY <1>4, <1>5 DEF Dispatch

(* In a layout that types kana: whatever the keys and the order of events, *)
(* with or without Mozc, and whether or not the batch fails, the kana of a *)
(* call are the end of the text on the screen once it has been dispatched. *)
THEOREM KanaReachScreen == KanaLayout(Layout) => (EngineSpec => TypedIsShown)
<1>. SUFFICES ASSUME KanaLayout(Layout)  PROVE EngineSpec => TypedIsShown
  OBVIOUS
<1>1. EngineInit => TypedInv
  BY TypedInit
<1>2. TypedInv /\ [EngineNext]_evars => TypedInv'
  BY TypedStep
<1>3. TypedInv /\ TypedInv' /\ [EngineNext]_evars
        => [call # Idle => IsSuffix(KanaOf(out), Screen')]_evars
  <2>1. SUFFICES ASSUME TypedInv, TypedInv', EngineNext, call # Idle
                 PROVE  IsSuffix(KanaOf(out), Screen')
    OBVIOUS
  <2>2. Dispatch
    BY <2>1 DEF EngineNext, KeyDownCall, KeyUpCall, TickCall, Called, Reconnect, ResetCall,
                SelectCandidate, Wait
  <2>3. ShownInv /\ ShownInv' /\ Typing /\ out \in Seq(Actions) /\ Screen' \in Seq(Names)
    <3>1. app' \in Seq(Names) /\ session'.text \in Seq(STRING)
      BY <2>1 DEF TypedInv, ShownInv, EngineTypeOK, Sessions
    <3>2. session'.text \in Seq(Names)
      BY <3>1, StringsAreNames
    <3>3. Screen' \in Seq(Names)
      BY <3>1, <3>2, ConcatProperties DEF Screen
    <3>. QED  BY <2>1, <3>3 DEF TypedInv, ShownInv, EngineTypeOK
  <2>4. CASE KanaOf(out) = <<>>
    <3>1. <<>> \in Seq(Names) /\ Screen' \o <<>> = Screen'
      BY <2>3, NoElements, ConcatEmptySeq
    <3>2. IsSuffix(<<>>, Screen' \o <<>>)
      BY <2>3, <3>1, SuffixIs
    <3>. QED  BY <2>4, <3>1, <3>2
  <2>5. CASE \A i \in DOMAIN out : out[i].act # "SendKana"
    BY <2>3, <2>4, <2>5, KanaOfNone
  <2>6. ASSUME NEW m \in Nat, NEW cell \in Seq(Token), KanaCell(cell), out = Rewrite(m, cell)
        PROVE  IsSuffix(KanaOf(out), Screen')
    <3>1. KanaOf(out) = CellText(cell)
      BY <2>6, KanaOfRewrite
    <3>2. CASE cell = <<>>
      <4>1. \A c : c = <<>> => [i \in DOMAIN c |-> c[i].text] = <<>>
        OBVIOUS
      <4>2. CellText(cell) = <<>>
        BY <3>2, <4>1, FlattenEmpty DEF CellText
      <4>. QED  BY <2>4, <3>1, <4>2
    <3>3. CASE cell # <<>>
      <4>1. PICK p \in Seq(Names) : Screen' = p \o CellText(cell)
        BY <2>2, <2>3, <2>6, <3>3, RewriteShows
      <4>2. CellText(cell) \in Seq(Names)
        BY CellTexts, StringsAreNames
      <4>. DEFINE C == CellText(cell)
      <4>. HIDE DEF C
      <4>3. IsSuffix(C, p \o C)
        BY <4>2, SuffixIs DEF C
      <4>. QED  BY <3>1, <4>1, <4>3 DEF C
    <3>. QED  BY <3>2, <3>3
  <2>. QED  BY <2>3, <2>5, <2>6 DEF Typing
<1>. QED  BY <1>1, <1>2, <1>3, PTL DEF EngineSpec, TypedIsShown

=============================================================================
