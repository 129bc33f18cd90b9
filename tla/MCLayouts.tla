----------------------------- MODULE MCLayouts ------------------------------
(***************************************************************************)
(* Small layouts for the model-checking runs, each with the rule kinds of  *)
(* one family of the layout files in layouts/.                             *)
(***************************************************************************)
EXTENDS StateMachine

One(c) == <<Kana(<<c>>)>>

Blank == [base |-> <<>>, prefix |-> <<>>, postfix |-> <<>>,
          modifiers |-> <<>>, modified |-> <<>>, chords |-> <<>>,
          triggerKeys |-> {}, triggerKind |-> "Hold", triggerTap |-> "Passthrough",
          kanchoku |-> FALSE, directs |-> <<>>,
          chordWindow |-> 2, mutualWindow |-> 2]

Chord(keys, symmetric, window, output) ==
  [keys |-> keys, symmetric |-> symmetric, window |-> window, output |-> output]

(* Mutual chords over three keys: a two-key chord of two characters, its   *)
(* three-key upgrade, and an overlapping pair (the shape of naginata).     *)
MutualLayout ==
  [Blank EXCEPT
     !.base = "w" :> One("te") @@ "h" :> One("ku") @@ "j" :> One("a"),
     !.chords = <<Chord(<<"w", "h">>, TRUE, NoWindow, <<Kana(<<"ki", "ya">>)>>),
                  Chord(<<"w", "h", "j">>, TRUE, NoWindow, <<Kana(<<"gi", "ya">>)>>),
                  Chord(<<"h", "j">>, TRUE, NoWindow, One("gu"))>>]
MutualKeys == {"w", "h", "j", "BackSpace"}

(* A timed chord with a deferred tail. *)
TailLayout ==
  [Blank EXCEPT
     !.base = "f" :> <<Kana(<<"ten">>), Fn("Return")>> @@ "j" :> One("a"),
     !.chords = <<Chord(<<"f", "j">>, FALSE, NoWindow, One("ga"))>>]
TailKeys == {"f", "j"}

(* A prefix layer (d, then w), and with it a postfix layer (w, then p). *)
PrefixLayout ==
  [Blank EXCEPT
     !.base = "d" :> One("ka") @@ "w" :> One("te"),
     !.prefix = "d" :> ("w" :> One("re"))]
PrefixKeys == {"d", "w"}

SequenceLayout ==
  [PrefixLayout EXCEPT
     !.base = @ @@ "p" :> One("pu"),
     !.postfix = "p" :> ("w" :> One("de"))]
SequenceKeys == PrefixKeys \cup {"p"}

Modifier(keys, kind, detection, tap, output) ==
  [keys |-> keys, kind |-> kind, holdDetection |-> detection, holdTimeout |-> 1,
   tapAction |-> tap, tapOutput |-> output]

(* The same with a timed chord, a hold modifier (space) and kanji behind a *)
(* hold trigger (hybrid).                                                  *)
HybridLayout ==
  [SequenceLayout EXCEPT
     !.base = @ @@ "j" :> One("a"),
     !.chords = <<Chord(<<"w", "j">>, FALSE, NoWindow, One("go"))>>,
     !.chordWindow = 0,  \* less than a tick of the clock
     !.modifiers = <<Modifier({"space"}, "Hold", "Interrupt", "Passthrough", <<>>)>>,
     !.modified = <<"w" :> One("b")>>,
     !.triggerKeys = {"Henkan"},
     !.directs = <<"d", "w">> :> One("kan") @@ <<"w">> :> <<Kana(<<"ji">>), Fn("Return")>>]
HybridKeys == SequenceKeys \cup {"j", "space", "Henkan"}

OneshotLayout ==
  [Blank EXCEPT
     !.base = "a" :> One("a") @@ "b" :> One("b"),
     !.modifiers = <<Modifier({"o"}, "Oneshot", "Interrupt", "Passthrough", <<>>)>>,
     !.modified = <<"a" :> One("A")>>]
OneshotKeys == {"o", "a", "b"}

(* A little of everything, for events in any order: a mutual chord with a  *)
(* deferred tail, a toggle trigger, a oneshot and a hold modifier, a       *)
(* passthrough cell and an unassigned control key (Return).                *)
MixedLayout ==
  [Blank EXCEPT
     !.base = "f" :> <<Kana(<<"ten">>), Fn("Return")>> @@ "j" :> One("a"),
     !.chords = <<Chord(<<"f", "j">>, TRUE, NoWindow, One("ga"))>>,
     !.mutualWindow = 1,
     !.modifiers = <<Modifier({"o"}, "Oneshot", "Interrupt", "BaseKana", <<>>),
                     Modifier({"s"}, "Hold", "Timeout", "Output", One("si"))>>,
     !.modified = <<"f" :> <<Mod("S-!Left")>>, "j" :> PASSTHROUGH_CELL>>,
     !.triggerKeys = {"Henkan"}, !.triggerKind = "Toggle",
     !.directs = <<"j", "f">> :> One("kan")]
MixedKeys == {"f", "j", "o", "s", "Return", "Henkan", "BackSpace"}
=============================================================================
