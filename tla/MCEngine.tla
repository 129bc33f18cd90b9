------------------------------ MODULE MCEngine ------------------------------
(***************************************************************************)
(* The engine over the small layouts.                                      *)
(***************************************************************************)
EXTENDS Engine, MCLayouts

(* A chord of two characters and the three-key chord it is upgraded to.    *)
EngineLayout == [MutualLayout EXCEPT !.base = "w" :> One("te") @@ "h" :> One("ku"),
                                     !.chords = SubSeq(MutualLayout.chords, 1, 2)]
EngineKeys == {"w", "h", "j", "q", "space", "BackSpace"}
AloneKeys  == {"w", "h", "j"}  \* nothing that the application gets by itself

(* A deferred tail that does not end the composition: brackets, cursor in. *)
TimerLayout == [TailLayout EXCEPT !.base["f"] = <<Kana(<<"kakko">>), Fn("Left")>>,
                                  !.chordWindow = 1]
TimerKeys == TailKeys \cup {"BackSpace"}

(* Sequences and a timed chord, every kana of one character.               *)
FailureLayout == [SequenceLayout EXCEPT
                  !.chords = <<Chord(<<"w", "d">>, FALSE, NoWindow, One("go"))>>,
                  !.chordWindow = 1]
FailureKeys == SequenceKeys \cup {"BackSpace"}

(* The theorems about the text on the screen are about these two layouts   *)
(* (TimerLayout defers tails: it is not one of theirs).                    *)
ASSUME ProvedLayouts ==
  /\ KanaLayout(EngineLayout) /\ NothingPassed(EngineLayout)
  /\ KanaLayout(FailureLayout) /\ NothingPassed(FailureLayout)
  /\ NoDirects(EngineLayout)
  /\ (EngineKeys \cup FailureKeys) \cap {"Return", "Escape"} = {}

=============================================================================
