------------------------------- MODULE Editor -------------------------------
(***************************************************************************)
(* What a user of the input method relies on: a text of which the end is   *)
(* still being composed, and of that only the last "open" characters may   *)
(* be rewritten.  Everything before them changes only when the user erases *)
(* it or drops the composition.                                            *)
(***************************************************************************)
EXTENDS Integers, SequencesExt

VARIABLES
  committed,  \* the application's text
  composing,  \* the text Mozc is composing
  open        \* how many characters at the end may be rewritten

evars == <<committed, composing, open>>

Text    == committed \o composing
Settled == SubSeq(Text, 1, Len(Text) - open)

Init == committed = <<>> /\ composing = <<>> /\ open = 0

OpenAfter == open' \in 0..Len(Text')

(* Rewrite some of the open characters and type others; the composition    *)
(* may be committed on the way.                                            *)
Type == IsPrefix(Settled, Text') /\ OpenAfter

(* The user's BackSpace. *)
Erase == Text # <<>> /\ Text' = Front(Text) /\ OpenAfter

(* Focus change, reload: the composition is dropped. *)
Discard == composing' = <<>> /\ committed' = committed /\ open' = 0

(* Characters are settled without a change of the text. *)
Settle == UNCHANGED <<committed, composing>> /\ open' \in 0..open

(* With nothing open, a key goes to the application ahead of the           *)
(* composition.                                                            *)
Bypass == /\ open = 0
          /\ IsPrefix(committed, committed') /\ Len(committed') = Len(committed) + 1
          /\ composing' = composing /\ open' = 0

Next == Type \/ Erase \/ Discard \/ Settle \/ Bypass

Spec == Init /\ [][Next]_evars
=============================================================================
