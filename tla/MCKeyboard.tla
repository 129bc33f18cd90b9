----------------------------- MODULE MCKeyboard -----------------------------
(***************************************************************************)
(* The state machine under a physical keyboard, over the small layouts.    *)
(***************************************************************************)
EXTENDS Keyboard, MCLayouts

(* The theorem that held chords fire is about this layout.                 *)
ASSUME ProvedMutuals == MutualsClosed(MutualLayout) /\ MutualsFirst(MutualLayout)
=============================================================================
