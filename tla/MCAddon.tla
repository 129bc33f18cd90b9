------------------------------ MODULE MCAddon -------------------------------
(***************************************************************************)
(* Layout files good and bad for the addon.                                *)
(***************************************************************************)
EXTENDS Addon

KanaRaw(c) == <<Word({}, FALSE, c)>>
FnRaw(k)   == <<Word({}, TRUE, k)>>
Row(cells) == [label |-> "2", cells |-> cells]
Grid(lines) == [columns |-> 3, lines |-> lines]
Layer(kind, of, lines) == [kind |-> kind, of |-> of, grid |-> Grid(lines)]

(* A base grid with a second row of named keys, a prefix layer, an alias   *)
(* and a kanji sequence.                                                   *)
Plain ==
  [toml |-> TRUE,
   layers |-> <<Layer("Single", Absent,
                      <<Row(<<Blank, KanaRaw("u"), KanaRaw("alias"), KanaRaw("late")>>),
                        [label |-> ".", cells |-> <<KanaRaw("f"), KanaRaw("j")>>],
                        [label |-> "x", cells |-> <<FnRaw("F1"), XX>>]>>),
                Layer("Prefix", "f", <<Row(<<XX, KanaRaw("ka")>>)>>)>>,
   chords |-> <<[keys |-> <<"a", "s">>, output |-> KanaRaw("alias")]>>,
   directs |-> <<[sequence |-> <<"a", "s">>, output |-> KanaRaw("kan")]>>,
   aliases |-> "alias" :> <<Word({}, FALSE, "ten"), Word({}, TRUE, "Return")>>,
   modifiers |-> <<[tapAction |-> "Passthrough", tapOutput |-> NoOutput]>>,
   triggerTap |-> "Passthrough",
   settings |-> [pageSize |-> 0, preserve |-> FALSE, prediction |-> TRUE]]

Preserving == [Plain EXCEPT !.settings.preserve = TRUE, !.settings.prediction = FALSE,
                            !.settings.pageSize = 12]

(* Files that must not be loaded. *)
HalfWritten  == [Plain EXCEPT !.toml = FALSE]
UnknownKey   == [Plain EXCEPT !.aliases["alias"] = FnRaw("Enter")]
Contradiction == [Plain EXCEPT !.directs = Append(@, [@[1] EXCEPT !.output = KanaRaw("ji")])]
NoTrigger    == [Plain EXCEPT !.layers[2].of = Absent]
UnknownRow   == [Plain EXCEPT !.layers[2].grid.lines[1].label = "4"]
NoHeaderLine == [Plain EXCEPT !.layers[2].grid.columns = NoHeader]
EmptyAlias   == [Plain EXCEPT !.aliases["alias"] = <<>>]
NoTapOutput  == [Plain EXCEPT !.modifiers[1].tapAction = "Output"]

AddonContents == "plain" :> Plain @@ "preserving" :> Preserving
                 @@ "unknown key" :> UnknownKey
AddonOptions == {Follow, [focus |-> "Reset", prediction |-> "Hide"]}

(* Each of the others is refused, by one check alone.                      *)
ASSUME LoaderRefuses ==
  /\ \A doc \in {Plain, Preserving} : Loads(doc)
  /\ \A doc \in {HalfWritten, Contradiction, NoTrigger, UnknownRow,
                 NoHeaderLine, EmptyAlias, NoTapOutput, NoLayout} : ~Loads(doc)
  /\ Loads([Plain EXCEPT !.modifiers[1] = [tapAction |-> "Output", tapOutput |-> <<>>]])
  /\ Compiled(Preserving).settings.pageSize = 9
  /\ Compiled(Plain).base = [k \in {"a", "s", "f", "j"} |->
       CASE k = "a" -> KanaRaw("u") [] k = "s" -> KanaRaw("alias")
         [] k = "f" -> FnRaw("F1") [] k = "j" -> PASSTHROUGH_CELL]
=============================================================================
