---------------------------- MODULE LayoutLoader ----------------------------
(***************************************************************************)
(* Loading a layout file (mzkana-core src/config.rs): from the tables of   *)
(* the TOML document to the layout the state machine runs, or to nothing   *)
(* if the file is refused.                                                 *)
(*                                                                         *)
(* An output string is the sequence of its words; a word is its modifier   *)
(* prefixes, whether "!" follows them, and the rest.  A cell of a grid is  *)
(* an output string, Blank or XX; <<>> is a quoted cell of spaces.         *)
(***************************************************************************)
EXTENDS Integers, SequencesExt

(* The names that may follow "!". *)
FunctionKeys == {"F" \o ToString(n) : n \in 1..12}
VALID_FUNCTION_KEYS ==
  FunctionKeys \cup
  {"Return", "Tab", "Escape", "BackSpace", "Delete", "Home", "End", "Insert",
   "Up", "Down", "Left", "Right", "Prior", "Next", "PageUp", "PageDown",
   "space", "Henkan", "Muhenkan", "Hiragana_Katakana"}

Word(mods, bang, name) == [mods |-> mods, bang |-> bang, name |-> name]
Blank == <<Word({}, FALSE, "")>>
XX    == <<Word({}, FALSE, "XX")>>
PASSTHROUGH_CELL == <<Word({}, FALSE, "NUL pt")>>

(* Option::None of a name and of an output; the document or layout that is *)
(* not there; the columns of a grid whose first line is no header.         *)
Absent   == "absent"
NoOutput == <<Word({}, FALSE, "NUL none")>>
NoHeader == -1
NoLayout == [kind |-> "none"]

(* The keys of a grid row, by its label. *)
QwertyRow ==
  [l \in {"0", "1", "2", "3"} |->
     CASE l = "0" -> <<"1", "2", "3", "4", "5", "6", "7", "8", "9", "0",
                       "minus", "equal", "yen">>
       [] l = "1" -> <<"tab", "q", "w", "e", "r", "t", "y", "u", "i", "o", "p",
                       "bracketleft", "bracketright", "backslash">>
       [] l = "2" -> <<"caps_lock", "a", "s", "d", "f", "g", "h", "j", "k", "l",
                       "semicolon", "quote">>
       [] l = "3" -> <<"lshift", "z", "x", "c", "v", "b", "n", "m", "comma",
                       "period", "slash", "intlro">>]

(* One line after the header: it names the keys of the lines that follow,  *)
(* or gives keys their cells.  Cells past the keys or past the columns of  *)
(* the header are dropped.                                                 *)
RowKeys(g, line) == IF g.explicit # <<>> THEN g.explicit ELSE QwertyRow[line.label]

WithRow(g, line) ==
  LET keys   == RowKeys(g, line)
      filled == {i \in DOMAIN line.cells : /\ i <= Len(keys) /\ i <= g.columns
                                           /\ line.cells[i] # Blank}
      last(k) == CHOOSE i \in filled : keys[i] = k /\ \A j \in filled : keys[j] = k => j <= i
  IN  [g EXCEPT !.map = [k \in {keys[i] : i \in filled} |->
                           LET c == line.cells[last(k)]
                           IN  IF c = XX THEN PASSTHROUGH_CELL ELSE c] @@ g.map]

WithLine(g, line) ==
  CASE ~g.ok \/ line.cells = <<>> -> g
    [] line.label = "." -> [g EXCEPT !.explicit = [i \in DOMAIN line.cells |->
                                                     line.cells[i][1].name]]
    [] g.explicit = <<>> /\ line.label \notin DOMAIN QwertyRow -> [g EXCEPT !.ok = FALSE]
    [] OTHER -> WithRow(g, line)

(* parse_grid *)
ParseGrid(grid) ==
  FoldLeft(WithLine,
           [ok |-> grid.columns # NoHeader, columns |-> grid.columns,
            explicit |-> <<>>, map |-> <<>>],
           grid.lines)

-----------------------------------------------------------------------------
(* The checks of Layout::validate. *)

(* A layer that needs a trigger or a modifier names it. *)
HasItsKey(layer) == layer.kind = "Single" \/ layer.of # Absent

DirectsAgree(doc) ==
  \A i, j \in DOMAIN doc.directs :
    doc.directs[i].sequence = doc.directs[j].sequence
      => doc.directs[i].output = doc.directs[j].output

(* The strings whose function keys are checked: not the tap_output of the  *)
(* modifiers.                                                              *)
Outputs(layout) ==
  (UNION {Range(map) : map \in {layout.base} \cup Range(layout.layers)})
  \cup {c.output : c \in Range(layout.chords)}
  \cup {d.output : d \in Range(layout.directs)}
  \cup Range(layout.aliases)

(* Mutant of FunctionKeysKnown: aliases are not checked. *)
CellKeysKnown(layout) ==
  \A raw \in Outputs(layout) \ Range(layout.aliases) : \A w \in Range(raw) :
    w.bang => w.name \in VALID_FUNCTION_KEYS

FunctionKeysKnown(layout) ==
  \A raw \in Outputs(layout) : \A w \in Range(raw) :
    w.bang => w.name \in VALID_FUNCTION_KEYS

TapOutputsFit(doc) ==
  /\ \A m \in Range(doc.modifiers) : (m.tapAction = "Output") = (m.tapOutput # NoOutput)
  /\ doc.triggerTap \in {"Passthrough", "None"}

-----------------------------------------------------------------------------
(* load_layout.  doc.toml: the text is TOML that fits the schema.  Layers  *)
(* of one kind keep their order; the last Single layer is the base.        *)
GridsOf(doc, kinds) ==
  LET layers == SelectSeq(doc.layers, LAMBDA l : l.kind \in kinds)
  IN  [i \in DOMAIN layers |-> ParseGrid(layers[i].grid).map]

Clamp(n) == Max({1, Min({9, n})})

Compiled(doc) ==
  LET singles == GridsOf(doc, {"Single"})
  IN  [base     |-> IF singles = <<>> THEN <<>> ELSE Last(singles),
       layers   |-> GridsOf(doc, {"Prefix", "Postfix", "Modified"}),
       chords   |-> doc.chords, directs |-> doc.directs,
       aliases  |-> doc.aliases, modifiers |-> doc.modifiers,
       settings |-> [doc.settings EXCEPT !.pageSize = Clamp(@)]]

Loads(doc) ==
  /\ doc # NoLayout
  /\ doc.toml
  /\ \A l \in Range(doc.layers) : ParseGrid(l.grid).ok /\ HasItsKey(l)
  /\ \A name \in DOMAIN doc.aliases : doc.aliases[name] # <<>>
  /\ DirectsAgree(doc)
  /\ FunctionKeysKnown(Compiled(doc))
  /\ TapOutputsFit(doc)

-----------------------------------------------------------------------------
(* What the rest of the program relies on. *)

(* resolve_sequence: an alias of that name, or the words of the string.    *)
Resolve(layout, raw) ==
  IF Len(raw) = 1 /\ raw[1].name \in DOMAIN layout.aliases /\ ~raw[1].bang /\ raw[1].mods = {}
  THEN layout.aliases[raw[1].name] ELSE raw

(* xkb_name_to_mozc_special: the names with a SpecialKey of Mozc's.        *)
SpecialKeys ==
  {"Return", "Tab", "Escape", "BackSpace", "Delete", "Insert", "Home", "End",
   "Up", "Down", "Left", "Right", "Prior", "PageUp", "Next", "PageDown",
   "space", "Henkan", "Muhenkan", "Hiragana_Katakana"} \cup FunctionKeys

(* send_function_key, send_modified_key: what a word with "!" becomes can  *)
(* be sent to Mozc.  An op that cannot costs the engine its session.       *)
Sendable(w) == w.bang => w.name \in SpecialKeys

(* Every function key that can be typed through a grid, a chord, an alias  *)
(* or a kanji sequence has an encoding, and a kanji sequence has one       *)
(* meaning.  A word with modifiers and without "!" (C-z) is not checked by *)
(* the loader, and has an encoding only if it is one ASCII character.      *)
Sound(layout) ==
  /\ \A raw \in Outputs(layout) : \A w \in Range(Resolve(layout, raw)) : Sendable(w)
  /\ \A i, j \in DOMAIN layout.directs :
       layout.directs[i].sequence = layout.directs[j].sequence
         => layout.directs[i].output = layout.directs[j].output
  /\ \A m \in Range(layout.modifiers) : m.tapAction = "Output" => m.tapOutput # NoOutput
=============================================================================
