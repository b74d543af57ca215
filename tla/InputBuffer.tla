----------------------------- MODULE InputBuffer -----------------------------
(***************************************************************************)
(* The text buffer of the analyser: it keeps the original sentence, the    *)
(* sentence as the input-text plugins rewrote it, and a byte mapping from  *)
(* the rewritten sentence back to the original one.  Every surface the     *)
(* analyser reports is cut out of the original through that mapping.       *)
(*                                                                         *)
(* Texts are sequences of bytes.  A byte is a member of Chars (the first   *)
(* byte of that character) or Cont (any later byte of a character), so a   *)
(* character boundary is a byte that is not Cont, or the end of the text.  *)
(* Offsets are 0-based as in the code; the sequence element of offset b is *)
(* s[b + 1].                                                               *)
(*                                                                         *)
(* The loop of resolve_edits over the recorded edits is unrolled: each     *)
(* iteration is one ResolveEdit step.  Nothing else runs meanwhile (the    *)
(* buffer is borrowed), the phase variable says so.                        *)
(***************************************************************************)
EXTENDS Integers, Sequences, FiniteSets, SequencesExt, CharacterCategories

CONSTANTS
  Chars,             (* characters                                         *)
  CodePoint,         (* Chars -> code point                                *)
  CharDef,           (* the character definition of the dictionary         *)
  Definitions,       (* other definitions, over the code points of CharDef *)
  Cont,              (* a continuation byte                                *)
  Texts,             (* byte sequences a caller writes into the buffer     *)
  Replacements,      (* byte sequences a plugin replaces a range with      *)
  MAX_LENGTH,        (* longest accepted input, in bytes                   *)
  REALLY_MAX_LENGTH, (* longest rewritten text, in bytes (u16::MAX)        *)
  MaxRounds,         (* bound: number of configured input-text plugins     *)
  MaxEdits           (* bound: edits one plugin records                    *)

Byte == Chars \cup {Cont}

ASSUME ContAssumption == Cont \notin Chars
ASSUME CharDefAssumption ==
  /\ CharDef # << >> /\ IsDefinition(CharDef)
  /\ \A c \in Chars : IsChar(CodePoint[c])
ASSUME TextsAssumption ==
  Texts \subseteq {t \in Seq(Byte) : t # << >> => t[1] # Cont}
ASSUME ReplacementsAssumption ==
  Replacements \subseteq {t \in Seq(Byte) : t # << >> => t[1] # Cont}
ASSUME LimitsAssumption ==
  /\ MAX_LENGTH \in Nat
  /\ REALLY_MAX_LENGTH \in Nat
  /\ MAX_LENGTH <= REALLY_MAX_LENGTH
ASSUME BoundsAssumption == MaxRounds \in Nat /\ MaxEdits \in Nat

(* get_category_types, of the characters of the model.                     *)
CharacterCategory == TableOf(CharDef)

Cats == [c \in Chars |-> CategoryTypesOf(CharacterCategory, CodePoint[c])]

NonStarting == {"ALPHA", "GREEK", "CYRILLIC"}

VARIABLES
  state,             (* "Clean", "RW" or "RO"                              *)
  original,          (* the text as it was given                           *)
  modified,          (* the text after the edits committed so far          *)
  m2o,               (* offset in modified -> offset in original           *)
  modified_2,        (* scratch text of a commit                           *)
  m2o_2,             (* scratch mapping; byte -> char of original after build *)
  replaces,          (* edits recorded and not yet resolved                *)
  start,             (* resolve_edits: first byte of modified not consumed *)
  curLen,            (* resolve_edits: length the result would have        *)
  phase,             (* "idle", "editing" or "resolving"                   *)
  result,            (* what the last fallible call returned               *)
  rounds,            (* plugins run on this text                           *)
  mod_chars, mod_c2b, mod_b2c, mod_bow, mod_cat, mod_cat_continuity

mapping == <<state, original, modified, m2o, modified_2, m2o_2, replaces,
             start, curLen, phase, result, rounds>>
tables  == <<mod_c2b, mod_b2c, mod_bow, mod_cat, mod_cat_continuity>>
vars    == <<mapping, mod_chars, tables>>
-----------------------------------------------------------------------------
(* Bytes, characters and boundaries.                                       *)

IsBoundary(text, b) == b = Len(text) \/ (b < Len(text) /\ text[b + 1] # Cont)

CharStarts(text) == {b \in 0 .. Len(text) - 1 : text[b + 1] # Cont}

CharsBefore(text, b) == Cardinality({s \in CharStarts(text) : s < b})

NumChars(text) == Cardinality(CharStarts(text))

(* Character index -> byte offset, with the length of the text at its end. *)
CharToByte(text) == Append(Ascending(CharStarts(text)), Len(text))

CharsOf(text) ==
  LET offset == CharToByte(text)
  IN [k \in 1 .. NumChars(text) |-> text[offset[k] + 1]]

(* Byte offset -> character index; the sentinel of an empty text is 1.     *)
ByteToChar(text) ==
  [i \in 1 .. Len(text) + 1 |->
     IF i <= Len(text) THEN CharsBefore(text, i) - 1
     ELSE IF text = << >> THEN 1 ELSE CharsBefore(text, Len(text))]

(* usize::MAX in the byte -> character table of the original.              *)
NoChar == -1

OrigByteToChar(text) ==
  [i \in 1 .. Len(text) + 1 |->
     IF i > Len(text) THEN (IF text = << >> THEN 1 ELSE CharsBefore(text, Len(text)))
     ELSE IF text[i] # Cont THEN CharsBefore(text, i - 1)
     ELSE NoChar]

(* Whether the byte may start a word: a character of an alphabetic script  *)
(* that continues a run of a category of the previous character may not.   *)
BeginOfWord(text) ==
  LET prev(i) == IF CharsBefore(text, i - 1) = 0 THEN {}
                 ELSE Cats[CharsOf(text)[CharsBefore(text, i - 1)]]
  IN [i \in 1 .. Len(text) |->
        /\ text[i] # Cont
        /\ Cats[text[i]] \cap NonStarting # {} => Cats[text[i]] \cap prev(i) = {}]

CategoriesOf(chars) == [i \in DOMAIN chars |-> Cats[chars[i]]]
-----------------------------------------------------------------------------
Init ==
  /\ state = "Clean"
  /\ original = << >> /\ modified = << >> /\ m2o = << >>
  /\ modified_2 = << >> /\ m2o_2 = << >>
  /\ replaces = << >> /\ start = 0 /\ curLen = 0
  /\ phase = "idle" /\ result = "ok" /\ rounds = 0
  /\ mod_chars = << >> /\ mod_c2b = << >> /\ mod_b2c = << >>
  /\ mod_bow = << >> /\ mod_cat = << >> /\ mod_cat_continuity = << >>

(* reset, and the caller writing the next sentence into the returned text. *)
(* The scratch buffers keep what the previous sentence left in them.       *)
Reset(text) ==
  /\ phase = "idle"
  /\ state' = "Clean"
  /\ original' = text /\ modified' = << >> /\ m2o' = << >>
  /\ mod_chars' = << >> /\ mod_c2b' = << >> /\ mod_b2c' = << >>
  /\ mod_bow' = << >> /\ mod_cat' = << >> /\ mod_cat_continuity' = << >>
  /\ result' = "ok" /\ rounds' = 0
  /\ UNCHANGED <<modified_2, m2o_2, replaces, start, curLen, phase>>

StartBuildTooLong ==
  /\ phase = "idle" /\ state = "Clean"
  /\ Len(original) > MAX_LENGTH
  /\ result' = "InputTooLong"
  /\ UNCHANGED <<state, original, modified, m2o, modified_2, m2o_2, replaces,
                 start, curLen, phase, rounds, mod_chars, tables>>

StartBuild ==
  /\ phase = "idle" /\ state = "Clean"
  /\ Len(original) <= MAX_LENGTH
  /\ state' = "RW"
  /\ modified' = modified \o original
  /\ m2o' = m2o \o [i \in 1 .. Len(modified') + 1 |-> i - 1]
  /\ result' = "ok"
  /\ UNCHANGED <<original, modified_2, m2o_2, replaces, start, curLen, phase,
                 rounds, mod_chars, tables>>

RefreshChars ==
  /\ phase = "idle" /\ state = "RW"
  /\ mod_chars = << >>
  /\ mod_chars' = CharsOf(modified)
  /\ UNCHANGED <<mapping, tables>>
-----------------------------------------------------------------------------
(* with_editor: the plugin records edits, then they are committed or       *)
(* dropped.                                                                *)

OpenEditor ==
  /\ phase = "idle" /\ state = "RW" /\ rounds < MaxRounds
  /\ phase' = "editing"
  /\ rounds' = rounds + 1
  /\ UNCHANGED <<state, original, modified, m2o, modified_2, m2o_2, replaces,
                 start, curLen, result, mod_chars, tables>>

(* The plugins record their edits in text order, without overlaps and on   *)
(* character boundaries of the current text.                               *)
RecordEdit(from, to, with) ==
  /\ phase = "editing"
  /\ Len(replaces) < MaxEdits
  /\ from < to /\ to <= Len(modified)
  /\ IsBoundary(modified, from) /\ IsBoundary(modified, to)
  /\ replaces # << >> => from >= replaces[Len(replaces)].to
  /\ replaces' = Append(replaces, [from |-> from, to |-> to, with |-> with])
  /\ UNCHANGED <<state, original, modified, m2o, modified_2, m2o_2, start,
                 curLen, phase, result, rounds, mod_chars, tables>>

Rollback ==
  /\ phase = "editing"
  /\ phase' = "idle"
  /\ replaces' = << >>
  /\ result' = "PluginFailed"
  /\ UNCHANGED <<state, original, modified, m2o, modified_2, m2o_2, start,
                 curLen, rounds, mod_chars, tables>>

CommitNothing ==
  /\ phase = "editing" /\ replaces = << >>
  /\ phase' = "idle"
  /\ result' = "ok"
  /\ UNCHANGED <<state, original, modified, m2o, modified_2, m2o_2, replaces,
                 start, curLen, rounds, mod_chars, tables>>

(* The characters a commit leaves behind: none, they are computed anew by  *)
(* the next plugin that wants them.                                        *)
Bug_StaleChars == mod_chars

CharsOfCommit == << >>

BeginCommit ==
  /\ phase = "editing" /\ replaces # << >>
  /\ phase' = "resolving"
  /\ mod_chars' = CharsOfCommit
  /\ modified_2' = << >> /\ m2o_2' = << >>
  /\ start' = 0 /\ curLen' = Len(modified)
  /\ UNCHANGED <<state, original, modified, m2o, replaces, result, rounds, tables>>

(* What add_replace appends to the mapping: the first byte stands for the  *)
(* whole replaced range, the others for the empty range behind it.         *)
Bug_PointsInsideRange(edit) ==
  [i \in 1 .. Len(edit.with) |-> m2o[edit.from + 1] + i - 1]

ReplacementMapping(edit) ==
  [i \in 1 .. Len(edit.with) |-> IF i = 1 THEN m2o[edit.from + 1] ELSE m2o[edit.to + 1]]

(* Length of the result after one more edit.                               *)
Bug_DeletionIsFree(edit) == curLen + Len(edit.with)

Bug_DeltaOnly(edit) == Len(edit.with) - (edit.to - edit.from)

LengthAfter(edit) == curLen + Len(edit.with) - (edit.to - edit.from)

TooLong(len) == len > REALLY_MAX_LENGTH

ResolveEdit ==
  LET edit == replaces[1]
  IN
  /\ phase = "resolving" /\ replaces # << >>
  /\ modified_2' = modified_2 \o SubSeq(modified, start + 1, edit.from) \o edit.with
  /\ m2o_2' = m2o_2 \o SubSeq(m2o, start + 1, edit.from) \o ReplacementMapping(edit)
  /\ start' = edit.to
  /\ curLen' = LengthAfter(edit)
  /\ IF TooLong(curLen')
     THEN replaces' = << >> /\ phase' = "idle" /\ result' = "InputTooLong"
     ELSE replaces' = Tail(replaces) /\ UNCHANGED <<phase, result>>
  /\ UNCHANGED <<state, original, modified, m2o, rounds, mod_chars, tables>>

(* The first byte of a mapping is forced to 0: a deleted prefix belongs to *)
(* the first surface.                                                      *)
FirstIsZero(map) == [map EXCEPT ![1] = 0]

(* The part of the mapping behind the last edit, with its sentinel.        *)

RestOfMapping == SubSeq(m2o, start + 1, Len(m2o))

(* The rest of the text, the zero forced into the first entry, and the two *)
(* swaps of commit.  The length check of commit cannot fail here: every    *)
(* iteration has checked it.                                               *)
FinishCommit ==
  /\ phase = "resolving" /\ replaces = << >>
  /\ phase' = "idle"
  /\ modified' = modified_2 \o SubSeq(modified, start + 1, Len(modified))
  /\ m2o' = FirstIsZero(m2o_2 \o RestOfMapping)
  /\ modified_2' = modified /\ m2o_2' = m2o
  /\ result' = "ok"
  /\ UNCHANGED <<state, original, replaces, start, curLen, rounds, mod_chars, tables>>

Build ==
  /\ phase = "idle" /\ state = "RW"
  /\ state' = "RO"
  /\ mod_chars' = CharsOf(modified)
  /\ mod_c2b' = mod_c2b \o CharToByte(modified)
  /\ mod_b2c' = mod_b2c \o ByteToChar(modified)
  /\ mod_bow' = BeginOfWord(modified)
  /\ mod_cat' = mod_cat \o CategoriesOf(CharsOf(modified))
  /\ mod_cat_continuity' = CategoryContinuity(mod_cat')
  /\ m2o_2' = OrigByteToChar(original)
  /\ result' = "ok"
  /\ UNCHANGED <<original, modified, m2o, modified_2, replaces, start, curLen,
                 phase, rounds>>

Next ==
  \/ \E text \in Texts : Reset(text)
  \/ StartBuildTooLong \/ StartBuild
  \/ RefreshChars
  \/ OpenEditor
  \/ \E from, to \in 0 .. Len(modified), with \in Replacements : RecordEdit(from, to, with)
  \/ Rollback \/ CommitNothing \/ BeginCommit \/ ResolveEdit \/ FinishCommit
  \/ Build

Spec == Init /\ [][Next]_vars
-----------------------------------------------------------------------------
(* Every variable of the buffer has its type; offsets of the recorded      *)
(* edits lie in the text they edit.                                        *)
TypeOK ==
  /\ state \in {"Clean", "RW", "RO"}
  /\ phase \in {"idle", "editing", "resolving"}
  /\ result \in {"ok", "InputTooLong", "PluginFailed"}
  /\ original \in Seq(Byte) /\ modified \in Seq(Byte) /\ modified_2 \in Seq(Byte)
  /\ m2o \in Seq(Nat) /\ m2o_2 \in Seq(Nat \cup {NoChar})
  /\ replaces \in Seq([from : Nat, to : 0 .. Len(modified), with : Seq(Byte)])
  /\ start \in Nat /\ curLen \in Nat /\ rounds \in Nat

(* Whatever edits were committed, the mapping has one entry per byte and   *)
(* one for the end, starts at 0, never goes back and ends at the end of    *)
(* the original (unless everything was deleted): slices of the original    *)
(* cut through it never overlap and never leave a gap.                     *)
MappingWellFormed ==
  state # "Clean" =>
    /\ Len(m2o) = Len(modified) + 1
    /\ m2o[1] = 0
    /\ \A i, j \in 1 .. Len(m2o) : i <= j => m2o[i] <= m2o[j]
    /\ modified # << >> => m2o[Len(m2o)] = Len(original)

(* A character boundary of the rewritten text maps to a character boundary *)
(* of the original, so orig_slice never cuts a character in two.           *)
BoundariesMapToBoundaries ==
  state # "Clean" =>
    \A b \in 0 .. Len(modified) :
      IsBoundary(modified, b) => IsBoundary(original, m2o[b + 1])

(* The text the lattice is built over never outgrows u16, whatever the     *)
(* plugins insert: node offsets are u16.                                   *)
LengthBounded == Len(modified) <= REALLY_MAX_LENGTH

(* The running length of resolve_edits is the length its result will have: *)
(* the limit is enforced on the real length.                               *)
RunningLengthIsExact ==
  phase = "resolving" => curLen = Len(modified_2) + Len(modified) - start

(* A plugin that asks for characters never gets those of the text before   *)
(* the previous plugin's edits.                                            *)
CharsAreFresh ==
  state = "RW" /\ mod_chars # << >> => mod_chars = CharsOf(modified)

OrigByte(i) == m2o[mod_c2b[i] + 1]

(* In a built buffer the surfaces of the characters, one after the other,  *)
(* are the original text: nothing is dropped and nothing reported twice.   *)
SurfacesTileOriginal ==
  state = "RO" /\ modified # << >> =>
    FlattenSeq([i \in 1 .. Len(mod_chars) |->
                  SubSeq(original, OrigByte(i) + 1, OrigByte(i + 1))]) = original

(* Each character of a built buffer has an original character index; the   *)
(* hole value usize::MAX is never returned, and the indices never go back. *)
OrigCharIndexDefined ==
  state = "RO" =>
    \A i, j \in 1 .. Len(mod_c2b) :
      /\ m2o_2[OrigByte(i) + 1] # NoChar
      /\ i <= j => m2o_2[OrigByte(i) + 1] <= m2o_2[OrigByte(j) + 1]

(* The two index tables of a built buffer are inverse to each other on     *)
(* every byte of every character.                                          *)
IndexTablesAgree ==
  state = "RO" =>
    /\ Len(mod_c2b) = Len(mod_chars) + 1
    /\ Len(mod_b2c) = Len(modified) + 1
    /\ \A c \in 1 .. Len(mod_chars) :
         \A b \in mod_c2b[c] .. mod_c2b[c + 1] - 1 : mod_b2c[b + 1] = c - 1

(* The length the unknown-word providers take from the continuity table    *)
(* stays in the text and spans characters that do share a category.        *)
ContinuitySpansOneCategory ==
  state = "RO" =>
    \A i \in 1 .. Len(mod_cat) :
      LET last == i + mod_cat_continuity[i] - 1
      IN last <= Len(mod_cat) /\ (last > i => Common(mod_cat, i, last) # {})
-----------------------------------------------------------------------------
(* What with_editor, resolve_edits and build promise together.             *)

(* However many plugins edited, the mapping is a monotone one onto the     *)
(* whole original that sends characters' boundaries to characters'         *)
(* boundaries (commit, add_replace): orig_slice neither panics nor cuts.   *)
MappingCorrect == MappingWellFormed /\ BoundariesMapToBoundaries

(* The limit of u16 offsets is kept, and checked against the length the    *)
(* commit will really give the text (resolve_edits).                       *)
LengthCorrect == LengthBounded /\ RunningLengthIsExact

(* Whatever lines a definition has, overlapping, adjacent, of the same     *)
(* categories or apart, the table made of it gives each character all its  *)
(* lines say (CharacterCategory::compile, get_category_types), and so do   *)
(* the ranges read one by one (iter), which end at characters.             *)
CategoriesAreGiven ==
  \A def \in {d \in Definitions : IsDefinition(d)} :
    LET table == TableOf(def)
        codes == {r.begin : r \in Ranges(def)} \cup {r.end : r \in Ranges(def)}
    IN \A code \in UNION {{c - 1, c, c + 1} : c \in codes} :
         IsChar(code) =>
           /\ CategoryTypesOf(table, code) = CategoriesGiven(def, code)
           /\ code # LastChar =>
                \A type \in CategoryTypes :
                  InClass(table, {type}, code) <=> type \in CategoriesGiven(def, code)

(* The tables of build describe the rewritten text and no earlier one:     *)
(* characters, both index tables, original characters, category runs, of   *)
(* the categories the definition gives; and the surfaces cut through them  *)
(* are the original text, in order.                                        *)
TablesDescribeText ==
  /\ CategoriesAreGiven
  /\ CharsAreFresh /\ IndexTablesAgree /\ OrigCharIndexDefined
  /\ ContinuitySpansOneCategory /\ SurfacesTileOriginal
=============================================================================
