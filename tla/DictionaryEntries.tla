------------------------- MODULE DictionaryEntries --------------------------
(***************************************************************************)
(* How the rows of a lexicon csv become entries of the builder, how much   *)
(* room each takes and which number it gets by it, and how references      *)
(* between entries become numbers.                                         *)
(*                                                                         *)
(* A csv is [header, rows].  The header is the sequence of the column      *)
(* names, or << >> for the fixed layout of old files (V0), which has all   *)
(* columns.  A row is a function from the columns it has to cells:         *)
(*   - a text is a sequence of characters, after unescaping;               *)
(*   - a number is an integer; one outside its range stands for every      *)
(*     literal that cannot be parsed;                                      *)
(*   - POS1 to POS6 are one cell "POS", the name of a part of speech or    *)
(*     NoPos;                                                              *)
(*   - a list is a sequence of references; <<Star>> is an asterisk;        *)
(*   - a reference is a line, a key with the id or with the name of a part *)
(*     of speech, a word, Star or Empty.                                   *)
(*                                                                         *)
(* The table of parts of speech is a sequence of [name, id] in the order   *)
(* of insertion.  Reading a row adds the names it mentions, those of a row *)
(* that is refused later too.                                              *)
(*                                                                         *)
(* Entries are written one after the other, each as long as its lists, and *)
(* the number of an entry is where it begins.  A list that equals the one  *)
(* before it takes no room.                                                *)
(***************************************************************************)
EXTENDS Integers, Sequences, SequencesExt, FiniteSetsExt

CONSTANTS
  MaxPosIds,        (* MAX_POS_IDS (i16::MAX)                              *)
  MaxArrayLen,      (* MAX_ARRAY_LEN (127)                                 *)
  MaxDicStringLen   (* MAX_DIC_STRING_LEN (i16::MAX)                       *)

ASSUME CsvAssumption == MaxPosIds \in Nat /\ MaxArrayLen \in Nat /\ MaxDicStringLen \in Nat

Star == [kind |-> "star"]
Empty == [kind |-> "empty"]
NoPos == "-"
Line(n, user) == [kind |-> "line", line |-> n, user |-> user]
Word(headword) == [kind |-> "word", headword |-> headword]
NamedKey(headword, name, reading, ref) ==
  [kind |-> "named", headword |-> headword, name |-> name, reading |-> reading, ref |-> ref]
NumberedKey(headword, id, reading, ref) ==
  [kind |-> "numbered", headword |-> headword, id |-> id, reading |-> reading, ref |-> ref]

IsI16(n) == n \in -32768 .. 32767
IsU32(n) == n >= 0    (* bound: numbers of the model stay below 2^31 *)
IsText(s) == Len(s) <= MaxDicStringLen

Required == <<"INDEX_FORM", "LEFT_ID", "RIGHT_ID", "COST", "READING_FORM",
              "NORMALIZED_FORM", "DICTIONARY_FORM", "SPLIT_A", "SPLIT_B", "WORD_STRUCTURE">>
PosParts == {"POS1", "POS2", "POS3", "POS4", "POS5", "POS6"}
Columns == ToSet(Required) \cup PosParts \cup
           {"HEADWORD", "MODE", "SYNONYM_GROUPS", "SPLIT_C", "USER_DATA", "POS_ID", "REFERENCE_ID"}

(* ColumnLayout::from_record and parse_header_mapping. *)
IsHeader(header) ==
  /\ ToSet(header) \subseteq Columns
  /\ IsInjective(header)
  /\ ToSet(Required) \subseteq ToSet(header)
  /\ ToSet(header) \cap PosParts \in {{}, PosParts}
  /\ "POS_ID" \in ToSet(header) \/ PosParts \subseteq ToSet(header)
-----------------------------------------------------------------------------
(* The part-of-speech table.                                               *)
Knows(pos, name) == \E i \in DOMAIN pos : pos[i].name = name
PosId(pos, name) == pos[CHOOSE i \in DOMAIN pos : pos[i].name = name].id

(* IndexMap::insert: a name that is there keeps its place.                 *)
PosInsert(pos, name, id) ==
  IF Knows(pos, name)
  THEN [i \in DOMAIN pos |-> IF pos[i].name = name THEN [name |-> name, id |-> id] ELSE pos[i]]
  ELSE Append(pos, [name |-> name, id |-> id])

(* What the parser does with a row, in order: it checks something, it asks *)
(* for the id of a name (pos_id_of), or it looks at a given id.            *)
Check(holds) == <<[kind |-> "check", holds |-> holds]>>
Intern(name) == <<[kind |-> "intern", name |-> name]>>
Agrees(name, id) == <<[kind |-> "agrees", name |-> name, id |-> id]>>
Known(id) == <<[kind |-> "known", id |-> id]>>

(* s is [ok, pos].                                                         *)
Do(s, step) ==
  IF ~s.ok THEN s
  ELSE CASE step.kind = "check" -> [s EXCEPT !.ok = step.holds]
         [] step.kind = "intern" ->
              IF Knows(s.pos, step.name) THEN s
              ELSE IF Len(s.pos) > MaxPosIds THEN [s EXCEPT !.ok = FALSE]
              ELSE [s EXCEPT !.pos = PosInsert(@, step.name, Len(@))]
         [] step.kind = "agrees" ->
              [s EXCEPT !.ok = step.id < 0 \/ PosId(s.pos, step.name) = step.id]
         [] step.kind = "known" -> [s EXCEPT !.ok = 0 <= step.id /\ step.id < Len(s.pos)]
-----------------------------------------------------------------------------
(* parse_split: the steps of one reference, and what it says.              *)
KeySteps(cell) ==
  Check(IsText(cell.headword) /\ IsText(cell.reading) /\ cell.ref # <<"">>)
  \o (IF cell.kind = "named" THEN Intern(cell.name) ELSE Check(IsI16(cell.id)))
  \o Check(cell.headword # << >>)

IsKey(cell) == cell.kind \in {"named", "numbered"}

RefSteps(cell, v0) ==
  CASE IsKey(cell) -> KeySteps(cell)
    [] cell.kind = "line" -> Check(v0)
    [] OTHER -> Check(FALSE)

KeyOf(cell, pos) ==
  [kind |-> "key", headword |-> cell.headword, reading |-> cell.reading, ref |-> cell.ref,
   pos |-> IF cell.kind = "named" THEN PosId(pos, cell.name) ELSE cell.id % 65536]

RefOf(cell, pos) == IF IsKey(cell) THEN KeyOf(cell, pos) ELSE cell

Self == [kind |-> "self"]

(* parse_splits_with_asterisk.                                             *)
ListSteps(list, v0) ==
  IF list = << >> THEN << >>
  ELSE IF list = <<Star>> THEN Check(v0)
  ELSE FlattenSeq([i \in DOMAIN list |-> RefSteps(list[i], v0)]) \o Check(Len(list) <= MaxArrayLen)

ListOf(list, pos) == IF list = <<Star>> THEN << >> ELSE [i \in DOMAIN list |-> RefOf(list[i], pos)]

(* parse_dic_form and parse_norm_form.                                     *)
DicSteps(cell, v0) ==
  CASE cell = Empty -> << >>
    [] cell = Star -> Check(v0)
    [] OTHER -> RefSteps(cell, v0)

DicOf(cell, pos) == IF cell \in {Empty, Star} THEN Self ELSE RefOf(cell, pos)

NormSteps(cell) ==
  CASE IsKey(cell) -> KeySteps(cell)
    [] cell.kind = "word" -> Check(IsText(cell.headword))
    [] OTHER -> << >>

NamesItself(key, own) ==
  <<key.headword, key.pos, key.reading, key.ref>> = <<own.headword, own.pos, own.reading, own.ref>>

(* Without the old layout an asterisk is a word like any other.            *)
NormOf(cell, pos, own, v0) ==
  IF cell = Empty \/ (v0 /\ cell = Star) THEN Self
  ELSE IF IsKey(cell)
  THEN IF NamesItself(KeyOf(cell, pos), own) THEN Self ELSE KeyOf(cell, pos)
  ELSE LET word == IF cell = Star THEN <<"*">> ELSE cell.headword
       IN IF word = own.headword THEN Self ELSE Word(word)
-----------------------------------------------------------------------------
(* A column the row does not have.                                         *)
Cell(row, column, default) == IF column \in DOMAIN row THEN row[column] ELSE default

Has(row, column) == Check(column \in DOMAIN row)

Headword(row) ==
  IF Cell(row, "HEADWORD", << >>) = << >> THEN row["INDEX_FORM"] ELSE row["HEADWORD"]

PosSteps(row) ==
  LET name == Cell(row, "POS", NoPos)
      id == Cell(row, "POS_ID", -1)
  IN IF name # NoPos THEN Intern(name) \o Agrees(name, id) ELSE Known(id)

PosOf(row, pos) ==
  IF Cell(row, "POS", NoPos) # NoPos THEN PosId(pos, row["POS"]) ELSE row["POS_ID"]

(* parse_record, in the parts that are reached only if the ones before are *)
(* fine; the parts of speech the steps mention are in the table then.      *)
FieldsAreThere(row) == \A i \in 1 .. 7 : Required[i] \in DOMAIN row

FieldsAreValid(row) ==
  /\ \A c \in {"INDEX_FORM", "READING_FORM", "HEADWORD"} : IsText(Cell(row, c, << >>))
  /\ \A c \in {"LEFT_ID", "RIGHT_ID", "COST"} : IsI16(row[c])
  /\ Cell(row, "MODE", "C") \in {"A", "B", "C"}

ListsSteps(row, v0) ==
  LET list(c) == ListSteps(Cell(row, c, << >>), v0)
  IN Has(row, "SPLIT_A") \o list("SPLIT_A") \o Has(row, "SPLIT_B") \o list("SPLIT_B")
     \o list("SPLIT_C") \o Has(row, "WORD_STRUCTURE") \o list("WORD_STRUCTURE")

RestIsValid(row) ==
  /\ \A n \in ToSet(Cell(row, "SYNONYM_GROUPS", << >>)) : IsU32(n)
  /\ IsI16(Cell(row, "POS_ID", -1))

IsWithin(row, limits) ==
  /\ Cell(row, "MODE", "C") = "A" =>
       \A c \in {"SPLIT_A", "SPLIT_B"} : row[c] \in {<< >>, <<Star>>}
  /\ row["LEFT_ID"] < limits.left /\ row["RIGHT_ID"] < limits.right

(* Steps are worked out only while nothing is wrong.                       *)
After(s, steps) == IF s.ok THEN FoldLeft(Do, s, steps) ELSE s

RowParsed(pos, row, limits, v0) ==
  LET there == [ok |-> FieldsAreThere(row), pos |-> pos]
      lists == After(After(there, Check(FieldsAreValid(row))), ListsSteps(row, v0))
      named == After(After(lists, Check(RestIsValid(row))), PosSteps(row))
      forms == After(After(named, Check(IsWithin(row, limits))),
                     DicSteps(row["DICTIONARY_FORM"], v0) \o NormSteps(row["NORMALIZED_FORM"]))
  IN After(forms, Check(row["INDEX_FORM"] # << >>))

EntryOf(row, pos, v0) ==
  LET list(c) == ListOf(Cell(row, c, << >>), pos)
      own == [headword |-> Headword(row), pos |-> PosOf(row, pos),
              reading |-> row["READING_FORM"], ref |-> Cell(row, "REFERENCE_ID", << >>)]
  IN [left |-> row["LEFT_ID"], right |-> row["RIGHT_ID"], cost |-> row["COST"],
      form |-> row["INDEX_FORM"], headword |-> own.headword, pos |-> own.pos,
      reading |-> own.reading, ref |-> own.ref,
      dic |-> DicOf(row["DICTIONARY_FORM"], pos),
      norm |-> NormOf(row["NORMALIZED_FORM"], pos, own, v0),
      a |-> list("SPLIT_A"), b |-> list("SPLIT_B"), c |-> list("SPLIT_C"),
      structure |-> list("WORD_STRUCTURE"),
      synonyms |-> Cell(row, "SYNONYM_GROUPS", << >>),
      data |-> Cell(row, "USER_DATA", << >>)]
-----------------------------------------------------------------------------
(* The reader: [ok, pos, entries, rows, limits], where rows are those that *)
(* became entries, kept for the properties.  A row that is refused ends    *)
(* the reading; what was read before it stays.                             *)
ReadRow(reader, row, v0) ==
  LET s == RowParsed(reader.pos, row, reader.limits, v0)
  IN IF ~reader.ok THEN reader
     ELSE IF ~s.ok THEN [reader EXCEPT !.ok = FALSE, !.pos = s.pos]
     ELSE [reader EXCEPT !.pos = s.pos, !.rows = Append(@, [row |-> row, v0 |-> v0]),
                         !.entries = Append(@, EntryOf(row, s.pos, v0))]

(* read_bytes of the lexicon.                                              *)
LexiconRead(reader, csv) ==
  LET v0 == csv.header = << >>
      begun == [reader EXCEPT !.ok = v0 \/ IsHeader(csv.header)]
  IN FoldLeft(LAMBDA r, row : ReadRow(r, row, v0), begun, csv.rows)

(* read_pos_bytes: names in order, or names with ids.                      *)
ReadPosName(reader, name) ==
  IF ~reader.ok \/ Knows(reader.pos, name) \/ Len(reader.pos) > MaxPosIds
  THEN [reader EXCEPT !.ok = FALSE]
  ELSE [reader EXCEPT !.pos = PosInsert(@, name, Len(@))]

IdsAreValid(rows) ==
  /\ \A i \in DOMAIN rows : rows[i].id \in 0 .. MaxPosIds
  /\ \A i, j \in DOMAIN rows : i # j => rows[i].id # rows[j].id

(* In the order of the ids, up to the first id that is missing.            *)
PosWithIds(rows) ==
  LET named(id) == rows[CHOOSE i \in DOMAIN rows : rows[i].id = id].name
      gap == Min({n \in 0 .. Len(rows) : \A row \in ToSet(rows) : row.id # n})
  IN FoldLeft(LAMBDA pos, id : PosInsert(pos, named(id), id), << >>,
              [n \in 1 .. gap |-> n - 1])

PosRead(reader, csv) ==
  IF reader.entries # << >> \/ reader.pos # << >> THEN [reader EXCEPT !.ok = FALSE]
  ELSE IF csv.hasIds
  THEN IF IdsAreValid(csv.rows)
       THEN [reader EXCEPT !.pos = PosWithIds(csv.rows),
                           !.ok = \A row \in ToSet(csv.rows) : row.id < Len(csv.rows)]
       ELSE [reader EXCEPT !.ok = FALSE]
  ELSE FoldLeft(ReadPosName, [reader EXCEPT !.ok = TRUE], [i \in DOMAIN csv.rows |-> csv.rows[i].name])
-----------------------------------------------------------------------------
(* Positions count units of WORD_INFO_OFFSET_ALIGNMENT (8) bytes; the      *)
(* first entry begins after ENTRY_INITIAL_OFFSET (32) bytes.               *)
Alignment8 == 8
FirstId == 4
FixedPartSize == 32

Shared == -1

(* WordInfoVariableLayout.                                                 *)
Lengths(e) ==
  [c |-> Len(e.c),
   b |-> IF e.b = e.c THEN Shared ELSE Len(e.b),
   a |-> IF e.a = e.b THEN Shared ELSE Len(e.a),
   structure |-> IF e.structure = e.a THEN Shared ELSE Len(e.structure),
   synonyms |-> Len(e.synonyms),
   data |-> Len(e.data)]

EmbeddedLen(n) == Max({0, n})

Size(l) ==
  LET bytes == FixedPartSize
               + 4 * (l.c + EmbeddedLen(l.b) + EmbeddedLen(l.a) + EmbeddedLen(l.structure) + l.synonyms)
               + (IF l.data = 0 THEN 0 ELSE 2 + 2 * l.data)
  IN (bytes + Alignment8 - 1) \div Alignment8

(* Where each entry begins, and behind them where the next one would.      *)
Starts(entries) ==
  LET start[i \in 1 .. Len(entries) + 1] ==
        IF i = 1 THEN FirstId ELSE start[i - 1] + Size(Lengths(entries[i - 1]))
  IN start

(* row_word_ids, row_word_refs and next_entry_id take the entries as they  *)
(* were parsed.                                                            *)
RowIds(parsed) == Starts(parsed)
-----------------------------------------------------------------------------
(* A resolved reference: to an entry of the system dictionary, or of the   *)
(* dictionary it is in.                                                    *)
Ref(system, id) == [kind |-> "ref", system |-> system, id |-> id]
NoWord == [kind |-> "none"]

(* What a resolver knows of the words: in the order of the rows.           *)
OwnCandidates(parsed, user) ==
  [i \in DOMAIN parsed |->
     [headword |-> parsed[i].headword, pos |-> parsed[i].pos, reading |-> parsed[i].reading,
      ref |-> parsed[i].ref, word |-> Ref(~user, RowIds(parsed)[i])]]

HasNoDuplicate(candidates) ==
  \A i, j \in DOMAIN candidates :
    candidates[i].ref = candidates[j].ref /\ candidates[i].ref # << >> => i = j

IsMeant(candidate, ref) ==
  /\ candidate.headword = ref.headword
  /\ ref.kind = "key" =>
       /\ candidate.pos = ref.pos /\ candidate.reading = ref.reading
       /\ ref.ref # << >> => candidate.ref = ref.ref

(* By headword, or by the key of an entry: the first one that fits.        *)
Find(candidates, ref) ==
  LET i == SelectInSeq(candidates, LAMBDA c : IsMeant(c, ref))
  IN IF i = 0 THEN NoWord ELSE candidates[i].word

AtLine(candidates, n) == IF n < Len(candidates) THEN candidates[n + 1].word ELSE NoWord

(* r is [user, own, system]: a line is one of the rows that are built, or  *)
(* of the system dictionary; anything else is looked for in the rows that  *)
(* are built first.                                                        *)
Resolve(r, ref) ==
  IF ref.kind = "line"
  THEN IF ref.user = r.user THEN AtLine(r.own, ref.line)
       ELSE IF r.user THEN AtLine(r.system, ref.line) ELSE NoWord
  ELSE LET own == Find(r.own, ref)
       IN IF own # NoWord THEN own ELSE Find(r.system, ref)

(* A phantom stands for a normalized form that no entry has.  It takes the *)
(* lists of the entry that asked for it.                                   *)
Phantom(base, headword) ==
  [base EXCEPT !.form = << >>, !.headword = headword, !.ref = << >>, !.left = -1, !.right = -1,
               !.cost = 32767, !.norm = Self]

IsPhantom(e) == e.form = << >>

(* s is [ok, entries, phantoms, names, next].                              *)
NormWord(r, s, norm) ==
  IF norm.kind # "word" THEN Resolve(r, norm)
  ELSE IF Resolve(r, norm) # NoWord THEN Resolve(r, norm)
  ELSE IF norm.headword \in DOMAIN s.names THEN s.names[norm.headword]
  ELSE Ref(~r.user, s.next)

NeedsPhantom(r, s, norm) ==
  IF norm.kind # "word" THEN FALSE
  ELSE Resolve(r, norm) = NoWord /\ norm.headword \notin DOMAIN s.names

ResolveEntry(r, s, e) ==
  LET each(list) == [i \in DOMAIN list |-> Resolve(r, list[i])]
      resolved == [e EXCEPT !.norm = IF @ = Self THEN Self ELSE NormWord(r, s, @),
                            !.dic = IF @ = Self THEN Self ELSE Resolve(r, @),
                            !.a = each(@), !.b = each(@), !.c = each(@), !.structure = each(@)]
      words == {resolved.norm, resolved.dic} \cup
               UNION {ToSet(list) : list \in {resolved.a, resolved.b, resolved.c, resolved.structure}}
      phantom == Phantom(resolved, e.norm.headword)
  IN IF ~s.ok \/ NoWord \in words THEN [s EXCEPT !.ok = FALSE]
     ELSE IF ~NeedsPhantom(r, s, e.norm) THEN [s EXCEPT !.entries = Append(@, resolved)]
     ELSE [ok |-> TRUE,
           entries |-> Append(s.entries, resolved),
           phantoms |-> Append(s.phantoms, phantom),
           names |-> [h \in DOMAIN s.names \cup {e.norm.headword} |->
                        IF h \in DOMAIN s.names THEN s.names[h] ELSE Ref(~r.user, s.next)],
           next |-> s.next + Size(Lengths(phantom))]

(* resolve: [ok, entries]; the phantoms come behind the rows.              *)
ResolveEntries(parsed, user, system) ==
  LET r == [user |-> user, own |-> OwnCandidates(parsed, user), system |-> system]
      begun == [ok |-> HasNoDuplicate(r.own), entries |-> << >>, phantoms |-> << >>,
                names |-> << >>, next |-> RowIds(parsed)[Len(parsed) + 1]]
      s == FoldLeft(LAMBDA t, e : ResolveEntry(r, t, e), begun, parsed)
  IN [ok |-> s.ok, entries |-> s.entries \o s.phantoms]
=============================================================================
