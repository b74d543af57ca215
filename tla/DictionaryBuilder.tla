-------------------------- MODULE DictionaryBuilder --------------------------
(***************************************************************************)
(* The life of dictionaries: a builder reads its sources, resolves their   *)
(* references and compiles them to a file; a system file is loaded, user   *)
(* files are merged into it; and a loaded dictionary is what the builder   *)
(* of a user dictionary starts from.                                       *)
(*                                                                         *)
(* A builder is kept until it has compiled or another work begins, so that *)
(* calls after one that failed are part of the behaviours.                 *)
(***************************************************************************)
EXTENDS DictionaryFile

CONSTANTS
  Sources,          (* sets of what there is to read: [signatures, matrices,
                       tables, lexicons, userLexicons, plugins], and reads,
                       the bound on the lexicons one builder reads         *)
  Costs,            (* what the cost of a word can be worked out to        *)
  MaxDictionaries,  (* MAX_DICTIONARIES (15)                               *)
  MaxFiles,         (* bound: files                                        *)
  BuildsOnMerged    (* whether a user dictionary is also built on one that *)
                    (* has parts of speech of plugins or user dictionaries *)

ASSUME BuilderAssumption ==
  MaxDictionaries \in Nat /\ MaxFiles \in Nat /\ BuildsOnMerged \in BOOLEAN

VARIABLES
  sources,      (* what there is to read                                   *)
  builder,      (* the builder, or Nothing                                 *)
  shelf,        (* compiled files                                          *)
  dictionary    (* the loaded dictionary, or Nothing                       *)

dvars == <<sources, builder, shelf, dictionary>>

Nothing == [stage |-> "none"]
DefaultReference == "system.dic"
NoLimits == [left |-> 32767, right |-> 32767]

NewReader(limits, pos) ==
  [ok |-> TRUE, pos |-> pos, entries |-> << >>, rows |-> << >>, limits |-> limits]

NewBuilder(about, reader, base) ==
  [stage |-> "grammar", about |-> about, reader |-> reader, start_pos |-> Len(reader.pos),
   conn |-> [left |-> 0, right |-> 0], base |-> base, resolved |-> << >>, reads |-> 0]

Init ==
  /\ sources \in Sources
  /\ builder = Nothing /\ shelf = {} /\ dictionary = Nothing
-----------------------------------------------------------------------------
NewSystem(signature) ==
  /\ Cardinality(shelf) < MaxFiles
  /\ builder' = NewBuilder([user |-> FALSE, signature |-> signature, reference |-> ""],
                           NewReader(NoLimits, << >>), Nothing)
  /\ dictionary' = Nothing
  /\ UNCHANGED <<sources, shelf>>

IsPlain(d) == Len(d.pos_list) = d.num_system_pos

(* new_user: the parts of speech of the dictionary come first.             *)
NewUser ==
  LET d == dictionary
      system == d.files[1]
      pos == [i \in DOMAIN d.pos_list |-> [name |-> d.pos_list[i], id |-> i - 1]]
      reference == IF system.signature = "" THEN DefaultReference ELSE system.signature
  IN
  /\ dictionary # Nothing /\ Cardinality(shelf) < MaxFiles
  /\ BuildsOnMerged \/ IsPlain(d)
  /\ builder' = NewBuilder([user |-> TRUE, signature |-> "", reference |-> reference],
                           NewReader(system.conn, pos), d)
  /\ dictionary' = Nothing
  /\ UNCHANGED <<sources, shelf>>

(* A matrix is [left, right, ok]; one that fails has set the sizes of the  *)
(* buffer before, not those that words are checked against.                *)
ReadConn(matrix) ==
  /\ builder.stage = "grammar"
  /\ LET size == [left |-> matrix.left, right |-> matrix.right]
     IN builder' = [builder EXCEPT !.conn = size,
                                   !.reader.limits = IF matrix.ok THEN size ELSE @]
  /\ UNCHANGED <<sources, shelf, dictionary>>

ReadPos(table) ==
  /\ builder.stage = "grammar" /\ ~builder.about.user
  /\ builder' = [builder EXCEPT !.reader = PosRead(@, table)]
  /\ UNCHANGED <<sources, shelf, dictionary>>

(* Rows that were read before one is refused stay; the stage does not      *)
(* change then.                                                            *)
ReadLexicon(csv) ==
  /\ builder.stage \in {"grammar", "lexicon"} /\ builder.reads < sources.reads
  /\ LET reader == LexiconRead(builder.reader, csv)
     IN builder' = [builder EXCEPT !.reader = reader, !.reads = @ + 1,
                                   !.stage = IF reader.ok THEN "lexicon" ELSE @]
  /\ UNCHANGED <<sources, shelf, dictionary>>

Candidates == IF builder.about.user THEN SystemCandidates(builder.base) ELSE << >>

Resolution == ResolveEntries(builder.reader.entries, builder.about.user, Candidates)

ResolveAll ==
  /\ builder.stage = "lexicon"
  /\ Resolution.ok
  /\ builder' = [builder EXCEPT !.stage = "resolved", !.resolved = Resolution.entries]
  /\ UNCHANGED <<sources, shelf, dictionary>>

(* prepare_description_fields; the time of the build makes the default one *)
(* unique.                                                                 *)
DefaultSignature == "of-its-time"
Description(about) ==
  IF about.user THEN [about EXCEPT !.signature = ""]
  ELSE IF about.signature = "" THEN [about EXCEPT !.signature = DefaultSignature] ELSE about

(* Compiling again would give the same file.                               *)
Compile ==
  LET about == Description(builder.about)
      result == Compiled(about, builder.conn, builder.reader, builder.start_pos, builder.resolved)
  IN
  /\ builder.stage = "resolved"
  /\ result.ok
  /\ Cardinality(shelf) < MaxFiles
  /\ shelf' = shelf \cup {result.file}
  /\ builder' = Nothing
  /\ UNCHANGED <<sources, dictionary>>
-----------------------------------------------------------------------------
(* register_pos for each name the plugins bring.                           *)
Registered(pos_list, names) ==
  FoldLeft(LAMBDA list, name : IF name \in ToSet(list) THEN list ELSE Append(list, name),
           pos_list, names)

(* The system's parts of speech are counted before the plugins add theirs. *)
Load(file, plugins) ==
  /\ dictionary' =
       IF file.reference # "" THEN Nothing
       ELSE [files |-> <<file>>, pos_list |-> Registered(file.pos, plugins),
             pos_offsets |-> <<0>>, num_system_pos |-> Len(file.pos)]
  /\ builder' = Nothing
  /\ UNCHANGED <<sources, shelf>>

CompatibilityKey(file) == IF file.reference = "" THEN file.signature ELSE file.reference

(* update_cost: the words the table names whose cost is open.              *)
OpenCosts(file) ==
  {id \in ToSet(AllEntries(file.index.table)) \cap DOMAIN file.entries : file.entries[id].cost = MinCost}

WithCosts(file, cost) ==
  [file EXCEPT !.entries = [id \in DOMAIN @ |-> IF id \in DOMAIN cost THEN [@[id] EXCEPT !.cost = cost[id]]
                                                ELSE @[id]]]

Bug_CountsAfterMerge(file) == Len(dictionary.pos_list) + Len(file.pos)

PosOffset(file) == Len(dictionary.pos_list)

Merge(file, cost) ==
  LET d == dictionary
      isMerged == /\ file.reference # "" /\ CompatibilityKey(file) = CompatibilityKey(d.files[1])
                  /\ Len(d.files) < MaxDictionaries
  IN
  /\ dictionary # Nothing
  /\ dictionary' =
       IF ~isMerged THEN Nothing
       ELSE [d EXCEPT !.files = Append(@, WithCosts(file, cost)),
                      !.pos_offsets = Append(@, PosOffset(file)),
                      !.pos_list = @ \o file.pos]
  /\ UNCHANGED <<sources, builder, shelf>>

Next ==
  \/ \E signature \in sources.signatures : NewSystem(signature)
  \/ NewUser
  \/ \E matrix \in sources.matrices : ReadConn(matrix)
  \/ \E table \in sources.tables : ReadPos(table)
  \/ \E csv \in IF builder = Nothing THEN {}
                 ELSE IF builder.about.user THEN sources.userLexicons ELSE sources.lexicons :
       ReadLexicon(csv)
  \/ ResolveAll \/ Compile
  \/ \E file \in shelf, plugins \in sources.plugins : Load(file, plugins)
  \/ \E file \in shelf : \E cost \in [OpenCosts(file) -> Costs] : Merge(file, cost)

Spec == Init /\ [][Next]_dvars
-----------------------------------------------------------------------------
(* What the rows of the loaded files say, to compare it with what is read. *)
(* A row is <<d, n>>: row n of the dictionary with number d - 1.           *)
File(d) == dictionary.files[d]
RowOf(r) == File(r[1]).rows[r[2]].row
WordOfRow(r) == WordId(r[1] - 1, EntryIds(File(r[1]))[r[2]])
RowsOf(d) == [n \in DOMAIN File(d).rows |-> <<d, n>>]

(* The names a dictionary can number: the system's, and its own.           *)
NamesFor(d) == IF d = 1 THEN File(1).pos ELSE File(1).pos \o File(d).pos

PosNameOf(r) ==
  IF Cell(RowOf(r), "POS", NoPos) # NoPos THEN RowOf(r)["POS"]
  ELSE NamesFor(r[1])[RowOf(r)["POS_ID"] + 1]

IsNamedBy(r, d, cell) ==
  /\ Headword(RowOf(r)) = cell.headword
  /\ IsKey(cell) =>
       /\ PosNameOf(r) = IF cell.kind = "named" THEN cell.name ELSE NamesFor(d)[cell.id + 1]
       /\ RowOf(r)["READING_FORM"] = cell.reading
       /\ cell.ref # << >> => Cell(RowOf(r), "REFERENCE_ID", << >>) = cell.ref

(* The row a reference in dictionary d names: of its own rows before those *)
(* of the system, and of those the first.                                  *)
NamedRow(d, cell) ==
  IF cell.kind = "line" THEN <<IF cell.user THEN d ELSE 1, cell.line + 1>>
  ELSE LET rows == RowsOf(d) \o (IF d > 1 THEN RowsOf(1) ELSE << >>)
       IN rows[SelectInSeq(rows, LAMBDA r : IsNamedBy(r, d, cell))]

NamedWords(r, column) ==
  LET list == Cell(RowOf(r), column, << >>)
  IN IF list = <<Star>> THEN << >>
     ELSE [i \in DOMAIN list |-> WordOfRow(NamedRow(r[1], list[i]))]

(* An asterisk is only a word in the normalized form of the new layout.    *)
NamedForm(r, column) ==
  LET cell == RowOf(r)[column]
  IN IF cell = Empty THEN Headword(RowOf(r))
     ELSE IF cell = Star
     THEN IF File(r[1]).rows[r[2]].v0 THEN Headword(RowOf(r)) ELSE <<"*">>
     ELSE IF column = "NORMALIZED_FORM" THEN cell.headword
     ELSE Headword(RowOf(NamedRow(r[1], cell)))

ReadsAsWritten(r) ==
  LET row == RowOf(r)
      e == EntryAt(dictionary, WordOfRow(r))
      info == WordInfo(dictionary, WordOfRow(r), Fields)
  IN /\ <<e.left, e.right>> = <<row["LEFT_ID"], row["RIGHT_ID"]>>
     /\ IF row["COST"] = MinCost /\ r[1] > 1 THEN e.cost \in Costs ELSE e.cost = row["COST"]
     /\ info.pos + 1 \in DOMAIN dictionary.pos_list
     /\ dictionary.pos_list[info.pos + 1] = PosNameOf(r)
     /\ <<info.headword, info.reading>> = <<Headword(row), row["READING_FORM"]>>
     /\ info.a = NamedWords(r, "SPLIT_A") /\ info.b = NamedWords(r, "SPLIT_B")
     /\ info.c = NamedWords(r, "SPLIT_C") /\ info.structure = NamedWords(r, "WORD_STRUCTURE")
     /\ info.norm = NamedForm(r, "NORMALIZED_FORM") /\ info.dic = NamedForm(r, "DICTIONARY_FORM")
     /\ info.synonyms = Cell(row, "SYNONYM_GROUPS", << >>)
     /\ info.data = Cell(row, "USER_DATA", << >>)

(* Rows of the last dictionary first, each dictionary in the order of its  *)
(* rows.                                                                   *)
RowsWith(Test(_), order) ==
  FlattenSeq([k \in DOMAIN order |-> LET rows == SelectSeq(RowsOf(order[k]), Test)
                                     IN [i \in DOMAIN rows |-> WordOfRow(rows[i])]])

IsFoundByForm(form) ==
  LET found == SelectSeq(Lookup(Indices(dictionary), form, 0), LAMBDA m : m.end = Len(form))
  IN [i \in DOMAIN found |-> WordId(found[i].dict, found[i].entry)] =
     RowsWith(LAMBDA r : RowOf(r)["INDEX_FORM"] = form /\ RowOf(r)["LEFT_ID"] >= 0,
              Reverse([d \in DOMAIN dictionary.files |-> d]))

IsFoundByHeadword(headword) ==
  AllEntriesOf(dictionary, headword) =
  RowsWith(LAMBDA r : Headword(RowOf(r)) = headword, [d \in DOMAIN dictionary.files |-> d])

(* A word reads as its row, a form leads to its words and to no other.     *)
RowsAreRead ==
  dictionary # Nothing =>
    \A d \in DOMAIN dictionary.files :
      /\ Len(EntryIds(File(d))) = Len(File(d).rows)
      /\ \A r \in ToSet(RowsOf(d)) :
           /\ ReadsAsWritten(r)
           /\ IsFoundByForm(RowOf(r)["INDEX_FORM"])
           /\ IsFoundByHeadword(Headword(RowOf(r)))

(* Asking for fewer fields of a word changes nothing about those that are  *)
(* asked for, though a list may be stored as part of another.              *)
SubsetsReadAlike ==
  dictionary # Nothing =>
    \A word \in PublicWords(dictionary), subset \in SUBSET Lists :
      LET e == EntryAt(dictionary, word)
      IN \A list \in subset : ReadLists(e, subset)[list] = ReadLists(e, Fields)[list]

(* Whatever was read, refused, resolved, merged and in which order: what   *)
(* the analyser reads of a word, all of it or some fields, is what the row *)
(* of the csv says, with the references leading to the rows they name and  *)
(* the parts of speech under their names, and a form leads to its words    *)
(* and to no other (DicBuilder in build.rs, WordInfoParser, LexiconSet).   *)
LoadedReadsSource == RowsAreRead /\ SubsetsReadAlike

(* The comment of build_index_data: callers can enumerate all public       *)
(* entries from the table of word ids.                                     *)
TableNamesPublicEntries ==
  \A file \in shelf : ToSet(AllEntries(file.index.table)) = ToSet(EntryIds(file))
=============================================================================
