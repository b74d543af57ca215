--------------------------- MODULE DictionaryFile ---------------------------
(***************************************************************************)
(* A compiled dictionary, and what is read from dictionaries that are      *)
(* loaded together.                                                        *)
(*                                                                         *)
(* A file is a record of its blocks and of the fields of its description:  *)
(* [user, signature, reference, conn, pos, index, strings, entries, total, *)
(* refIds].  Entries are kept by the position they are written to.  The    *)
(* field rows is not part of the file: it holds the rows it was made of.   *)
(*                                                                         *)
(* The block strings holds headwords and readings in one array of code     *)
(* units, so placed that a string that is part of another takes no room of *)
(* its own, and a pointer into it is one number of PointerBits bits: a     *)
(* length up to MaxSimple in the first BaseBits of them; of a longer one   *)
(* the number of bits it takes more, those bits without the first, and an  *)
(* offset that has lost as many of its lowest bits.  The offset of a long  *)
(* string is therefore aligned, and what alignment leaves free is given to *)
(* shorter strings.  A character is one code unit here.                    *)
(***************************************************************************)
EXTENDS DictionaryEntries, DictionaryIndex

CONSTANTS
  PointerBits,      (* 32                                                  *)
  BaseBits,         (* StringPointer::BASE_LENGTH_BITS (5)                 *)
  MaxVariableBits   (* StringPointer::MAX_VARIABLE_LENGTH_BITS (12)        *)

ASSUME PointerAssumption ==
  /\ BaseBits \in Nat /\ MaxVariableBits \in Nat /\ PointerBits \in Nat
  /\ 2 ^ BaseBits > 1 + MaxVariableBits /\ PointerBits > BaseBits + MaxVariableBits

MaxSimple == 2 ^ BaseBits - 1 - MaxVariableBits
MaxLength == 2 ^ MaxVariableBits - 1 + MaxSimple

BitLength(n) == Min({k \in 0 .. PointerBits : 2 ^ k > n})

(* The bits a length takes beyond the simple one; one of them is implied.  *)
ExtraBits(length) == IF length <= MaxSimple THEN 0 ELSE BitLength(length - MaxSimple)

Alignment(length) == 2 ^ Max({0, ExtraBits(length) - 1})

IsPointer(length, offset) == length <= MaxLength /\ offset % Alignment(length) = 0

BaseUnit == 2 ^ (PointerBits - BaseBits)

Encode(p) ==
  LET extra == ExtraBits(p.length)
      base == Min({p.length, MaxSimple})
      rest == IF extra = 0 THEN 0
              ELSE (p.length - base - 2 ^ (extra - 1)) * (BaseUnit \div 2 ^ (extra - 1))
  IN (base + extra) * BaseUnit + rest + p.offset \div Alignment(p.length)

Decode(n) ==
  LET base == n \div BaseUnit
      extra == Max({0, base - MaxSimple})
      unit == BaseUnit \div 2 ^ Max({0, extra - 1})
      rest == IF extra = 0 THEN 0 ELSE (n % BaseUnit) \div unit + 2 ^ (extra - 1)
  IN [length |-> base - extra + rest, offset |-> (n % unit) * 2 ^ Max({0, extra - 1})]
-----------------------------------------------------------------------------
(* StringLayout: [buffer, free, dirty, pointer, max_len].                  *)
NoLayout == [buffer |-> << >>, free |-> << >>, dirty |-> FALSE, pointer |-> 0, max_len |-> -1]

AvailableMaxLen(length) ==
  LET simple == MaxSimple + 1
  IN IF length <= simple THEN length ELSE simple + 2 ^ (BitLength(length - simple) - 1)

AlignedUp(start, length) ==
  Alignment(length) * ((start + Alignment(length) - 1) \div Alignment(length))

(* What alignment skips becomes a free slot.                               *)
Padded(layout, start, aligned) ==
  IF aligned = start THEN layout
  ELSE [layout EXCEPT !.free = Append(@, [start |-> start, length |-> aligned - start]),
                      !.dirty = TRUE,
                      !.max_len = Max({@, AvailableMaxLen(aligned - start)})]

SortedFree(layout) ==
  IF ~layout.dirty THEN layout
  ELSE [layout EXCEPT
          !.free = SortSeq(@, LAMBDA f, g : f.length < g.length \/ (f.length = g.length /\ f.start < g.start)),
          !.dirty = FALSE]

Fits(slot, length) ==
  AlignedUp(slot.start, length) + length <= slot.start + slot.length

(* In a free slot: what is left of it stays free.                          *)
InSlot(layout, i, length) ==
  LET slot == layout.free[i]
      at == AlignedUp(slot.start, length)
      padded == Padded(layout, slot.start, at)
      left == slot.start + slot.length - at - length
      free == IF left > 0
              THEN [padded.free EXCEPT ![i] = [start |-> at + length, length |-> left]]
              ELSE RemoveAt(padded.free, i)
  IN [at |-> at,
      layout |-> [padded EXCEPT
                    !.free = free,
                    !.dirty = @ \/ left > 0,
                    !.max_len = Max({-1} \cup {AvailableMaxLen(free[k].length) : k \in DOMAIN free})]]

AtTail(layout, length) ==
  LET at == AlignedUp(layout.pointer, length)
  IN [at |-> at, layout |-> [Padded(layout, layout.pointer, at) EXCEPT !.pointer = at + length]]

Allocate(layout, length) ==
  LET sorted == SortedFree(layout)
      slots == {i \in DOMAIN sorted.free : Fits(sorted.free[i], length)}
  IN IF length > layout.max_len THEN AtTail(layout, length)
     ELSE IF slots # {} THEN InSlot(sorted, Min(slots), length)
     ELSE AtTail([sorted EXCEPT !.max_len = Max({0, @ - 1})], length)

Put(buffer, at, string) ==
  [k \in DOMAIN buffer \cup at .. at + Len(string) - 1 |->
     IF k \in at .. at + Len(string) - 1 THEN string[k - at + 1] ELSE buffer[k]]
-----------------------------------------------------------------------------
(* Where a string begins in another, and may be pointed at there.          *)
StartsIn(string, root, offset) ==
  {k \in 0 .. Len(root) - Len(string) :
     SubSeq(root, k + 1, k + Len(string)) = string /\ IsPointer(Len(string), offset + k)}

(* One string: [ok, layout, pointers] afterwards.  The strings that are    *)
(* part of it are known from then on.                                      *)
Process(store, string, strings) ==
  LET placed == Allocate(store.layout, Len(string))
      new == {t \in strings \ DOMAIN store.pointers :
                t # string /\ StartsIn(t, string, placed.at) # {}}
      pointer(t) ==
        IF t \in DOMAIN store.pointers THEN store.pointers[t]
        ELSE [length |-> Len(t),
              offset |-> placed.at + (IF t = string THEN 0 ELSE Min(StartsIn(t, string, placed.at)))]
  IN IF string \in DOMAIN store.pointers \/ ~store.ok THEN store
     ELSE [ok |-> IsPointer(Len(string), placed.at),
           layout |-> [placed.layout EXCEPT !.buffer = Put(@, placed.at, string)],
           pointers |-> [t \in DOMAIN store.pointers \cup {string} \cup new |-> pointer(t)]]

(* The longest first; of strings of one length some order.                 *)
LongestFirst(strings) ==
  LET order[left \in SUBSET strings] ==
        IF left = {} THEN << >>
        ELSE LET s == CHOOSE s \in left : \A t \in left : Len(t) <= Len(s)
             IN <<s>> \o order[left \ {s}]
  IN order[strings]

(* from_entries and compile; what is written is the used part.             *)
Store(strings) ==
  FoldLeft(LAMBDA store, string : Process(store, string, strings),
           [ok |-> TRUE, layout |-> NoLayout,
            pointers |-> [s \in {<< >>} |-> [length |-> 0, offset |-> 0]]],
           LongestFirst(strings))

(* CompactedStrings::get_string.                                           *)
StringAt(buffer, n) ==
  LET p == Decode(n) IN [k \in 1 .. p.length |-> buffer[p.offset + k - 1]]
-----------------------------------------------------------------------------
MinCost == -32768    (* i16::MIN: the cost is worked out at load time      *)

(* write_rest: a list that is shared is not written.                       *)
Stored(e, id, user, pointer) ==
  LET own == Ref(~user, id)
      l == Lengths(e)
      written(list, length) == IF length = Shared THEN << >> ELSE list
  IN [left |-> e.left, right |-> e.right, cost |-> e.cost, pos |-> e.pos,
      headword |-> pointer[e.headword], reading |-> pointer[e.reading],
      norm |-> IF e.norm = Self THEN own ELSE e.norm,
      dic |-> IF e.dic = Self THEN own ELSE e.dic,
      form_length |-> Len(e.form), lengths |-> l,
      c |-> e.c, b |-> written(e.b, l.b), a |-> written(e.a, l.a),
      structure |-> written(e.structure, l.structure),
      synonyms |-> e.synonyms, data |-> e.data]

(* build_index_data numbers the entries by the rows as they were parsed.   *)
IndexIds(parsed, resolved) == RowIds(parsed)

IndexOf(parsed, resolved) ==
  BuildIndex([i \in DOMAIN parsed |->
                [id |-> IndexIds(parsed, resolved)[i], form |-> resolved[i].form,
                 word |-> [left |-> resolved[i].left]]])

ReferenceIds(resolved) ==
  LET named == {i \in DOMAIN resolved : ~IsPhantom(resolved[i]) /\ resolved[i].ref # << >>}
  IN [id \in {Starts(resolved)[i] : i \in named} |->
        resolved[CHOOSE i \in named : Starts(resolved)[i] = id].ref]

(* compile, from the description and the resolved rows: [ok, file].        *)
Compiled(about, conn, reader, start_pos, resolved) ==
  LET store == Store({e.headword : e \in ToSet(resolved)} \cup {e.reading : e \in ToSet(resolved)})
      pointer == [s \in DOMAIN store.pointers |-> Encode(store.pointers[s])]
      ids == Starts(resolved)
      new == SelectSeq(reader.pos, LAMBDA p : p.id >= start_pos)
  IN IF ~store.ok THEN [ok |-> FALSE] ELSE
     [ok |-> TRUE,
      file |-> [user |-> about.user, signature |-> about.signature, reference |-> about.reference,
                conn |-> conn,
                pos |-> [i \in DOMAIN new |-> new[i].name],
                index |-> IndexOf(reader.entries, resolved),
                strings |-> store.layout.buffer,
                entries |-> [id \in {ids[i] : i \in DOMAIN resolved} |->
                               Stored(resolved[CHOOSE i \in DOMAIN resolved : ids[i] = id],
                                      id, about.user, pointer)],
                total |-> Cardinality({i \in DOMAIN resolved : ~IsPhantom(resolved[i])}),
                refIds |-> ReferenceIds(resolved),
                rows |-> reader.rows]]
-----------------------------------------------------------------------------
(* A loaded dictionary is [files, pos_list, pos_offsets, num_system_pos].  *)
(* entry_ids: from entry to entry by their sizes.                          *)
EntryIds(file) ==
  LET id[n \in 1 .. file.total + 1] ==
        IF n = 1 THEN FirstId ELSE id[n - 1] + Size(file.entries[id[n - 1]].lengths)
  IN [n \in 1 .. file.total |-> id[n]]

Indices(dictionary) == [d \in DOMAIN dictionary.files |-> dictionary.files[d].index]

EntryAt(dictionary, word) == dictionary.files[word.dict + 1].entries[word.id]

StringOf(dictionary, word, field) ==
  StringAt(dictionary.files[word.dict + 1].strings, EntryAt(dictionary, word)[field])

HeadwordOf(dictionary, word) == StringOf(dictionary, word, "headword")

WordId(dict, id) == [dict |-> dict, id |-> id]

(* WordRef::resolve.                                                       *)
WordOf(ref, dict) == WordId(IF ref.system THEN 0 ELSE dict, ref.id)
WordsOf(list, dict) == [i \in DOMAIN list |-> WordOf(list[i], dict)]

Lists == {"a", "b", "c", "structure"}
Fields == Lists \cup {"pos", "headword", "reading", "norm", "dic", "form_length", "synonyms", "data"}

Bug_WantsAllOfThem(subset, lists) == lists \subseteq subset

(* SplitReadPlan: a list is read if it, or one that may share it, is asked *)
(* for.                                                                    *)
IsPlanned(subset, lists) == subset \cap lists # {}

(* WordInfoParser::parse: the lists as they are stored.                    *)
ReadLists(e, subset) ==
  LET take(list, lists) == IF IsPlanned(subset, lists) THEN list ELSE << >>
      c == take(e.c, Lists)
      b == take(IF e.lengths.b = Shared THEN c ELSE e.b, {"b", "a", "structure"})
      a == take(IF e.lengths.a = Shared THEN b ELSE e.a, {"a", "structure"})
      structure == take(IF e.lengths.structure = Shared THEN a ELSE e.structure, {"structure"})
  IN [c |-> c, b |-> b, a |-> a, structure |-> structure]

(* The parts of speech a user dictionary brought begin at its offset.      *)
PosIdOf(dictionary, word) ==
  LET pos == EntryAt(dictionary, word).pos
  IN IF word.dict > 0 /\ pos >= dictionary.num_system_pos
     THEN dictionary.pos_offsets[word.dict + 1] + pos - dictionary.num_system_pos ELSE pos

(* get_word_info_subset and the strings a WordInfo looks up when asked.    *)
WordInfo(dictionary, word, subset) ==
  LET e == EntryAt(dictionary, word)
      lists == ReadLists(e, subset)
  IN [pos |-> PosIdOf(dictionary, word),
      headword |-> HeadwordOf(dictionary, word),
      reading |-> StringOf(dictionary, word, "reading"),
      norm |-> HeadwordOf(dictionary, WordOf(e.norm, word.dict)),
      dic |-> HeadwordOf(dictionary, WordOf(e.dic, word.dict)),
      form_length |-> e.form_length, synonyms |-> e.synonyms, data |-> e.data,
      c |-> WordsOf(lists.c, word.dict), b |-> WordsOf(lists.b, word.dict),
      a |-> WordsOf(lists.a, word.dict), structure |-> WordsOf(lists.structure, word.dict)]

(* word_ids: the public entries of every dictionary.                       *)
PublicWords(dictionary) ==
  UNION {{WordId(d - 1, id) : id \in ToSet(EntryIds(dictionary.files[d]))} :
           d \in DOMAIN dictionary.files}

(* lookup_all_entries, in the order of the dictionaries and their rows.    *)
AllEntriesOf(dictionary, headword) ==
  FlattenSeq([d \in DOMAIN dictionary.files |->
    LET words == [i \in DOMAIN EntryIds(dictionary.files[d]) |->
                    WordId(d - 1, EntryIds(dictionary.files[d])[i])]
    IN SelectSeq(words, LAMBDA w : HeadwordOf(dictionary, w) = headword)])

(* BinDictResolver: the public entries of the system dictionary.           *)
SystemCandidates(dictionary) ==
  LET file == dictionary.files[1]
      ids == EntryIds(file)
  IN [i \in DOMAIN ids |->
        [headword |-> HeadwordOf(dictionary, WordId(0, ids[i])),
         pos |-> PosIdOf(dictionary, WordId(0, ids[i])),
         reading |-> StringOf(dictionary, WordId(0, ids[i]), "reading"),
         ref |-> IF ids[i] \in DOMAIN file.refIds THEN file.refIds[ids[i]] ELSE << >>,
         word |-> Ref(TRUE, ids[i])]]
=============================================================================
