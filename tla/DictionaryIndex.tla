--------------------------- MODULE DictionaryIndex ---------------------------
(***************************************************************************)
(* The index of a dictionary, as the builder writes it and the analyser    *)
(* reads it.  The table of entry ids is a sequence of numbers: for each    *)
(* indexed form the number of its entries and the differences between      *)
(* their ids, and behind those lists one list of the entries that are not  *)
(* indexed.  The trie maps a form to where its list begins (0-based).      *)
(*                                                                         *)
(* Forms and texts are sequences of characters.  A node of the trie is the *)
(* sequence of characters that leads to it; a variable-length number is    *)
(* one element of the table.                                               *)
(***************************************************************************)
EXTENDS Integers, Sequences, SequencesExt, Selections

(* An entry of the builder: its id, its index form and its parameters.  A  *)
(* word that nothing can connect to (left id -1) is not indexed.           *)
IsIndexed(e) == e.word.left >= 0

(* The indexed forms in the order in which they were first added.          *)
FormsInOrder(entries) ==
  LET forms == [i \in DOMAIN entries |-> entries[i].form]
      isNew(i) == \A j \in 1 .. i - 1 : IsIndexed(entries[j]) => forms[j] # forms[i]
  IN Chosen(forms, {i \in DOMAIN entries : IsIndexed(entries[i]) /\ isNew(i)})

EntryIdsAt(entries, places) == Chosen([i \in DOMAIN entries |-> entries[i].id], places)

IdsOf(entries, form) ==
  EntryIdsAt(entries, {i \in DOMAIN entries : IsIndexed(entries[i]) /\ entries[i].form = form})

NotIndexed(entries) ==
  EntryIdsAt(entries, {i \in DOMAIN entries : ~IsIndexed(entries[i]) /\ entries[i].form # << >>})

(* write_delta_varint_word_ids: a difference below 0 is written as 0.      *)
WriteIds(ids) ==
  <<Len(ids)>> \o [i \in DOMAIN ids |->
                     LET before == IF i = 1 THEN 0 ELSE ids[i - 1]
                     IN IF ids[i] > before THEN ids[i] - before ELSE 0]

(* build_word_id_table and build_trie.                                     *)
BuildIndex(entries) ==
  LET forms == FormsInOrder(entries)
      list(k) == WriteIds(IdsOf(entries, forms[k]))
      offset[k \in 1 .. Len(forms) + 1] ==
        IF k = 1 THEN 0 ELSE offset[k - 1] + Len(list(k - 1))
      rest == NotIndexed(entries)
  IN [table |-> FlattenSeq([k \in DOMAIN forms |-> list(k)])
                \o (IF rest = << >> THEN << >> ELSE WriteIds(rest)),
      trie |-> [f \in ToSet(forms) |-> offset[CHOOSE k \in DOMAIN forms : forms[k] = f]]]
-----------------------------------------------------------------------------
(* DeltaCompressedEntryIdIter: the ids of the list that begins at index.   *)
EntriesAt(table, index) ==
  LET sum[i \in 0 .. table[index + 1]] ==
        IF i = 0 THEN 0 ELSE sum[i - 1] + table[index + 1 + i]
  IN [i \in 1 .. table[index + 1] |-> sum[i]]

(* EntryIdIter goes on with the list behind the one it has read.           *)
AllEntries(table) ==
  LET from[index \in 0 .. Len(table)] ==
        IF index = Len(table) THEN << >>
        ELSE EntriesAt(table, index) \o from[index + 1 + table[index + 1]]
  IN from[0]

(* step_once: the outcome of one more character.                           *)
Root == << >>
StepOnce(trie, node, char) ==
  LET next == Append(node, char)
  IN IF next \in DOMAIN trie THEN [kind |-> "Match", node |-> next, value |-> trie[next]]
     ELSE IF \E form \in DOMAIN trie : IsPrefix(next, form) THEN [kind |-> "Continue", node |-> next]
     ELSE [kind |-> "Dead"]

(* TrieEntryIter: the forms that the text has at an offset, shortest first. *)
FoundPrefixes(trie, text, offset) ==
  LET ends == Chosen([e \in 1 .. Len(text) |-> e],
                     {e \in offset + 1 .. Len(text) : SubSeq(text, offset + 1, e) \in DOMAIN trie})
  IN [i \in DOMAIN ends |-> [end |-> ends[i], value |-> trie[SubSeq(text, offset + 1, ends[i])]]]

(* The entries of one leaf; ids are those of the lexicon with this number. *)
Expand(index, lexicon, value, end) ==
  LET ids == EntriesAt(index.table, value)
  IN [i \in DOMAIN ids |-> [dict |-> lexicon, entry |-> ids[i], end |-> end]]

LookupIn(index, lexicon, text, offset) ==
  LET found == FoundPrefixes(index.trie, text, offset)
  IN FlattenSeq([i \in DOMAIN found |-> Expand(index, lexicon, found[i].value, found[i].end)])

(* LexiconSet::lookup: the last user dictionary first, the system          *)
(* dictionary (number 0) last.                                             *)
Lookup(indices, text, offset) ==
  LET turn(k) == Len(indices) + 1 - k
  IN FlattenSeq([k \in DOMAIN indices |->
                   LookupIn(indices[turn(k)], turn(k) - 1, text, offset)])
=============================================================================
