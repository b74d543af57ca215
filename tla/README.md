# Verification of suiko

Suiko is a command line linter for Japanese prose. It brings its own morphological analyser,
`src/crates/suiko-sudachi` (below: SD), with the builder of its dictionaries, and on top of it
detectors, a baseline comparison, an audit of academic manuscripts, a command line and an
evaluation tool (`src/src`). This directory holds TLA+ models of the parts whose correctness
depends on sequences of steps or on passes that have to agree, the TLC configurations that
check them on small instances, and TLAPS proofs about most of these parts.

## 1. The system

How a text goes through it:

```
text -> SentenceSplitter -> StatefulTokenizer -> MorphemeList -> detectors -> filters -> baseline -> report
                              |  InputBuffer <- input text plugins                          ^           |
                              |  Lattice     <- lexicons, unknown-word providers            +-----------+
                              |  path        <- path rewriters (numerals, katakana)    (JSON of an earlier run)

csv, matrix, pos -> DictionaryBuilder -> file -> LoadedDictionary (+ user files) -> lexicons
manuscript, contract, DOCX, PDF -> source_view -> checks -> verdict
sources.toml -> fetch_corpus -> files + lock -> suiko-eval
```

There are no threads of its own in the program. Its hard behaviour comes from state that is
kept from one text to the next (buffers, lattice rows, buckets of lookups, paths and parsers
are reused and never freed), from objects that exchange their memory (a tokenizer and its lists
swap their buffers), from steps that fail half-way and are called again, from several readers
of one text that have to agree on what is code, a note or a heading, from runs that follow each
other with edits in between (lint and its baseline, an audit and its author), and from files
that several processes write (the external corpus).

| Component | State it keeps | Operations | Interacts with | Hard behaviour | What makes it correct |
|---|---|---|---|---|---|
| Input buffer (`SD input_text/buffer*`) | original and rewritten text, byte mapping, edits, index tables, scratch text | reset, start_build, with_editor, commit with resolve_edits, rollback, refresh_chars, build | plugins call with_editor; lattice and lists read the tables | several commits in a row; a commit that fails between two edits; scratch memory of an earlier text | the mapping is monotone, onto, and respects characters; the length limit is exact; tables describe the present text |
| Input text plugins (`SD plugin/input_text*`) | none of their own | rewrite of the default, prolonged sound mark, yomigana and foreign plugins | the buffer; each sees what the one before made of the text | keys that contain each other, NFKC that lengthens or joins, marks at the end of the text | the edits are sorted, apart and cut at characters, as the editor assumes |
| Lattice (`SD analysis/lattice.rs`) | rows of words by end, costs, back pointers, end of sentence | reset, insert, connect_node, connect_eos, fill_top_path | builder loop of the tokenizer; connection matrix | insertion order; rows of longer sentences; i32 costs | chosen predecessors stay best; no dead end; the path is a cheapest segmentation |
| Lattice builder (`SD analysis/stateful_tokenizer.rs`, `analysis/inner.rs`, `dic/lexicon_set.rs`) | buckets of looked-up entries, lanes | the boundary loop, plain and pipelined lookup | lexicons, providers, lattice | lanes that take turns and restart; a cache that outlives the sentence | both lookups find the same words in the same order; every reachable boundary gets what it should |
| Unknown words (`SD plugin/oov*`, `analysis/created.rs`) | lengths already created | MeCab, simple and regex providers | each knows what was created before it | a bit set whose last bit stands for all long lengths | nothing twice, nothing left out |
| Tokenizer (`SD analysis/stateful_tokenizer.rs`) | mode, subset, buffer, lattice, top path | set_mode, set_subset, reset, do_tokenize, swap_result | lists swap memory with it | failing in every stage; settings in any order | a result is all of its own text and nothing else |
| Morpheme lists (`SD analysis/mlist.rs`) | nodes, shared input part | collect_results, split_into, lookup, copy_slice, clear, empty_clone | lists share inputs by `Rc<RefCell>` | borrowed inputs, lists with nodes of another text | a held surface stays; units tile their word |
| Joining of numerals and of katakana (`SD plugin/path_rewrite*`) | scan position, separators taken as digits, parser with three numbers | append, done, clear, rewrite_gen | both rewrite the tokenizer's path, one after the other | the scans go back; a shared parser; three ways to fail | accepted numerals mean their normalized form; what belongs together is joined; the scans end |
| Sentence splitter (`SD sentence_*`) | position, nesting, candidate | next, get_eos, has_non_break_word | lexicon as checker | rejected candidates, limit, nesting | sentences cover the text and end at breaks only |
| Dictionary builder (`SD dic/build*`) | entries, parts of speech, strings, matrix, what was resolved | read_conn, read_pos, read_lexicon, resolve, compile | csv files; the dictionary a user dictionary is built on | calls after one that failed; references by line, key, id and form; sizes known only after resolving; strings packed into one another | what is loaded is what the rows say |
| Dictionaries (`SD dic*`) | lexicons with the offsets of their ids and parts of speech | load, merge_dictionary, search, word_info with a subset | builder; tokenizer | several user dictionaries; references into another dictionary; fields that are skipped | a field reads alike whichever others are asked for |
| Character categories (`SD dic/character_category.rs`) | sorted ranges of code points | Loader::build from the lines of char.def, get_category_types, iter | the buffer, the providers of unknown words | ranges that overlap, touch or nest, in any order | a character has the categories of all lines that name it |
| Markdown (`src/text.rs`, `outline.rs`, `lint/item_count.rs`, `lint/patterns.rs`) | fence, comment, list while scanning | masks, build_outline, fenced_lines, top_level_items, the detectors of lists | every detector and the audit | fences within lists and comments, fences that do not close | code is nobody's text; announced items are counted as a reader counts them; a list is judged as a whole |
| Outline, terms, lexical audit (`src/outline.rs`, `terms.rs`, `lexical.rs`, `cli.rs`) | the inputs read so far, what was found in each, what was said of which word | outline, terms, terms --audit, lexical-audit | Markdown masks, morphology, reference files | several masks of one text; words that are told by one of four stages; inputs in any order; a file that fails after others | no term is missed or counted short; totals are those of the files; every finding has a reason and a partner |
| Academic audit (`src/academic.rs`) | the files as they are when each is read | source_view, citations, references, notes, order, bridges, synchronisation, verdict | author, DOCX, PDF | several reads of a file that changes; notes, references and sections that swallow lines | the view is what a reader sees; what is called ready can be delivered |
| Lint pipeline (`src/lint/mod.rs`) | findings | analyze, word rules, filters | detectors | order of filters | what is dropped is covered by what stays |
| Baseline (`src/lint/baseline.rs`) | buckets of earlier findings | apply_baseline | report of an earlier run | equal keys, other order, malformed entries | one to one comparison |
| Lint command (`src/cli.rs`) | runs so far, exit code | load_config, execute | files, configuration, baseline | files that fail after others succeeded; settings that changed between runs | all or nothing; only like is compared with like |
| External corpus (`src/evaluation/fetch.rs`, `manifest.rs`) | files, lock file | fetch_corpus, load_external_documents | the web; other fetches; evaluations | crashes, torn files, two writers | no evaluation computes on a file whose digest is not recorded |
| Evaluation (`src/evaluation/mod.rs`) | - | sweep, calibrate, report, lengths, labeled, vocab | corpus | splits, ties, empty classes | holdout decides nothing; parts add up |

The other parts, and what is left out of these, are in section 6 and, by file, in `PROJECT.json`.

## 2. Modules

| Module | Models | State and actions |
|---|---|---|
| `InputBuffer` | `InputBuffer`, `InputEditor`, `resolve_edits` | Texts are sequences of bytes: a character's first byte is the character, its other bytes are `Cont`. The variables have the names of the fields. One action per method; the loop of `resolve_edits` is `BeginCommit`, `ResolveEdit` per edit, `FinishCommit`, so that an edit that fails leaves the scratch buffers as they are. |
| `CharacterCategories` | `CharacterCategory` and the tables of a text's categories | operators shared by the buffer and the providers of unknown words: the lines of char.def compiled to ranges, the lookup, and for a text what goes on from character to character |
| `InputTextPlugins` | the four plugins and the loop of `rewrite_input` | extends `InputBuffer`: a plugin is a scan that finds an edit or none at each character; the loaded library may ask for any edits within a length |
| `InputBufferProofs` | | theorems about `InputBuffer` (mapping, limit, tables and categories), and the refinement of its editor by `InputTextPlugins` |
| `Lattice` | `Lattice` and the boundary loop of the builder | `Reset`, then for each boundary `SkipUnreachable` or `Insert`s and `NextBoundary` or `GiveUp`, then `ConnectEos`, `StartTrace`, `TraceBack` per node. What words begin where is free. Costs wrap at `CostWidth`. |
| `LatticeProofs` | | theorems about `Lattice` (its rows and pointers; that the path is the cheapest), about the index and the batch lookup, and the refinement of `OfferedWords` by `LatticeBuilder` |
| `UnknownWords` | the providers | operators: what a provider adds at a boundary to the words so far |
| `DictionaryIndex` | index forms, table of word ids, prefix search | operators, written by the builder and read by the analyser |
| `Selections` | | the elements of a sequence at given places, which is how `DictionaryIndex` says which rows are entered and which entries a node of the trie leads to, and `Evaluation` which documents a command counts |
| `OfferedWords` | what the builder promises | abstract: a boundary gets all its words at once |
| `LatticeBuilder` | how the builder does it | extends `Lattice`: lanes that walk the trie in turns, buckets, providers in their order, one inserted word per step |
| `Words` | `ResultNode`, `NodeSplitIterator`, `InfoSubset` | what a text is analysed to (constant `Analysis`), which fields of a word are read, how it is split |
| `Tokenizer` | `StatefulTokenizer` | settings, `Reset`, one action for each way `do_tokenize` ends, `Collect` swaps text and path with the list. `TokenizerProofs`: theorems about the words, the tokenizer and the lists |
| `MorphemeLists` | `MorphemeList`s | lists and the input parts they share; `holders` are the callers that hold a `Ref`. `Free` is what the borrow checker allows. |
| `SequenceLemmas` | | what the proofs need of sequences and cannot get from the library: steps along an interval, the least and the greatest number with a property, sequences defined step by step, flattening, the elements at chosen places |
| `NumericParser` | `StringNumber`, `NumericParser` | operators on records with the fields of the structs; its second half says, independently of the parser, what a numeral means (each digit has its place) |
| `PathRewriters` | `rewrite_gen` of the two plugins | one action per branch of each loop; indices are the code's plus one. The joining of katakana rewrites the path that the joining of numerals leaves. `PathRewritersProofs`: theorems about both |
| `SentenceSplitter` | `SentenceIter`, `SentenceDetector`, `NonBreakChecker` | one action per branch of the scan; characters are classes. `SentenceSplitterProofs`: theorems |
| `DictionaryEntries` | parsing of lexicon rows in both layouts, resolving of references, sizes and numbers of entries, the writer | operators from rows and the builder's tables to entries |
| `DictionaryFile` | packing of strings, `StringPointer`, a compiled file and reading from files loaded together | operators |
| `DictionaryBuilder` | builder, loader, merging | one action per call, failing ones with what they leave behind |
| `Markdown` | masks, outline, fences, item counts, detectors of lists | recursion and folds over lines |
| `LexicalReports` | `outline::analyze`, `terms::analyze`, `terms::audit`, `lexical::audit` and the commands around them | extends `Markdown` with the morphemes of a line; one action per input and stage, so that a command that fails does so between two inputs |
| `Manuscript` | `source_view`, citations, references, notes | extends `Markdown`, recursion over lines |
| `AcademicAudit` | `audit` with its deliverables | one action per reading of files; edits of author, DOCX and PDF between any two. `CommandProofs`: theorems about the delivery |
| `LintReport` | `analyze`, the filters, `apply_config`, `Config::suppresses`, `apply_baseline` | operators on sequences of findings; a text is what the detectors can find in it; a report is its findings and the counts made of them when it was made, which only `apply_config` makes anew; one action per finding that is compared |
| `LintRun` | `execute` for lint | extends `LintReport`; edits of files and configuration between runs, the JSON of a run as baseline of a later one. `CommandProofs`: theorems |
| `ExternalCorpus` | `fetch_corpus`, `load_external_documents` | processes that download, write, record, save; files that are torn between truncation and the last write; an evaluation beside them |
| `Evaluation` | the commands of suiko-eval | each command as an operator on documents; `EvaluationNext` runs one |
| `EvaluationProofs` | | theorems about `ExternalCorpus` and `Evaluation` |

The `MC*` modules and `.cfg` files give the constants their values. Four of them also put two systems
beside each other that share nothing (`MCSentences`, `MCTokenizer`, `MCEvaluation`, `MCDocuments`): a
behaviour is one of the first system or one of the second. They define nothing else.
Operators named `Bug_...` are plausible mistakes. No specification uses them; each is a body
for the operator behind it, and with it the property named in `PROJECT.json` fails.

**Refinement.** Two properties are abstract specifications that a detailed one implements:

- `OffersItsWords` (run `sentences`): `LatticeBuilder` implements `OfferedWords`. The dictionary
  with its trie, lanes and buckets and the providers with their bit set and queues come down
  to this: each boundary that is reached gets every entry whose index form stands there and,
  after it, the words of each provider. The mapping counts the words of a boundary only when the
  boundary is finished. Because the abstract specification goes
  on or fails at every boundary, it also says that the builder stops nowhere else. This refinement
  is also proved for every dictionary (`BuilderOffersItsWords`, section 4).
- `EditsAreSorted` (run `input_buffer`): what the plugins do to the buffer is a behaviour of
  `InputBuffer!Spec`. That specification lets a caller ask only for edits that are sorted,
  apart and at characters, which is what the comment on `resolve_edits`
  (`edit.rs:87`, "Edits are assumed to be sorted") wants and what the proofs about the buffer
  start from. So the theorems hold for the plugins too. This refinement is also proved
  (`PluginsEditInOrder`, section 4).

## 3. Runs

| Run | Questions | Bounds and why they are enough |
|---|---|---|
| `input_buffer` | Whatever the configured plugins make of a text: are their edits sorted, do mapping, limits, tables and surfaces stay right? | Nine texts of one- to three-byte characters with keys of one and two characters, nested keys, an NFKC form that is longer, upper case, prolonged marks, readings in brackets, one that outgrows the limit and one too long to begin with; six configurations of up to three plugins, among them a library that asks for up to `MaxForeignEdits` = 2 edits of texts of up to `MaxForeignLength` = 5 bytes that delete, shorten and lengthen. The categories come from the char.def of the instance; `Definitions` are the other ones that are compiled: all of up to two lines with their errors and limits (`MCLines`), and all of three lines over four code points (`MCTriples`), the fewest in which a range is cut on both sides by two others. `MaxRounds` = 3 commits: an entry pointing into a replaced range shows only in the second. |
| `tokenizer` | Whatever fails before, is a result the whole result of its own text? Are compound words split in whatever order the settings came? Do a held surface and the text under a list's units stay what they are? | A caller has a tokenizer with the list it collects into, or lists that share their inputs (`MCTokenizer`). Tokenizer: an empty text, one with a compound word, one with a single word; all modes; all ways to fail. Each memory is used by at most two texts, so three suffice. Lists: two of them and two input parts, every way to share one. Lists and parts are interchangeable (symmetry); no liveness is checked here. |
| `join_numeric` | Does the parser read the number that is written? Is the form of every joined node that of its own text, and the text a number (or, before a separator, units that do not add up)? Are digits and katakana joined, do the scans end? | All paths of up to five nodes of a digit, zeros, separators and a word; of up to five of digits, units and a point; of up to four with other units and numerals that are names; of up to five of katakana that are unknown, short, neither, or may not begin a word (`MinLength` = 2). Three separators can hang, be taken back and be read again in five nodes; units that do not add up before a separator are among the paths. |
| `sentences` | Do sentences cover the text and end at breaks, is no plain end missed and no word cut? Do the lanes find what the plain lookup finds? Does each boundary get its words? Is every back pointer best for ever, is there no dead end, is the path the cheapest? | A text is split or sentences are analysed (`MCSentences`). Splitter: all texts of up to three of 15 classes of characters, of up to five of fewer; the limit is 3 when a checker is used (shorter than the texts) and longer than the texts otherwise. Builder: ten texts of up to four characters one after the other, so that rows and buckets of a longer sentence are left over; two dictionaries with shared prefixes, a phantom and an entry that is not indexed; four sets of providers; two `Lanes`, so that more boundaries than lanes wait; `MaxBit` = 2, so that a word has a length the bit set cannot tell; word kinds with ties and with costs for which the greedy path is not the best. Optimality is compared with the enumeration of all segmentations. |
| `dictionary` | After any calls of the builders, refused and repeated ones too: is every word read back what its row says, through whatever other dictionaries are loaded and whatever subset is asked for? | Three sets of sources: old layout and new, references by line, key, reference id and normalized form, shared and unshared lists, phantoms, homographs, rows that are refused behind rows that are kept, a matrix and tables that fail, words whose cost is open, plugins that add parts of speech. At most `MaxDictionaries` = 3 (15 in the code) loaded, of `MaxFiles` = 3: a second user dictionary is the first whose parts of speech can be shifted by another. `MaxPosIds` = 6, `MaxArrayLen` = 3, `MaxDicStringLen` = 9, `PointerBits` = 12 with `BaseBits` = 3 and `MaxVariableBits` = 2 stand for 32767, 127, 32767, 32, 5 and 12 of the code; strings of seven units need the longer pointers. |
| `layout` (violation) | Does the table of word ids name the entries that are in the file? (comment at `build.rs:501`) | One lexicon of four rows. |
| `documents` | Is code nobody's text, are announced items counted exactly as the code's own reading of code and items has it, are lists judged as a whole, is the view what a reader sees, are passing citations answered (ids where there are any, else authors and years), and is a delivery that is called ready one, with edits between and during audits? Does the outline count each heading once? Is no term missed or counted short, whatever stands around it, do totals add up over the files? Has every lexical finding its reason, is no new compound told twice or kept back, in any order of the inputs? | A user either writes a manuscript and has it audited or asks for one of the reports (`MCDocuments`). Manuscripts: all manuscripts of up to three of 22 kinds of lines (among them blank lines that are indented, and notes that open a comment), of four of the ones that carry structure, lists of up to five lines behind an announcement, all pairs of citations and references by key, alias, kanji name and id; lists of up to ten items, decorated, long, empty or interrupted, among them two that are uniform (four items each); one deliverable manuscript and its reordering with nine DOCX and two PDF files, `MaxEdits` = 3 edits anywhere in `MaxAudits` = 1 audit: between two reads of the manuscript one edit and its reversal fit. Reports: Outlines of up to four headings of six kinds and two levels; terms of texts of one or two of 13 lines (words alone, in compounds, enumerated with a middle dot, acronyms, names), and within code, comments, front matter and headings; audits of two texts; all pairs of twelve texts of compounds with four references that count, know or group them, so that each stage finds something the next may not tell again; files and references that fail. Six occurrences of a compound pass the limit of five; `CONTEXT_CHARS` = 3 stands for 80. |
| `announced` (violation) | Does the code of an item stay in it? (CHANGELOG.md:61) | The manuscripts of `documents`. |
| `citations` (violation) | Does the bibliography have the author and year of what the text cites, when the check of it passes? (what it prints, `academic.rs:929`) | The manuscripts of `documents`. |
| `lint_run` | Is every earlier finding answered one to one, is only like compared with like, do the exit code, the counts and the comparison describe the texts of the run? | Two files, two runs, with edits of files and configuration, foreign reports and failures between them; four commands that differ in genre, options, baseline, threshold. A third run sees a report of the same kind as the second. |
| `evaluation` | Can an evaluation compute on a file that is torn or not recorded? Does a fetch save what it selected, and end? Is the recommendation the best, is holdout ignored, do parts add up? | Either files are fetched and read or a command computes (`MCEvaluation`). Files: two sources, two processes, two payloads: up to three fetches one after another or two at once, one evaluation beside those. Two writers of one file are the smallest conflict. Commands: up to two documents and one external one, all labels, splits, lengths at the ends of buckets; three pairs of thresholds. |
| `recommendation` (violation) | Is the first of several equally good thresholds recommended? (what `calibrate` prints, `evaluation/mod.rs:800`) | The commands of `evaluation`. |

Deadlock is checked in `input_buffer`, `sentences` and `dictionary`: the only end of these systems is
that of a text which is split (`IsSplit`). The others stop: a command ends, callers panic, the number of
runs is bounded.

**Fairness.** `SuikoEvalSpec` (`MCEvaluation`) gives every fetch weak fairness: its loop waits for nothing but
the network, and `ureq` is given a global timeout of 60 seconds, after which the download
fails. `SentencesSpec` (`MCSentences`) gives it to the steps of the splitter and `PathRewriters` to
those of both rewriters: these are plain loops that run until they return. Nothing else assumes
fairness.

**Bounds** that cap counters are named constants: `MaxRounds`, `MaxEdits` (commits, edits of one
commit; in `AcademicAudit` edits of the files), `MaxLen`, `MaxWords` (boundaries, words of a
lattice), `MaxNodes` (length of a list), `MaxRuns`, `MaxShared`, `MaxLoads` (runs, fetches,
evaluations), `MaxAudits`, `MaxDictionaries`, `MaxFiles`. `BuildsOnMerged` says whether a user
dictionary may be built on a dictionary that another user dictionary was merged into; it is
FALSE, since the code numbers the parts of speech of such a file in a way that holds only in
the same company (section 5).

## 4. Proofs

`InputBufferProofs` proves for any set of texts, replacements, limits, commits and edits:

- `TypeCorrect`, `MappingIsCorrect`, `LengthIsCorrect`;
- `TablesAreOfTheText`: `TablesDescribeText`, all that `build` computes, for any character
  definition;
- `PluginsEditInOrder`: `PluginSpec => EditsAreSorted`, the refinement of the editor by the
  bundled plugins, in any order and number and with any rewrite list, and by a library that keeps
  to the editor; and so `PluginsKeepMapping`, the mapping, the limit and the tables with these
  plugins.

The argument: the mapping properties are not inductive, since a commit is made edit by edit in
scratch memory. `MapInv` adds `ScratchInv` (the scratch text so far has a mapping that is
sorted, lies below the entry at the position copied so far and points at characters; the
running length is the length of scratch and rest) and `EditsOrdered` (recorded edits lie at
character boundaries, one behind the other, which `RecordEdit` takes from the use of the editor
that `EditsAreSorted` checks of the plugins). `FinishCommit` then glues two sorted mappings at a
common bound, and `FirstIsZero` may only lower the first entry. Assumptions: texts and
replacements begin with a character (they are UTF-8), `REALLY_MAX_LENGTH` is at least
`MAX_LENGTH`.

For the tables `BuiltInv` adds to `MapInv` why a built buffer holds those of its text: before
`build`, which appends, they are empty, a commit leaves no characters behind, and a text begins
with a character, also the half of it in scratch memory (what is copied begins behind an edit,
and so does a replacement). The rest is about any text: `Ascending` puts a finite set of numbers
in order (`AscendingFacts`), which gives the offsets of the characters; a byte belongs to the last
character that begins at or before it (`CharOfByte`), so the tables are inverse; boundaries have
ascending original characters (`OrigCharsAscend`); adjacent slices put together are the sequence
they are cut from (`SlicesFlatten`); a run that is counted down is part of the run before it
(`ContinuityFacts`). For the categories `IsPlaceIn` says between which boundaries a code point
lies. The search and the ranges of the compiled table find that place (`SearchFindsPlace`,
`IterFindsPlace`), a definition says the same of all code points between two successive bounds
(`GivenInRange`), and what `compile` joins are neighbours of equal categories (`TableGives`).
Assumption: `CharDefAssumption` (the definition of the dictionary can be read).

For the plugins `PlansInv` adds to `MapInv` that what a plugin has found and not recorded yet is
in order, lies behind what it recorded and is no more than the text has bytes. That it is in
order is the lemma `ScanInOrder`: a scan whose finds begin at the character and end at a later
one gives edits one behind the other, at the byte offsets of characters (`OffsetFacts`), whatever
the scan looks for; it is proved from the last character at which it would fail. `ScansFit` shows
it of each plugin: the longest and the shortest key that stands at a character exist and end in
the text, a run of marks ends somewhere, a reading in brackets ends at a bracket. Assumptions:
`PluginsAssumption` (keys of the rewrite list are not empty, the configured plugins are the four;
the bound `MaxEdits` is not below the limit of the text, so that it stops no plugin) and
`InsertionsAssumption` (`Replacements` has what the plugins insert). A library that asks for
edits out of order is not covered: the editor accepts them.

`LatticeProofs` proves for any words, any connection matrix and sentences of any length:

- `RowsStaySound`: types, parallel rows, nothing left of longer sentences;
- `PredecessorsAreBest`: the Bellman equation holds for every inserted word for ever;
- `BuilderHasNoDeadEnd`, `TopPathTilesSentence`;
- `CostsStayWithin`: below 2^31 / `MaxStep` characters no sum wraps. With i16 costs a step is at
  most 65536, so the bound is 32768 characters; the code allows 49149 bytes, that is 16383
  characters of three bytes but more of one.

`LatticeInv` adds `Frontier` (no word begins behind the boundary being worked on, so the row a
new word looks back to is complete) and `EosConnected` (the pointers a path starts from reach the
beginning). Assumptions: costs and connections are integers, at most `MaxStep` together; the
connection to the end of the sentence alone is at most `MaxStep` too.

`LatticeProofs` proves from these also `TopPathStaysBest`: as long as the size of the sentence times
`MaxStep` stays below the limit of an i32, `TopPathIsBest` holds, that is, the path tiles the
sentence and no segmentation into inserted words is cheaper. Beyond that limit it is false: a
cost that wraps can make a dear path look cheap. The argument is Bellman's, along chains of
words of any length: the cost of a word is at most that of any chain that leads to it, and it
is that of the chain its back pointers form. Both are inductions along a chain; they are made
by way of the first position at which the claim would fail, which exists because `<` is well
founded on the naturals.

Of the builder above the lattice, for any dictionaries, any providers in any order, any number of
lanes, any text and any sequence of sentences, `LatticeProofs` proves:

- `IndexFacts`: the trie the builder of a dictionary writes has the indexed forms and no others,
  and each leads to the ids of all entries of that form, in order, through the differences in the
  shared table;
- `BatchStaysLookup` (`BatchReproducesLookup` for ever), from the inductive `BatchInv`: during a
  batch every boundary below the next one to be given out is held by exactly one lane or done; a
  held one stands at the node of the trie the text leads to, and its bucket has what the
  dictionaries done found and then what this walk has found so far. Lanes are used again in any
  order, so nothing weaker is inductive;
- `BuilderUsesLattice`: the builder with all its steps is a behaviour of `Lattice!Spec`, so
  everything proved of `Lattice` holds of it; `BuilderPathIsBest` is `TopPathStaysBest` for it;
- `BuilderOffersItsWords`: the builder implements `OfferedWords`.

The invariant of the last two is `BuilderInv`: `LatticeInv`, `BatchInv` and `OfferInv`. `OfferInv`
says, in the middle of a boundary, that the words inserted and those still to be inserted are
together what `OfferedWords` knows at that point of the boundary (matches of the dictionaries, then
providers in their order, then the last one again if nothing was created), that no provider asked so
far has failed, and that the bit set has the lengths of the words created. A step that finishes
a boundary is then a step of `OfferedWords`, and every other one changes nothing it sees.
`BuilderOffersItsWords` has the hypothesis `(MaxLen + 1) * MaxStep < I32_MAX`, the bound of
`CostsStayWithin` (32768 characters with i16 costs): beyond it the end of a sentence may take
a cost that has wrapped for that of a disconnected word and fail where the words are all there.
Assumptions: `TextsAssumption`; `CategoriesAssumption` (a character has categories of
char.def); `SetupsAssumption`, which is what the loader hands over: at least one dictionary and
one provider, ids of entries that go up, index forms that are not empty (the builder of dictionaries
refuses them, `EmptyIndexForm` in `dic/build/error.rs:77`) and parameters within the
connection matrix, providers of the three kinds there are.

`TokenizerProofs` proves for any texts, analyses and units, for any number of lists:

- `SplitPathTiles`: splitting keeps a path that covers its text one that covers it;
- `ResultsBelong`, with the invariant that a path about to be filled is empty or lost and that a
  path with words in it, fresh or just given back by a list, is a result of the text in the
  buffer: the swap of `swap_result` exchanges text and path together, and `reset` separates them
  only when it empties the path;
- `BorrowedTextStays` and `UnitsTile`, from the types of lists and inputs.

Assumptions: the analysis of a text is a path that covers it, with units of any lengths
(`AnalysisAssumption`; that the path of the lattice covers its sentence is
`TopPathTilesSentence`); the entries a lookup finds are finitely many.

`EvaluationProofs` proves of `ExternalCorpus`, for any list of sources, any pages and any number of processes,
fetches, deaths and evaluations:

- `CorpusStaysSound`: an evaluation computes only on payloads whose digest is in the lock it
  read and accounts for every source; with one fetch at a time, a file that differs from its
  entry was written to by a fetch that died;
- `FetchSavesItsSelection`, the action property of the saved lock.

The first half of `CorpusStaysSound` follows from `ReaderInv`, which adds the sources that are
still to be read to the sum. The second half is about two files that are never written
together, so it needs to know, in the middle of a fetch, which file agrees with which copy of
the entries: `RunningInv` says that a source is settled when the fetch has handled it or
nothing unsaved was ever written to its file, that the file of a settled source agrees with
the entry in the memory of the fetch, and that the entries of other sources are those it
started from. `AloneInv` adds that no other process is running and that no open file is shared.
Assumptions: the names of states and paths are no ids and no payloads.

and of `Evaluation`, for any corpora, thresholds, limits and exclusions:

- `RecommendationStaysSound`: `calibrate` recommends a threshold that keeps the constraint and
  detects most of those that do; a false alarm less takes none of them out; and what `calibrate`,
  `sweep` and `vocab` print is what they would print without the documents of the holdout split.

`CommandsInv` says that what was printed is what the command computes of the corpus as it is. The
rest is about any corpus. A test chooses the same places of two sequences that agree on it
(`ChosenByPosition`), so a document that falls silent keeps its place among the reports of its
label, and no more of these fire; and the Wilson bound, squared as it is in `UpperAtMost`, is
monotone in their number. Choosing the development split twice is choosing it once (`ChosenAll`).
Of finitely many candidates there is a greatest detection, and of its places a last one
(`GreatestOf`). Assumptions: `CorporaAreLists`, `ValuesAreLists` (types of corpora and commands; a
limit is between 0 and 1, which `calibrate` checks).

`CommandProofs` proves of `LintRun`, for any files, texts, configurations and edits of them, any earlier
reports, foreign ones included, and any number of runs:

- `BaselineAnswersOneToOne`: at every moment of a comparison the usable entries are those left
  in the buckets and, one to one, those behind persisting findings; nothing is new and resolved;
  the order of the findings does not matter; of equal entries the first persist;
- `EarlierReportIsTold`: every usable entry of the earlier report is told as persisting or
  resolved, or its file as removed;
- `OnlyLikeIsCompared`: no comparison between different genres or settings of --experimental;
- `OutcomeIsOfTheReport`: a run prints nothing exactly when one of its inputs is bad, whichever and
  wherever it stands (`AllOrNothing`); exit code 2 is decided by the texts, word for word what their
  user is to be told of them (`IsTold`), whatever the baseline knows (`ExitCodeIsOfTexts`); the counts
  are those of the findings printed with them, with or without a configuration
  (`CountsDescribeFindings`); and a file compared with what a run printed of the same text under the same
  settings has nothing new and nothing resolved, whatever was edited in between
  (`NothingChangedNothingNew`);
- `LeftOutIsAlwaysCovered`: what `analyze` drops for a more concrete finding is covered by one it
  returns.

`LintInv` joins the comparison of one file with the run around it. `ComparisonInv` says of the
comparison that the entries with one key that were taken and the findings with that key that
persist are equally many, that the taken ones are the first of them, and that a finding is new
only when none was left; the counts per key are summed to the count of all entries. Around it,
`FilesInOrder` (the runs done are those of the first files of the command, each with the
findings of its text, the counts of these findings and, if it was compared, as many persisting and
resolved ones as its record holds), `Comparing` (the comparison under way is that of the next file
with the last record of its name, made under the same settings), `Printing` and `Failing` (who failed
had a bad input). `RecordsTell` carries a report from one run to the next: a record that a run printed
has the findings of the text and the settings it was made of. The sorting of findings by line is shown
to be a bijection by their ranks.
That the counts are never stale is a fact about the order of `apply_config`: word rules come in
without being counted, and the count follows the exclusions (`Bug_CountsStay` leaves it out). Assumptions: `LintAssumption`,
`BaselineAssumption` (types of the constants; what is malformed is no finding).

and of `AcademicAudit`, for any contract and files, and any order of saving and auditing them:

- `ReadyIsDelivered`: whoever is told that a delivery is ready, and saved nothing while the audit
  ran, has a manuscript, a DOCX and a PDF with the same blocks, on record as they are, the
  template's own layout, a caption behind every table and figure, and the required order.

Its invariant is `AuditInv`: until something is saved, every check that a running audit of all
deliverables has made is there and, if it passed, says what it says of the files as they are, and a
DOCX that was compared exists. Nothing weaker would do: the DOCX is read three times, the manuscript
twice, and the verdict only looks at the checks. That the checks together mean what is promised
rests on the data: equal inventories are equal numbers of every block (`SyncedBlocks`); captions that
each stand behind a table, and are as many as there are tables, stand behind all of them
(`EveryItemHasItsCaption`, by counting); texts found one behind the other have places in this order
(`FoundAreInOrder`); and what `source_view` reads is a list whatever the lines are (`MainIsList`).
Assumption: `ListsAreLists` (manuscripts, the items of a DOCX and the required order are sequences).

`SentenceSplitterProofs` proves for any texts, limits and checkers:

- `SentencesAreCutAtBreaks`: the sentences are the text in order, none is empty, all but the last
  end outside of parentheses at a break and in no word the checker sees;
- `PlainEndsSplit`: without a checker, in a text within the limit, a period outside of
  parentheses before a plain character ends a sentence.

`SplitInv` says that the level counted by the scan is the depth of the text from the beginning
of the sentence, that the scan has passed no plain end, and that an end that was found makes a
good sentence. The depth is a recursive function of the text; what is needed of it for texts of
any length is proved by way of the first position at which it would fail. Assumption:
`SplitterAssumption` (lexicons, their words and the texts are sequences, a limit is positive).

`PathRewritersProofs` proves for paths of any length of nodes with any normalized forms:

- `JoinedNumbersReadTheirText`: the nodes of the path always cover the original one, and the form of
  every joined node is that of its own text, parsed alone by a new parser, without exception, although
  one parser serves all runs, is asked for its number before it is known whether the last separator
  belongs to it, and keeps what sums that failed have made. The text is a number, but for one case,
  which the theorem names: before a separator it may be units that do not add up, and nothing else is
  wrong with it. (The form is then what was added by the time the sum failed, see section 5.);
- `HangingReads`, on which the case of a separator rests, for any text: `done` adds up before it tells
  of the separator that hangs, and what it leaves is, normalized, what it leaves of the text without the
  separator, also when the sum fails. A point moves the point of the last number to the end of its
  digits, which neither a sum nor the normalized form shows (`Alike`), and the separator would not have
  been accepted behind anything that is wrong but the sum;
- `SomethingIsJoined`: `concat_nodes` is never called for no nodes;
- `KatakanaEndAsWords`: of the joining of katakana, all that `KatakanaAreJoined` says, wherever
  unknown and short nodes are and wherever words may not begin.

`NumeralInv` says besides that the nodes from the open run on are those of the original path, that
the parser has read exactly the text of the open run and accepts, and that no run begins with a
separator, because the parser refuses a separator alone. That a run is read node by node and its
text at once are the same is `AppendAllConcat`.

`KatakanaInv`, for the second scan: the words cover the original path; each is a node of the path,
or it lies behind the scan, begins where a word may begin, ends its run, and the run had a node
that asked; and where a node that might begin a word does not end its run, no node of the run that
the scan has passed asked. The last part is what a joining behind the scan, or in front of it, could
break: the begin of a word may lie on either side of the node that asked. Runs are compared by the
characters of the original path, which stay when nodes go. Assumption: `PathsAssumption` (a path has nodes,
normalized forms are texts). That the parser computes the number a text means
(`ParserReadsNumbers`) stays with the model checker: what it computes is folded from the text.

Only model-checked: `WordsAreSplit` (of units that cover their word; the types alone do not give
it), `NumbersAreRead`, everything about the modules not named here (the dictionaries' files,
Markdown, what else the academic audit checks, reports, and of the evaluation the sums of
`CountsAddUp`: most of it rests on folds, whose induction theorems take an
operator as a parameter and cannot be instantiated, and on `SelectSeq`, whose definition the prover
cannot expand), liveness under fairness
(`FetchEnds`, `SplittingEnds`, `RewritingEnds`) and what rests on ENABLED.

## 5. Findings and observations

Four runs refute what the repository says of itself.

`layout`: `build_index_data` (`build.rs:500`)
numbers the entries by the sizes they had when they were parsed, and the writer writes them by
the sizes they have when they are resolved. A list that is spelled once with a reference id and
once without becomes equal to the list before it and then takes no room, so every entry behind
it lies elsewhere than the table of word ids says, contrary to the comment at `build.rs:501`.
References between rows go wrong with it.

`recommendation`: `calibrate` prints 「同率の場合は先に指定した値を採る」
(`evaluation/mod.rs:800`), of equally good thresholds the one given first is taken. The code takes
it with `Iterator::max_by`, which returns the last of several greatest elements.

`announced`: CHANGELOG.md:61 says that items may hold code (「項目内の補足段落やコード」). `top_level_items`
ends a list at any fenced line that is not indented deeper than its items
(`lint/item_count.rs:147`), and so at an empty line of the code inside an item: the items behind it
are not counted, and a right announcement is called wrong. `AnnouncedItemsAreCounted`, which is checked
(in `ListsAreTakenWhole`) for every list and passes, says what the code counts; `CodeStaysInItsItem` what the line promises.

`citations`: the check of citations prints 「本文引用に対応する著者名・年が参考文献欄にあります」
(`academic.rs:929`), the bibliography has the authors and years of what the text cites. One citation by
id anywhere switches the comparison of authors and years off (`academic.rs:867`), and the check passes
with the same line. `CitationsAreAnswered`, which passes, says what is compared in either case;
`CitedAuthorsAreListed` what the line says. `skills/suiko/references/academic-delivery.md:32` asks
authors not to mix the two; nothing looks whether they do.

Noticed while modelling. The models have the code's behaviour in each case.

Analyser:

- After an error behind `resolve_best_path` (SD `stateful_tokenizer.rs:189`) the path stays
  `None`; a following empty text makes `do_tokenize` return `Ok`, and `swap_result` panics
  (`Tokenizer!CollectPanics`).
- `MorphemeList::lookup` appends, although its comment says that it resets the list.
- `split_into` uses the subset of the moment of collection: narrowed after the analysis, it
  reads units without their length, and all but the last are empty.
- `has_non_break_word` counts the characters up to the end of the input where its comment speaks
  of those of the matched word: a period that is a word of one character vetoes every boundary
  that text follows. `SentenceIter` takes the provisional boundary of `get_eos` for the end of
  the text.
- `check_comma` counts decimals: "1.5,000" and "1,00万" are accepted. An error that is noticed
  only by `done` leaves digits apart. A numeral that does not add up is joined if a separator
  follows, and normalized to what was added by then (十 and 000 to 0), because `done` tells of the
  separator before it tells of the sum; tests say that what does not add up is no number
  (`numeric_parser.rs:261`, `:308`). `JoinedReadsItsText` names this case (`OnlySumFails`). A node of numeric characters whose normalized form has a
  separator in the wrong place would be read again for ever (`join_numeric.rs:108`).
- `replace_slow` searches with `earliest(true)` and takes the shortest key, `replace_fast` the
  longest: they differ for keys that contain each other, which the bundled rewrite.def has not.
- A regular expression that matches the empty string makes a word of no length; the MeCab
  provider may give a word twice at the end of a text.

Dictionaries:

- A failing `read_pos` or `read_lexicon` keeps what it read before the failure: a second
  `read_pos` is refused, a second `read_lexicon` repeats the rows. A matrix that fails after its
  header leaves its sizes but not the limits of the ids.
- The parts of speech of a user dictionary are numbered behind those of the dictionary it was
  built on, those its plugins and other user dictionaries added included
  (`dictionary.rs:131`); merged into another company they mean something else.
- `LoadedDictionary::merge_dictionary` does not work out open costs. `MAX_POS_IDS` is compared
  with `>`, so one more fits. A headword of more than 4115 units is parsed and fails in compile.
- In the layout with a header the normalized form "*" is a word, in the old one a reference to
  the row itself.

Lint, evaluation:

- Excluding the more concrete of two findings about one place removes both: exclusions are
  applied after the less concrete one was dropped (`cli.rs:839`).
- A failed fetch replaces the entry of a source, digest included, though the file of the
  earlier fetch is still there (`fetch.rs:158`). A fetch that dies while it writes the lock
  leaves one that does not parse; it has to be restored by hand.

Documents:

- `build_outline` takes a fence for closed only if nothing follows the marks, the other readers
  are more lenient. "<!--" within code opens a comment for all masks.
- A definition of a note takes all lines behind it that begin with a blank or a tab, also those that
  hold nothing else or are commented out (a mask leaves their blanks), and a second definition of the
  marker replaces the first. `prose_blocks` drops a paragraph directly below a heading.
- The audit reads the manuscript several times; an edit between two reads is seen by some
  checks only.

## 6. What is left out

Not modelled at all: configuration files
and the loading of plugins (which paths are tried at start-up); hash functions and error types;
the detectors on morphemes and metrics (`lint/morph.rs`, `metrics.rs`, `reading_load.rs`), which
are tables of words and thresholds and floating-point statistics over one text, without state
or order (the lint pipeline takes a detector for any set of findings); the choice of the
embedded dictionary when the program is built; declarations.

Left out of what is modelled: wording and layout of outputs, logging and debug dumps; the text
within a line of Markdown (inline marks, cutting of excerpts), of which `LexicalReports` keeps the
morphemes; contexts, rounding and sorting in the reports on words; regular expressions (they are what they match); the double array of the trie (it is the
forms it holds); the bytes of dictionary files, numbers and blocks (a file is a record); the
XML of a DOCX (it is what the audit takes from it); extraction of text from HTML and PDF; the
accessors of a morpheme, which only read; the setting of single connection costs at start-up;
the setters of a dictionary's description and the builder's report. The Wilson bound is computed
in integers, with the square root multiplied out. `swap_original` of the buffer and
`key_lengths` of the default plugin have no caller or reader.

## 7. Plan

Done: buffer, categories and plugins, lattice and its builder with lookups and providers,
tokenizer, lists, both path rewriters, sentences; dictionaries from their rows to what is read
back; Markdown, the reports on headings and words and the academic audit; lint and its baseline;
corpus and evaluation.

What would come next:

1. The settings of unk.def; ladders of thresholds of the detectors on metrics; matching of word
   rules.
2. A text with holes (pieces of the original) as an abstract specification of `InputBuffer`; the
   comparison of bags as one of `apply_baseline`.
3. Proofs: that digits are joined (the second half of `NumbersAreRead`), the stages of
   `LexicalReports` (`FindingsHaveReasons`).
