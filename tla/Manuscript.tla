----------------------------- MODULE Manuscript -----------------------------
(***************************************************************************)
(* What the academic audit reads out of a manuscript (source_view) and     *)
(* what it says of citations, references and notes.                        *)
(*                                                                         *)
(* A line has, besides what Markdown gives it,                             *)
(*   block   what it says, up to the marks the comparison leaves out       *)
(*   omit    it begins with one of the contract's sync_omit_prefixes       *)
(*   keys    the citations or, in a reference, the key in it: [author,     *)
(*           year], the author as a sequence of characters                 *)
(*   ids     the citation ids [@id] in it, in order                        *)
(*   notes   the markers of the notes it refers to                         *)
(*   entry   it begins like an entry of a bibliography                     *)
(* A definition of a note has the note's marker as mark.                   *)
(***************************************************************************)
EXTENDS Markdown, FiniteSets, FiniteSetsExt, Functions

CONSTANTS
  Aliases,    \* citation_aliases of the contract: a function on authors
  Kanji       \* the characters whose authors are compared by prefix

---------------------------------------------------------------------------
(* source_view: one step per line.  A definition of a note takes the lines *)
(* behind it that begin with a blank, whatever they are, empty ones too.   *)

ViewStart ==
  [first |-> TRUE, front |-> FALSE, fence |-> NoFence, reference |-> 0, note |-> 0,
   open |-> [is |-> FALSE], main |-> << >>, citation |-> << >>, sync |-> << >>,
   references |-> << >>, notes |-> << >>]

Read(s) == [s EXCEPT !.first = FALSE, !.open = [is |-> FALSE]]

\* the level of a section behind a heading that does not open one
Left(level, line) == IF line.kind = "heading" /\ line.size <= level THEN 0 ELSE level

OpenSection(s, line) ==
  [Read(s) EXCEPT !.reference = IF line.mark = "references" THEN line.size ELSE 0,
                  !.note = IF line.mark = "notes" THEN line.size ELSE 0,
                  !.sync = Append(@, line)]

\* a note, or a line that continues it; a later note of one marker replaces it
AddNote(s, marker, omit, line) ==
  LET said == IF line.kind = "blank" THEN {} ELSE {line.block}
  IN [s EXCEPT !.first = FALSE,
               !.open = [is |-> TRUE, marker |-> marker, omit |-> omit],
               !.notes = marker :> (IF s.open.is THEN @[marker] \cup said ELSE said) @@ @,
               !.sync = IF omit THEN @ ELSE Append(@, line),
               !.citation = IF omit THEN @ ELSE Append(@, line)]

\* a line of the body, of the references, or of the section of notes
Body(s, line) ==
  CASE line.omit -> Read(s)
    [] s.note # 0 -> [Read(s) EXCEPT !.sync = Append(@, line)]
    [] s.note = 0 /\ s.reference # 0 ->
         [Read(s) EXCEPT !.sync = Append(@, line), !.references = Append(@, line)]
    [] s.note = 0 /\ s.reference = 0 ->
         [Read(s) EXCEPT !.sync = Append(@, line), !.citation = Append(@, line),
                         !.main = IF line.kind = "table" THEN @ ELSE Append(@, line)]

ReadLine(s, line) ==
  LET rule == line.kind = "rule"
      fence == FenceAfter(s.fence, line, ClosesFence(s.fence, line))
      left == [s EXCEPT !.reference = Left(@, line), !.note = Left(@, line)]
  IN CASE s.first /\ rule -> [Read(s) EXCEPT !.front = TRUE]
       [] s.front -> [Read(s) EXCEPT !.front = ~rule]
       [] s.open.is /\ line.indent > 0 ->
            AddNote(s, s.open.marker, s.open.omit, line)
       [] OTHER ->
            CASE s.fence # NoFence \/ fence # NoFence -> [Read(s) EXCEPT !.fence = fence]
              [] s.fence = NoFence /\ fence = NoFence ->
                   CASE line.kind = "heading" /\ line.mark \in {"references", "notes"} ->
                          OpenSection(s, line)
                     [] line.kind = "note" \/ (line.kind = "jpnote" /\ left.note # 0) ->
                          AddNote(Read(left), line.mark, line.omit, line)
                     [] OTHER -> Body(left, line)

source_view(lines) ==
  LET masked == mask_html_comments(lines)
      upTo[n \in 0..Len(masked)] ==
        IF n = 0 THEN ViewStart ELSE ReadLine(upTo[n - 1], masked[n])
  IN upTo[Len(masked)]

\* which notes the body refers to; tables are not searched
NoteReferences(view) == UNION {view.main[i].notes : i \in DOMAIN view.main}

\* the lines of each entry of the bibliography
reference_entries(lines) ==
  FoldLeft(LAMBDA s, line :
             IF line.kind = "blank" THEN [s EXCEPT !.current = FALSE]
             ELSE IF s.current /\ ~line.entry /\ line.indent > 0
             THEN [s EXCEPT !.out[Len(s.out)] = Append(@, line)]
             ELSE [current |-> TRUE, out |-> Append(s.out, <<line>>)],
           [current |-> FALSE, out |-> << >>], lines).out

---------------------------------------------------------------------------
(* Citations.  As soon as one id is used, only ids are compared.           *)

Authored(author) == IF author \in DOMAIN Aliases THEN Aliases[author] ELSE author
InKanji(author) == \A i \in DOMAIN author : author[i] \in Kanji

\* family names in kanji may be followed by a given name
citation_key_matches(citation, reference) ==
  LET c == Authored(citation.author)
      r == Authored(reference.author)
  IN /\ citation.year = reference.year
     /\ \/ c = r
        \/ InKanji(c) /\ InKanji(r) /\ (IsPrefix(c, r) \/ IsPrefix(r, c))

citation_keys(lines) == UNION {lines[i].keys : i \in DOMAIN lines}
explicit_citation_ids(lines) == UNION {ToSet(lines[i].ids) : i \in DOMAIN lines}

\* the first key of an entry, all its ids
reference_keys(entry) ==
  LET with == SelectSeq(entry, LAMBDA line : line.keys # {})
  IN IF with = << >> THEN {} ELSE with[1].keys
\* each id once
Bug_ReferenceIds(entries) ==
  SetToSeq(UNION {ToSet(line.ids) : line \in UNION {ToSet(entries[i]) : i \in DOMAIN entries}})
explicit_reference_ids(entries) == FlattenSeq([i \in DOMAIN entries |->
                                     FlattenSeq([j \in DOMAIN entries[i] |-> entries[i][j].ids])])

audit_citations(view) ==
  LET entries == reference_entries(view.references)
      cited_ids == explicit_citation_ids(view.citation)
      entry_ids == explicit_reference_ids(entries)
      explicit_id_mode == cited_ids # {} \/ entry_ids # << >>
      cited == IF explicit_id_mode THEN {} ELSE citation_keys(view.citation)
      keyed == IF explicit_id_mode THEN {} ELSE {i \in DOMAIN entries : reference_keys(entries[i]) # {}}
      key(i) == CHOOSE k \in reference_keys(entries[i]) : TRUE
  IN [citation_reference_match |->
        /\ \A c \in cited : \E i \in keyed : citation_key_matches(c, key(i))
        /\ cited_ids \subseteq ToSet(entry_ids),
      uncited_references |->
        /\ \A i \in keyed : \E c \in cited : citation_key_matches(c, key(i))
        /\ ToSet(entry_ids) \subseteq cited_ids,
      duplicate_references |->
        /\ \A i, j \in keyed : key(i) = key(j) => i = j
        /\ IsInjective(entry_ids)]

---------------------------------------------------------------------------
(* Notes.  A decision is [marker, disposition, text].                      *)

Said(view) == {view.main[i].block : i \in DOMAIN view.main}

Disposed(view, decision) ==
  LET noted == UNION {view.notes[m] : m \in DOMAIN view.notes}
  IN CASE decision.disposition = "note" ->
            /\ decision.marker \in DOMAIN view.notes
            /\ decision.text \in view.notes[decision.marker]
            /\ decision.marker \in NoteReferences(view)
            /\ ~(view.notes[decision.marker] \subseteq Said(view))
       [] decision.disposition = "body" -> decision.text \in Said(view) \ noted
       [] decision.disposition = "drop" -> decision.text \notin Said(view) \cup noted

audit_notes(view, decisions) ==
  [note_disposition |-> \A d \in decisions : Disposed(view, d),
   note_coverage |-> DOMAIN view.notes \subseteq {d.marker : d \in decisions},
   note_references |-> NoteReferences(view) = DOMAIN view.notes]
=============================================================================
